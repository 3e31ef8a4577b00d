------------------------- MODULE TurnPipelineProofs -------------------------
(***************************************************************************)
(* Proofs about TurnPipeline for any number of requests and keys and any   *)
(* cap on the transcript, and about the streamed reply (ReplyStream), for  *)
(* any texts, any length of the chain of providers, any deadline and any   *)
(* deltas.                                                                 *)
(***************************************************************************)
EXTENDS TurnPipeline, ReplyStream, FiniteSetTheorems, SequenceTheorems, TLAPS

----------------------------------------------------------------------------
(* The data                                                                *)

\* The exchange of a request is two messages.
LEMMA ExchangeType ==
  ASSUME NEW r \in Requests
  PROVE  Exchange(r) \in Seq(Message)
BY DEF Exchange, Message

\* The cap of persist_turn keeps a transcript a transcript.
LEMMA WindowType ==
  ASSUME NEW s \in Seq(Message)
  PROVE  Window(s) \in Seq(Message)
<1>1. CASE MaxMessages > 0 /\ Len(s) > MaxMessages
  <2>1. Len(s) \in Nat /\ MaxMessages \in Nat
    BY MaxMessagesAssumption
  <2>2. \A i \in (Len(s) - MaxMessages + 1)..Len(s) : s[i] \in Message
    BY <1>1, <2>1
  <2>. QED
    BY <1>1, <2>1, <2>2 DEF Window
<1>2. CASE ~(MaxMessages > 0 /\ Len(s) > MaxMessages)
  BY <1>2 DEF Window
<1>. QED
  BY <1>1, <1>2

\* The rows the table of claims can hold.
LEMMA RowTypes ==
  /\ Absent \in Row
  /\ \A r \in Requests : Claimed(r) \in Row
  /\ \A r \in Requests, row \in Row : Completed(row, r) \in Row
  /\ \A row \in Row, a \in {"stale", "old"} : Aged(row, a) \in Row
BY DEF Absent, Aged, Claimed, Completed, Row

----------------------------------------------------------------------------
(* Type correctness                                                        *)

\* The initial state is well typed.
LEMMA TypeInit == Init => TypeOK
<1>1. << >> \in Seq(Message)
  OBVIOUS
<1>2. "idle" \in Running \cup Stopped /\ {} \in SUBSET Requests
  BY DEF Stopped
<1>3. Absent \in Row
  BY RowTypes
<1>4. NoKey \in Keys \cup {NoKey} /\ "turn" \in {"turn", "stream"} /\ FALSE \in BOOLEAN
  OBVIOUS
<1>5. Init => /\ rows \in [RowKeys -> Row]
              /\ pc \in [Requests -> Running \cup Stopped]
              /\ base \in [Requests -> Seq(Message)]
  BY <1>1, <1>2, <1>3 DEF Init
<1>6. Init => /\ keyOf \in [Requests -> Keys \cup {NoKey}]
              /\ route \in [Requests -> {"turn", "stream"}]
              /\ ended \in BOOLEAN /\ transcript \in Seq(Message) /\ committed \in SUBSET Requests
  BY <1>1, <1>2, <1>4 DEF Init
<1>. QED
  BY <1>5, <1>6 DEF TypeOK

\* A request moves on, and perhaps writes the table.
LEMMA JumpType ==
  ASSUME TypeOK, NEW r \in Requests, NEW l \in Running \cup Stopped, Jump(r, l)
  PROVE  TypeOK'
BY DEF TypeOK, Jump, Goto

LEMMA WriteType ==
  ASSUME TypeOK, NEW r \in Requests, NEW l \in Running \cup Stopped,
         NEW table \in [RowKeys -> Row], Write(r, table, l)
  PROVE  TypeOK'
BY DEF TypeOK, Write, Goto

\* Every step keeps the types.
LEMMA TypeStep == TypeOK /\ [Next]_vars => TypeOK'
<1> SUFFICES ASSUME TypeOK, [Next]_vars PROVE TypeOK'
  OBVIOUS
<1>r. /\ rows \in [RowKeys -> Row]
      /\ \A r \in Requests : keyOf[r] = NoKey \/ keyOf[r] \in Keys
      /\ \A r \in Requests, k \in RowKeys : [rows EXCEPT ![k] = Claimed(r)] \in [RowKeys -> Row]
      /\ FreeLock \in [RowKeys -> Row]
  BY RowTypes DEF TypeOK, FreeLock, RowKeys
<1>l. \A r \in Requests : AfterSaved(r) \in Running /\ AfterFailed(r) \in Running
  BY DEF AfterSaved, AfterFailed, Running
<1>1. CASE UNCHANGED vars
  BY <1>1 DEF vars, TypeOK
<1>2. ASSUME NEW r \in Requests, Arrive(r) PROVE TypeOK'
  <2>1. PICK k \in Keys \cup {NoKey}, w \in {"turn", "stream"}, l \in Running \cup Stopped :
          /\ keyOf' = [keyOf EXCEPT ![r] = k]
          /\ route' = [route EXCEPT ![r] = w]
          /\ Goto(r, l)
    BY <1>2 DEF Arrive, Running, Stopped
  <2>2. UNCHANGED <<rows, transcript, ended, base, committed>>
    BY <1>2 DEF Arrive
  <2>. QED
    BY <2>1, <2>2 DEF TypeOK, Goto
<1>3. ASSUME NEW r \in Requests, Lookup(r) PROVE TypeOK'
  BY <1>3, JumpType DEF Lookup, Running, Stopped
<1>4. ASSUME NEW r \in Requests, Claim(r) PROVE TypeOK'
  <2>1. keyOf[r] \in RowKeys => [rows EXCEPT ![keyOf[r]] = Claimed(r)] \in [RowKeys -> Row]
    BY <1>r
  <2>2. keyOf[r] \notin RowKeys => [rows EXCEPT ![keyOf[r]] = Claimed(r)] = rows
    BY <1>r
  <2>3. [rows EXCEPT ![keyOf[r]] = Claimed(r)] \in [RowKeys -> Row]
    BY <1>r, <2>1, <2>2
  <2>4. CASE Write(r, [rows EXCEPT ![keyOf[r]] = Claimed(r)], "lock")
    BY <2>3, <2>4, WriteType DEF Running
  <2>. QED
    BY <1>4, <2>4, JumpType DEF Claim, Running, Stopped
<1>5. ASSUME NEW r \in Requests, Relook(r) PROVE TypeOK'
  BY <1>5, JumpType DEF Relook, Stopped
<1>6. ASSUME NEW r \in Requests, AcquireLock(r) PROVE TypeOK'
  <2>1. CASE Write(r, [rows EXCEPT ![LockKey] = Claimed(r)], "prepare")
    BY <1>r, <2>1, WriteType DEF Running, RowKeys
  <2>. QED
    BY <1>6, <2>1, JumpType DEF AcquireLock, Running, Stopped
<1>7. ASSUME NEW r \in Requests, Prepare(r) PROVE TypeOK'
  <2>1. CASE Jump(r, "unlockDrop")
    BY <2>1, JumpType DEF Running
  <2>2. CASE ~Jump(r, "unlockDrop")
    BY <1>7, <2>2 DEF Prepare, TypeOK, Goto, Running
  <2>. QED
    BY <2>1, <2>2
<1>8. ASSUME NEW r \in Requests, Generate(r) PROVE TypeOK'
  BY <1>8, JumpType DEF Generate, Running
<1>9. ASSUME NEW r \in Requests, Persist(r) PROVE TypeOK'
  <2>1. Window(base[r] \o Exchange(r)) \in Seq(Message)
    <3>1. base[r] \o Exchange(r) \in Seq(Message)
      BY ExchangeType DEF TypeOK
    <3>. QED
      BY <3>1, WindowType
  <2>2. CASE Commit(r) /\ Goto(r, AfterSaved(r)) /\ UNCHANGED <<rows, ended, route, keyOf, base>>
    BY <1>l, <2>1, <2>2 DEF Commit, Goto, TypeOK
  <2>. QED
    BY <1>9, <1>l, <2>2, JumpType DEF Persist
<1>10. ASSUME NEW r \in Requests, Complete(r) PROVE TypeOK'
  <2>1. CacheReply(r) \in [RowKeys -> Row]
    BY <1>r, RowTypes DEF CacheReply, RowKeys
  <2>. QED
    BY <1>10, <2>1, JumpType, WriteType DEF Complete, Running, Stopped
<1>11. ASSUME NEW r \in Requests, Unlock(r) PROVE TypeOK'
  <2>1. PICK l \in Running \cup Stopped : Write(r, FreeLock, l) \/ Jump(r, l)
    BY <1>11 DEF Unlock, Running, Stopped
  <2>. QED
    BY <1>r, <2>1, JumpType, WriteType
<1>12. ASSUME NEW r \in Requests, Drop(r) PROVE TypeOK'
  <2>1. DropClaim(r) \in [RowKeys -> Row]
    BY <1>r, RowTypes DEF DropClaim, RowKeys
  <2>. QED
    BY <1>12, <2>1, JumpType, WriteType DEF Drop, Running, Stopped
<1>13. ASSUME NEW r \in Requests, Disconnect(r) PROVE TypeOK'
  BY <1>13, JumpType DEF Disconnect, Running
<1>14. ASSUME NEW r \in Requests, Crash(r) PROVE TypeOK'
  BY <1>14, JumpType DEF Crash, Stopped
<1>15. CASE EndSession
  BY <1>15 DEF EndSession, TypeOK
<1>16. ASSUME NEW k \in RowKeys, Age(k) PROVE TypeOK'
  <2>1. PICK a \in {"stale", "old"} : rows' = [rows EXCEPT ![k] = Aged(rows[k], a)]
    BY <1>16 DEF Age
  <2>2. Aged(rows[k], a) \in Row
    BY <1>r, RowTypes
  <2>3. rows' \in [RowKeys -> Row]
    BY <1>r, <2>1, <2>2
  <2>. QED
    BY <1>16, <2>3 DEF Age, TypeOK
<1>17. CASE Purge
  BY <1>17, <1>r, RowTypes DEF Purge, TypeOK
<1>. QED
  BY <1>1, <1>2, <1>3, <1>4, <1>5, <1>6, <1>7, <1>8, <1>9, <1>10, <1>11, <1>12,
     <1>13, <1>14, <1>15, <1>16, <1>17 DEF Next, Step

\* Every reachable state is well typed, whatever the number of requests.
THEOREM TypeCorrect == Spec => []TypeOK
BY TypeInit, TypeStep, PTL DEF Spec

----------------------------------------------------------------------------
(* The inductive invariant                                                 *)

\* The lock row of a request in its critical section is that request's fresh claim.
LockIsHeld == \A r \in Requests : pc[r] \in Critical => rows[LockKey] = Claimed(r)

\* So is the row of the key of a request that has not settled its claim.
KeyIsHeld ==
  \A r \in Requests : pc[r] \in Owning /\ keyOf[r] # NoKey => rows[keyOf[r]] = Claimed(r)

\* Nothing of a request is saved before it has persisted, nor on a failure path.
Unsaved == Running \ {"unlockComplete", "completeUnlock", "complete", "unlock"}
NothingSaved == \A r \in Requests : pc[r] \in Unsaved \cup {"idle"} => r \notin committed

\* The base a request will append to is the transcript as it is now.
BaseIsCurrent ==
  \A r \in Requests : pc[r] \in {"generate", "persist", "persistPartial"} => base[r] = transcript

Inv == TypeOK /\ LockIsHeld /\ KeyIsHeld /\ NothingSaved /\ BaseIsCurrent

\* A fresh claim names its claimant and cannot be taken by another request.
LEMMA ClaimedFacts ==
  ASSUME NEW r \in Requests
  PROVE  /\ Claimed(r).by = r
         /\ Claimed(r).st = "pending" /\ Claimed(r).age = "fresh"
         /\ ~Claimable(Claimed(r))
BY DEF Claimed, Claimable

\* The invariant makes the critical sections and the claims exclusive.
LEMMA Exclusive ==
  ASSUME Inv, NEW r \in Requests, NEW q \in Requests, r # q
  PROVE  /\ pc[r] \in Critical => pc[q] \notin Critical
         /\ pc[r] \in Owning /\ pc[q] \in Owning /\ keyOf[r] # NoKey => keyOf[r] # keyOf[q]
BY ClaimedFacts DEF Inv, LockIsHeld, KeyIsHeld

\* A step of r that writes nothing keeps the invariant when it does not enter a
\* section it was not in.
LEMMA JumpKeepsInv ==
  ASSUME Inv, TypeOK', NEW r \in Requests, NEW l, Jump(r, l),
         l \in Critical => pc[r] \in Critical,
         l \in Owning => pc[r] \in Owning,
         l \in Unsaved \cup {"idle"} => pc[r] \in Unsaved \cup {"idle"},
         l \notin {"generate"},
         l \in {"persist", "persistPartial"} => pc[r] = "generate"
  PROVE  Inv'
<1> USE DEF Jump, Goto, Inv
<1>1. \A q \in Requests : pc'[q] = IF q = r THEN l ELSE pc[q]
  BY DEF TypeOK
<1>2. LockIsHeld'
  BY <1>1 DEF LockIsHeld
<1>3. KeyIsHeld'
  BY <1>1 DEF KeyIsHeld
<1>4. NothingSaved'
  BY <1>1 DEF NothingSaved
<1>5. BaseIsCurrent'
  BY <1>1 DEF BaseIsCurrent
<1>. QED
  BY <1>2, <1>3, <1>4, <1>5

\* A step of r that removes or completes its own lock or key row, and leaves the
\* section that row stands for, keeps the invariant.
LEMMA SettleKeepsInv ==
  ASSUME Inv, TypeOK', NEW r \in Requests, NEW l, NEW table, Write(r, table, l),
         pc[r] \in Critical \/ table[LockKey] = rows[LockKey],
         pc[r] \in Owning \/ (\A k \in Keys : table[k] = rows[k]),
         \A k \in Keys : k # keyOf[r] => table[k] = rows[k],
         l \in Critical => pc[r] \in Critical /\ table[LockKey] = rows[LockKey],
         l \in Owning => pc[r] \in Owning /\ (\A k \in Keys : table[k] = rows[k]),
         l \in Unsaved \cup {"idle"} => pc[r] \in Unsaved \cup {"idle"},
         l \notin {"generate", "persist", "persistPartial"}
  PROVE  Inv'
<1> USE DEF Write, Goto, Inv
<1>1. \A q \in Requests : pc'[q] = IF q = r THEN l ELSE pc[q]
  BY DEF TypeOK
<1>2. LockIsHeld'
  BY <1>1, Exclusive DEF LockIsHeld
<1>3. KeyIsHeld'
  <2> SUFFICES ASSUME NEW q \in Requests, pc'[q] \in Owning, keyOf[q] # NoKey
               PROVE  table[keyOf[q]] = Claimed(q)
    BY DEF KeyIsHeld
  <2>0. keyOf[q] \in Keys
    BY DEF TypeOK
  <2>1. CASE q = r
    BY <1>1, <2>0, <2>1 DEF KeyIsHeld
  <2>2. CASE q # r /\ pc[r] \in Owning
    <3>1. pc[q] \in Owning /\ keyOf[q] # keyOf[r]
      BY <1>1, <2>2, Exclusive
    <3>. QED
      BY <2>0, <3>1 DEF KeyIsHeld
  <2>3. CASE q # r /\ pc[r] \notin Owning
    BY <1>1, <2>0, <2>3 DEF KeyIsHeld
  <2>. QED
    BY <2>1, <2>2, <2>3
<1>4. NothingSaved'
  BY <1>1 DEF NothingSaved
<1>5. BaseIsCurrent'
  BY <1>1 DEF BaseIsCurrent
<1>. QED
  BY <1>2, <1>3, <1>4, <1>5

\* The steps of a handler keep the invariant.
LEMMA HandlerKeepsInv ==
  ASSUME Inv, TypeOK', NEW r \in Requests, Step(r)
  PROVE  Inv'
<1> USE DEF Critical, Owning, Unsaved, Running
<1>0. /\ TypeOK
      /\ LockKey \in RowKeys
      /\ keyOf[r] # NoKey => keyOf[r] \in Keys /\ keyOf[r] \in RowKeys /\ keyOf[r] # LockKey
      /\ \A q \in Requests : keyOf[q] # LockKey
  BY KeyAssumption DEF Inv, TypeOK, RowKeys
<1>1. CASE Lookup(r)
  BY <1>1, JumpKeepsInv DEF Lookup
<1>2. CASE Claim(r)
  <2>1. CASE \E l \in {"relook", "end"} : Jump(r, l)
    BY <1>2, <2>1, JumpKeepsInv DEF Claim
  <2>2. CASE Claimable(rows[keyOf[r]]) /\ Write(r, [rows EXCEPT ![keyOf[r]] = Claimed(r)], "lock")
    <3>1. \A q \in Requests : pc'[q] = IF q = r THEN "lock" ELSE pc[q]
      BY <1>0, <2>2 DEF Write, Goto, TypeOK
    <3>2. LockIsHeld'
      <4>1. rows'[LockKey] = rows[LockKey]
        BY <1>0, <2>2 DEF Write, TypeOK
      <4>. QED
        BY <3>1, <4>1 DEF LockIsHeld, Inv
    <3>3. KeyIsHeld'
      <4> SUFFICES ASSUME NEW q \in Requests, pc'[q] \in Owning, keyOf[q] # NoKey
                   PROVE  rows'[keyOf[q]] = Claimed(q)
        BY <2>2 DEF KeyIsHeld, Write
      <4>1. keyOf[q] \in RowKeys
        BY <1>0 DEF TypeOK, RowKeys
      <4>2. CASE q = r
        BY <2>2, <4>1, <4>2, <1>0 DEF Write, TypeOK
      <4>3. CASE q # r
        <5>1. rows[keyOf[q]] = Claimed(q)
          BY <3>1, <4>3 DEF KeyIsHeld, Inv
        <5>2. keyOf[q] # keyOf[r]
          BY <2>2, <5>1, ClaimedFacts
        <5>. QED
          BY <2>2, <4>1, <5>1, <5>2, <1>0 DEF Write, TypeOK
      <4>. QED
        BY <4>2, <4>3
    <3>4. NothingSaved' /\ BaseIsCurrent'
      BY <1>2, <2>2, <3>1 DEF Claim, Write, NothingSaved, BaseIsCurrent, Inv
    <3>. QED
      BY <3>2, <3>3, <3>4 DEF Inv
  <2>. QED
    BY <1>2, <2>1, <2>2 DEF Claim
<1>3. CASE Relook(r)
  BY <1>3, JumpKeepsInv DEF Relook
<1>4. CASE AcquireLock(r)
  <2>1. CASE \E l \in {"drop", "end"} : Jump(r, l)
    BY <1>4, <2>1, JumpKeepsInv DEF AcquireLock
  <2>2. CASE Claimable(rows[LockKey]) /\ Write(r, [rows EXCEPT ![LockKey] = Claimed(r)], "prepare")
    <3>1. \A q \in Requests : pc'[q] = IF q = r THEN "prepare" ELSE pc[q]
      BY <1>0, <2>2 DEF Write, Goto, TypeOK
    <3>2. LockIsHeld'
      <4>1. rows'[LockKey] = Claimed(r)
        BY <1>0, <2>2 DEF Write, TypeOK
      <4>2. \A q \in Requests : pc[q] \notin Critical
        BY <2>2, ClaimedFacts DEF Inv, LockIsHeld
      <4>. QED
        BY <3>1, <4>1, <4>2 DEF LockIsHeld
    <3>3. KeyIsHeld'
      <4>1. \A k \in Keys : rows'[k] = rows[k]
        BY <1>0, <2>2, KeyAssumption DEF Write, TypeOK, RowKeys
      <4>2. \A q \in Requests : keyOf[q] # NoKey => keyOf[q] \in Keys
        BY <1>0 DEF TypeOK
      <4>. QED
        BY <1>4, <2>2, <3>1, <4>1, <4>2 DEF KeyIsHeld, Inv, Write, AcquireLock
    <3>4. NothingSaved' /\ BaseIsCurrent'
      BY <1>4, <2>2, <3>1 DEF AcquireLock, Write, NothingSaved, BaseIsCurrent, Inv
    <3>. QED
      BY <3>2, <3>3, <3>4 DEF Inv
  <2>. QED
    BY <1>4, <2>1, <2>2 DEF AcquireLock
<1>5. CASE Prepare(r)
  <2>1. CASE Jump(r, "unlockDrop")
    BY <1>5, <2>1, JumpKeepsInv DEF Prepare
  <2>2. CASE ~Jump(r, "unlockDrop")
    <3>1. /\ \A q \in Requests : pc'[q] = IF q = r THEN "generate" ELSE pc[q]
          /\ \A q \in Requests : base'[q] = IF q = r THEN transcript ELSE base[q]
          /\ UNCHANGED <<rows, transcript, keyOf, committed>>
      BY <1>0, <1>5, <2>2 DEF Prepare, Goto, TypeOK
    <3>. QED
      BY <1>5, <3>1 DEF Prepare, Inv, LockIsHeld, KeyIsHeld, NothingSaved, BaseIsCurrent
  <2>. QED
    BY <2>1, <2>2
<1>6. CASE Generate(r)
  BY <1>6, JumpKeepsInv DEF Generate
<1>7. CASE Persist(r)
  <2>1. CASE \E l \in {AfterSaved(r), AfterFailed(r)} : Jump(r, l)
    BY <1>7, <2>1, JumpKeepsInv DEF Persist, AfterSaved, AfterFailed
  <2>2. CASE Commit(r) /\ Goto(r, AfterSaved(r)) /\ UNCHANGED <<rows, ended, route, keyOf, base>>
    <3>1. \A q \in Requests : pc'[q] = IF q = r THEN AfterSaved(r) ELSE pc[q]
      BY <1>0, <2>2 DEF Goto, TypeOK
    <3>2. AfterSaved(r) \in {"completeUnlock", "unlockComplete"}
      BY DEF AfterSaved
    <3>3. LockIsHeld' /\ KeyIsHeld'
      BY <1>7, <2>2, <3>1, <3>2 DEF Persist, Inv, LockIsHeld, KeyIsHeld
    <3>4. NothingSaved'
      BY <2>2, <3>1, <3>2 DEF Commit, Inv, NothingSaved
    <3>5. BaseIsCurrent'
      <4>1. \A q \in Requests : q # r => pc[q] \notin Critical
        BY <1>7, Exclusive DEF Persist
      <4>. QED
        BY <3>1, <3>2, <4>1 DEF BaseIsCurrent
    <3>. QED
      BY <3>3, <3>4, <3>5 DEF Inv
  <2>. QED
    BY <1>7, <2>1, <2>2 DEF Persist
<1>8. CASE Complete(r)
  <2>1. CASE \E l \in {"unlock", "end"} : Jump(r, l) /\ (l = "unlock" => pc[r] = "completeUnlock")
    BY <1>8, <2>1, JumpKeepsInv DEF Complete
  <2>2. CASE \E l \in {"unlock", "end"} :
               Write(r, CacheReply(r), l) /\ (l = "unlock" => pc[r] = "completeUnlock")
    <3>1. /\ CacheReply(r)[LockKey] = rows[LockKey]
          /\ \A k \in Keys : k # keyOf[r] => CacheReply(r)[k] = rows[k]
      BY <1>0, KeyAssumption DEF CacheReply, TypeOK, RowKeys
    <3>. QED
      BY <1>8, <2>2, <3>1, SettleKeepsInv DEF Complete
  <2>. QED
    BY <1>8, <2>1, <2>2 DEF Complete
<1>9. CASE Unlock(r)
  <2>0. PICK l \in {"end", "complete", "drop"} :
          /\ l = "complete" => pc[r] = "unlockComplete"
          /\ l = "drop" => pc[r] = "unlockDrop"
          /\ Write(r, FreeLock, l) \/ Jump(r, l)
    BY <1>9 DEF Unlock
  <2>1. CASE Jump(r, l)
    BY <1>9, <2>0, <2>1, JumpKeepsInv DEF Unlock
  <2>2. CASE Write(r, FreeLock, l)
    <3>1. \A k \in Keys : FreeLock[k] = rows[k]
      BY <1>0, KeyAssumption DEF FreeLock, TypeOK, RowKeys
    <3>. QED
      BY <1>9, <2>0, <2>2, <3>1, SettleKeepsInv DEF Unlock
  <2>. QED
    BY <2>0, <2>1, <2>2
<1>10. CASE Drop(r)
  <2>1. CASE \E l \in {"unlock", "end"} : Jump(r, l) /\ (l = "unlock" => pc[r] = "dropUnlock")
    BY <1>10, <2>1, JumpKeepsInv DEF Drop
  <2>2. CASE \E l \in {"unlock", "end"} :
               Write(r, DropClaim(r), l) /\ (l = "unlock" => pc[r] = "dropUnlock")
    <3>1. /\ DropClaim(r)[LockKey] = rows[LockKey]
          /\ \A k \in Keys : k # keyOf[r] => DropClaim(r)[k] = rows[k]
      BY <1>0, KeyAssumption DEF DropClaim, TypeOK, RowKeys
    <3>. QED
      BY <1>10, <2>2, <3>1, SettleKeepsInv DEF Drop
  <2>. QED
    BY <1>10, <2>1, <2>2 DEF Drop
<1>. QED
  BY <1>1, <1>2, <1>3, <1>4, <1>5, <1>6, <1>7, <1>8, <1>9, <1>10 DEF Step

\* Every step keeps the invariant when no turn outlives its claim.
LEMMA InvStep ==
  ASSUME ~Overrun
  PROVE  Inv /\ [Next]_vars => Inv'
<1> SUFFICES ASSUME Inv, [Next]_vars PROVE Inv'
  OBVIOUS
<1>0. TypeOK /\ TypeOK'
  BY TypeStep DEF Inv
<1>1. CASE UNCHANGED vars
  BY <1>1, <1>0 DEF vars, Inv, LockIsHeld, KeyIsHeld, NothingSaved, BaseIsCurrent
<1>2. ASSUME NEW r \in Requests, Arrive(r) PROVE Inv'
  <2>1. PICK l \in {"lock", "lookup", "end"} :
          /\ \A q \in Requests : pc'[q] = IF q = r THEN l ELSE pc[q]
          /\ \A q \in Requests : q # r => keyOf'[q] = keyOf[q]
          /\ l = "lock" => keyOf'[r] = NoKey
    BY <1>0, <1>2 DEF Arrive, Goto, TypeOK
  <2>2. LockIsHeld'
    BY <1>2, <2>1 DEF Arrive, LockIsHeld, Inv, Critical
  <2>3. KeyIsHeld'
    BY <1>2, <2>1 DEF Arrive, KeyIsHeld, Inv, Owning
  <2>4. NothingSaved' /\ BaseIsCurrent'
    BY <1>2, <2>1 DEF Arrive, NothingSaved, BaseIsCurrent, Inv
  <2>. QED
    BY <1>0, <2>2, <2>3, <2>4 DEF Inv
<1>3. ASSUME NEW r \in Requests, Step(r) PROVE Inv'
  BY <1>0, <1>3, HandlerKeepsInv
<1>4. ASSUME NEW r \in Requests, Disconnect(r) PROVE Inv'
  BY <1>0, <1>4, JumpKeepsInv DEF Disconnect, Critical, Owning, Unsaved
<1>5. ASSUME NEW r \in Requests, Crash(r) PROVE Inv'
  BY <1>0, <1>5, JumpKeepsInv DEF Crash, Critical, Owning, Unsaved, Running
<1>6. CASE EndSession
  BY <1>0, <1>6 DEF EndSession, Inv, LockIsHeld, KeyIsHeld, NothingSaved, BaseIsCurrent
<1>7. ASSUME NEW k \in RowKeys, Age(k) PROVE Inv'
  <2>1. ASSUME NEW r \in Requests, rows[k] = Claimed(r), pc[r] \in Running PROVE FALSE
    BY <1>7, <2>1, ClaimedFacts DEF Age
  <2>2. \A j \in RowKeys : j # k => rows'[j] = rows[j]
    BY <1>0, <1>7 DEF Age, TypeOK
  <2>3. UNCHANGED <<transcript, pc, keyOf, base, committed>>
    BY <1>7 DEF Age
  <2>4. Critical \subseteq Running /\ Owning \subseteq Running
    BY DEF Critical, Owning, Running
  <2>5. LockIsHeld'
    BY <2>1, <2>2, <2>3, <2>4 DEF LockIsHeld, Inv, RowKeys
  <2>6. KeyIsHeld'
    <3>1. \A r \in Requests : keyOf[r] # NoKey => keyOf[r] \in RowKeys
      BY <1>0 DEF TypeOK, RowKeys
    <3>. QED
      BY <2>1, <2>2, <2>3, <2>4, <3>1 DEF KeyIsHeld, Inv
  <2>. QED
    BY <1>0, <2>3, <2>5, <2>6 DEF NothingSaved, BaseIsCurrent, Inv
<1>8. CASE Purge
  <2>1. \A k \in RowKeys : rows[k].age # "old" => rows'[k] = rows[k]
    BY <1>8 DEF Purge
  <2>2. \A r \in Requests, k \in RowKeys : rows[k] = Claimed(r) => rows'[k] = Claimed(r)
    BY <2>1, ClaimedFacts
  <2>3. \A r \in Requests : keyOf[r] # NoKey => keyOf[r] \in RowKeys
    BY <1>0 DEF TypeOK, RowKeys
  <2>. QED
    BY <1>0, <1>8, <2>2, <2>3
      DEF Purge, Inv, LockIsHeld, KeyIsHeld, NothingSaved, BaseIsCurrent, RowKeys
<1>. QED
  BY <1>1, <1>2, <1>3, <1>4, <1>5, <1>6, <1>7, <1>8 DEF Next

\* The invariant holds in every reachable state.
LEMMA InvAlways ==
  ASSUME ~Overrun
  PROVE  Spec => []Inv
<1>1. Init => Inv
  BY TypeInit DEF Init, Inv, LockIsHeld, KeyIsHeld, NothingSaved, BaseIsCurrent, Critical, Owning
<1>. QED
  BY <1>1, InvStep, PTL DEF Spec

\* As long as no turn outlives its claim, the turn lock serialises the turns of
\* a session, for any number of requests, crashes, disconnects and failed writes.
THEOREM Serialisation == ~Overrun => (Spec => []TurnsSerialised)
<1> SUFFICES ASSUME ~Overrun PROVE Spec => []TurnsSerialised
  OBVIOUS
<1>1. Inv => TurnsSerialised
  BY Exclusive DEF TurnsSerialised
<1>. QED
  BY <1>1, InvAlways, PTL

\* Under the same assumption an Idempotency-Key has one running owner.
THEOREM OneOwner == ~Overrun => (Spec => []ClaimHasOneOwner)
<1> SUFFICES ASSUME ~Overrun PROVE Spec => []ClaimHasOneOwner
  OBVIOUS
<1>1. Inv => ClaimHasOneOwner
  BY Exclusive DEF ClaimHasOneOwner
<1>. QED
  BY <1>1, InvAlways, PTL

\* A saved turn never returns to a point where nothing of it is saved: no
\* assumption on time is needed.
LEMMA SavedStep ==
  ASSUME TypeOK, NothingSaved, [Next]_vars
  PROVE  NothingSaved'
<1> DEFINE Early == Unsaved \cup {"idle"}
<1>0. ASSUME NEW r \in Requests, NEW l, Goto(r, l), l \in Early => pc[r] \in Early,
             committed' = committed
      PROVE  NothingSaved'
  <2>1. \A q \in Requests : pc'[q] = IF q = r THEN l ELSE pc[q]
    BY <1>0 DEF TypeOK, Goto
  <2>. QED
    BY <1>0, <2>1 DEF NothingSaved
<1> USE DEF Unsaved, Running, Jump, Write
<1>1. CASE UNCHANGED vars
  BY <1>1 DEF vars, NothingSaved
<1>2. ASSUME NEW r \in Requests, Arrive(r) PROVE NothingSaved'
  BY <1>0, <1>2 DEF Arrive
<1>3. ASSUME NEW r \in Requests, Step(r) PROVE NothingSaved'
  <2>1. CASE Lookup(r) \/ Claim(r) \/ Relook(r) \/ AcquireLock(r)
    BY <1>0, <2>1 DEF Lookup, Claim, Relook, AcquireLock
  <2>2. CASE Prepare(r) \/ Generate(r)
    BY <1>0, <2>2 DEF Prepare, Generate
  <2>3. CASE Persist(r)
    <3>1. CASE committed' = committed
      BY <1>0, <2>3, <3>1 DEF Persist, AfterSaved, AfterFailed
    <3>2. CASE committed' # committed
      <4>1. Goto(r, AfterSaved(r)) /\ committed' = committed \cup {r}
        BY <2>3, <3>2 DEF Persist, Commit
      <4>2. \A q \in Requests : pc'[q] = IF q = r THEN AfterSaved(r) ELSE pc[q]
        BY <4>1 DEF TypeOK, Goto
      <4>. QED
        BY <4>1, <4>2 DEF NothingSaved, AfterSaved
    <3>. QED
      BY <3>1, <3>2
  <2>4. CASE Complete(r) \/ Unlock(r) \/ Drop(r)
    BY <1>0, <2>4 DEF Complete, Unlock, Drop
  <2>. QED
    BY <1>3, <2>1, <2>2, <2>3, <2>4 DEF Step
<1>4. ASSUME NEW r \in Requests, Disconnect(r) \/ Crash(r) PROVE NothingSaved'
  BY <1>0, <1>4 DEF Disconnect, Crash
<1>5. CASE EndSession \/ Purge \/ \E k \in RowKeys : Age(k)
  BY <1>5 DEF EndSession, Purge, Age, NothingSaved
<1>. QED
  BY <1>1, <1>2, <1>3, <1>4, <1>5 DEF Next

\* Only claims without effect are released, even when turns outlive their claims.
THEOREM ReleaseIsSafe == Spec => []FreedClaimsHadNoEffect
<1>1. Init => NothingSaved
  BY DEF Init, NothingSaved
<1>2. NothingSaved => FreedClaimsHadNoEffect
  BY DEF NothingSaved, FreedClaimsHadNoEffect, Unsaved, Running
<1>. QED
  BY <1>1, <1>2, TypeCorrect, SavedStep, PTL DEF Spec

----------------------------------------------------------------------------
(* Refinement                                                              *)

\* The pipeline implements the append-only log with remembered answers: the
\* initial states map to initial states and every step to a step or a stutter.
THEOREM Refinement == ~Overrun => (Spec => ImplementsTurnLog)
<1> SUFFICES ASSUME ~Overrun PROVE Spec => Log!Spec
  BY DEF ImplementsTurnLog
<1> DEFINE ans == [k \in Keys |-> IF rows[k].st = "done" THEN rows[k].reply ELSE None]
<1>1. Init => Log!Init
  <2> SUFFICES ASSUME Init PROVE Log!Init
    OBVIOUS
  <2>1. \A k \in Keys : rows[k].st = "absent"
    BY DEF Init, Absent, RowKeys
  <2>. QED
    BY <2>1 DEF Init, Log!Init
<1>2. Inv /\ Inv' /\ [Next]_vars => [Log!Next]_(Log!vars)
  <2> SUFFICES ASSUME Inv, Inv', [Next]_vars PROVE [Log!Next]_(Log!vars)
    OBVIOUS
  <2>0. TypeOK
    BY DEF Inv
  <2>1. ASSUME UNCHANGED <<transcript, committed, keyOf>>, ans' = ans
        PROVE  UNCHANGED Log!vars
    BY <2>1 DEF Log!vars
  <2>2. ASSUME rows' = rows PROVE ans' = ans
    BY <2>2
  <2>3. CASE UNCHANGED vars
    BY <2>1, <2>2, <2>3 DEF vars
  <2>4. ASSUME NEW r \in Requests, Arrive(r) PROVE Log!Next
    <3>1. ans' = ans
      BY <2>2, <2>4 DEF Arrive
    <3>2. r \notin committed
      BY <2>4 DEF Arrive, Inv, NothingSaved
    <3>3. Log!Arrive(r)
      BY <2>4, <3>1, <3>2 DEF Arrive, Log!Arrive
    <3>. QED
      BY <3>3 DEF Log!Next
  <2>5. ASSUME NEW r \in Requests, NEW l, Jump(r, l) PROVE UNCHANGED Log!vars
    BY <2>1, <2>2, <2>5 DEF Jump
  <2>6. ASSUME NEW r \in Requests, NEW l, NEW table, Write(r, table, l),
               \A k \in Keys : (table[k].st # "done" /\ rows[k].st # "done") \/ table[k] = rows[k]
        PROVE  UNCHANGED Log!vars
    <3>1. ans' = ans
      BY <2>6 DEF Write
    <3>. QED
      BY <2>1, <2>6, <3>1 DEF Write
  <2>7. ASSUME NEW r \in Requests, Step(r) PROVE [Log!Next]_(Log!vars)
    <3>0. keyOf[r] # NoKey => keyOf[r] \in Keys /\ keyOf[r] \in RowKeys
      BY <2>0 DEF TypeOK, RowKeys
    <3>1. CASE Lookup(r) \/ Relook(r) \/ Generate(r)
      BY <2>5, <3>1 DEF Lookup, Relook, Generate
    <3>2. CASE Claim(r)
      <4>1. CASE \E l \in {"relook", "end"} : Jump(r, l)
        BY <2>5, <4>1
      <4>2. CASE Claimable(rows[keyOf[r]]) /\ Write(r, [rows EXCEPT ![keyOf[r]] = Claimed(r)], "lock")
        <5>1. \A k \in Keys : k = keyOf[r] \/ [rows EXCEPT ![keyOf[r]] = Claimed(r)][k] = rows[k]
          BY <2>0 DEF TypeOK, RowKeys
        <5>2. \A k \in Keys : k = keyOf[r] =>
                [rows EXCEPT ![keyOf[r]] = Claimed(r)][k].st # "done" /\ rows[k].st # "done"
          BY <2>0, <4>2, ClaimedFacts DEF TypeOK, RowKeys, Claimable
        <5>. QED
          BY <2>6, <4>2, <5>1, <5>2
      <4>. QED
        BY <3>2, <4>1, <4>2 DEF Claim
    <3>3. CASE AcquireLock(r)
      <4>1. CASE \E l \in {"drop", "end"} : Jump(r, l)
        BY <2>5, <4>1
      <4>2. CASE Write(r, [rows EXCEPT ![LockKey] = Claimed(r)], "prepare")
        <5>1. \A k \in Keys : [rows EXCEPT ![LockKey] = Claimed(r)][k] = rows[k]
          BY <2>0, KeyAssumption DEF TypeOK, RowKeys
        <5>. QED
          BY <2>6, <4>2, <5>1
      <4>. QED
        BY <3>3, <4>1, <4>2 DEF AcquireLock
    <3>4. CASE Prepare(r)
      BY <2>1, <2>2, <2>5, <3>4 DEF Prepare
    <3>5. CASE Persist(r)
      <4>1. CASE \E l \in {AfterSaved(r), AfterFailed(r)} : Jump(r, l)
        BY <2>5, <4>1
      <4>2. CASE Commit(r) /\ UNCHANGED <<rows, ended, route, keyOf, base>>
        <5>1. base[r] = transcript /\ r \notin committed
          BY <3>5 DEF Persist, Inv, BaseIsCurrent, NothingSaved, Unsaved, Running
        <5>2. keyOf[r] \in Keys => rows[keyOf[r]] = Claimed(r)
          BY <3>5, KeyAssumption DEF Persist, Inv, KeyIsHeld, Owning
        <5>3. keyOf[r] \in Keys => ans[keyOf[r]] = None
          BY <5>2, ClaimedFacts
        <5>4. ans' = ans
          BY <2>2, <4>2
        <5>5. transcript' = Log!Window(transcript \o Log!Exchange(r))
          BY <4>2, <5>1 DEF Commit, Window, Exchange, Log!Window, Log!Exchange
        <5>6. Log!Append1(r)
          BY <4>2, <5>1, <5>3, <5>4, <5>5 DEF Commit, Log!Append1
        <5>. QED
          BY <5>6 DEF Log!Next
      <4>. QED
        BY <3>5, <4>1, <4>2 DEF Persist
    <3>6. CASE Complete(r)
      <4>1. CASE \E l \in {"unlock", "end"} : Jump(r, l)
        BY <2>5, <4>1
      <4>2. CASE \E l \in {"unlock", "end"} : Write(r, CacheReply(r), l)
        <5>1. CASE keyOf[r] = NoKey
          BY <2>6, <4>2, <5>1 DEF CacheReply
        <5>2. CASE keyOf[r] # NoKey
          <6>1. rows[keyOf[r]] = Claimed(r)
            BY <3>6, <5>2 DEF Complete, Inv, KeyIsHeld, Owning
          <6>2. rows' = [rows EXCEPT ![keyOf[r]] = Completed(Claimed(r), r)]
            BY <4>2, <5>2, <6>1 DEF Write, CacheReply
          <6>3. Completed(Claimed(r), r).st = "done" /\ Completed(Claimed(r), r).reply = r
            BY DEF Completed, Claimed
          <6>4. ans' = [ans EXCEPT ![keyOf[r]] = r]
            <7>1. \A k \in Keys : rows'[k] = IF k = keyOf[r] THEN Completed(Claimed(r), r) ELSE rows[k]
              BY <2>0, <3>0, <5>2, <6>2 DEF TypeOK, RowKeys
            <7>2. \A k \in Keys : ans'[k] = IF k = keyOf[r] THEN r ELSE ans[k]
              BY <6>3, <7>1
            <7>. QED
              BY <3>0, <5>2, <7>2
          <6>5. ans[keyOf[r]] = None
            BY <3>0, <5>2, <6>1, ClaimedFacts
          <6>6. Log!Remember(r)
            BY <3>0, <4>2, <5>2, <6>4, <6>5 DEF Write, Log!Remember
          <6>. QED
            BY <6>6 DEF Log!Next
        <5>. QED
          BY <5>1, <5>2
      <4>. QED
        BY <3>6, <4>1, <4>2 DEF Complete
    <3>7. CASE Unlock(r)
      <4>1. \A k \in Keys : FreeLock[k] = rows[k]
        BY <2>0, KeyAssumption DEF FreeLock, TypeOK, RowKeys
      <4>. QED
        BY <2>5, <2>6, <3>7, <4>1 DEF Unlock
    <3>8. CASE Drop(r)
      <4>1. CASE keyOf[r] = NoKey
        BY <2>5, <2>6, <3>8, <4>1 DEF Drop, DropClaim
      <4>2. CASE keyOf[r] # NoKey
        <5>1. rows[keyOf[r]] = Claimed(r)
          BY <3>8, <4>2 DEF Drop, Inv, KeyIsHeld, Owning
        <5>2. \A k \in Keys : k = keyOf[r] \/ DropClaim(r)[k] = rows[k]
          BY <2>0 DEF TypeOK, RowKeys, DropClaim
        <5>3. DropClaim(r)[keyOf[r]].st # "done" /\ rows[keyOf[r]].st # "done"
          BY <2>0, <3>0, <4>2, <5>1, ClaimedFacts DEF TypeOK, DropClaim, Absent
        <5>. QED
          BY <2>5, <2>6, <3>8, <5>2, <5>3 DEF Drop
      <4>. QED
        BY <4>1, <4>2
    <3>. QED
      BY <2>7, <3>1, <3>2, <3>3, <3>4, <3>5, <3>6, <3>7, <3>8 DEF Step
  <2>8. ASSUME NEW r \in Requests, Disconnect(r) \/ Crash(r) PROVE UNCHANGED Log!vars
    BY <2>5, <2>8 DEF Disconnect, Crash
  <2>9. CASE EndSession
    BY <2>1, <2>2, <2>9 DEF EndSession
  <2>10. ASSUME NEW k \in RowKeys, Age(k) PROVE UNCHANGED Log!vars
    <3>1. PICK a \in {"stale", "old"} : rows' = [rows EXCEPT ![k] = Aged(rows[k], a)]
      BY <2>10 DEF Age
    <3>2. rows[k] \in Row
      BY <2>0 DEF TypeOK
    <3>3. Aged(rows[k], a).st = rows[k].st /\ Aged(rows[k], a).reply = rows[k].reply
      BY <3>2 DEF Aged, Row
    <3>4. \A j \in Keys : rows'[j].st = rows[j].st /\ rows'[j].reply = rows[j].reply
      BY <2>0, <3>1, <3>3 DEF TypeOK, RowKeys
    <3>5. ans' = ans
      BY <3>4
    <3>. QED
      BY <2>1, <2>10, <3>5 DEF Age
  <2>11. CASE Purge
    <3> DEFINE K == {k \in Keys : rows[k].age = "old"}
    <3>1. ans' = [k \in Keys |-> IF k \in K THEN None ELSE ans[k]]
      BY <2>11 DEF Purge, RowKeys, Absent
    <3>2. Log!Forget
      BY <2>11, <3>1 DEF Purge, Log!Forget
    <3>. QED
      BY <3>2 DEF Log!Next
  <2>. QED
    BY <2>3, <2>4, <2>7, <2>8, <2>9, <2>10, <2>11 DEF Next
<1>. QED
  BY <1>1, <1>2, InvAlways, PTL DEF Spec, Log!Spec

----------------------------------------------------------------------------
(* The reply: its inductive invariant                                      *)

Sentence == Nat \X Nat \X Nat

ReplyTypeOK ==
    /\ answerer \in 0..Chain /\ answer \in Seq(TokenKinds)
    /\ heard \in 0..Len(answer) /\ cut \in 0..heard
    /\ ready \in Seq(Sentence) /\ parts \in Seq(Sentence)
    /\ elapsed \in 0..Deadline /\ limit \in {0, Deadline}
    /\ turnStep \in {"try", "stream", "audio", "lastAudio", "persist", "correct", "partial", "finally", "ended"}
    /\ clips \in Seq(Nat) /\ pending \in Nat
    /\ voices \in Seq({"running", "none", "spoken", "silent", "cancelled"})
    /\ correction \in {"none", "running", "done", "cancelled"}
    /\ saved \in {NotSaved} \cup Seq(Sentence)
    /\ cause \in {"none", "all failed", "provider failed", "done", "left"}

\* Where stream_prepared is says what has been sent and saved.
StageInv ==
    /\ turnStep = "try" => parts = <<>>
    /\ turnStep \notin {"stream", "audio", "finally", "ended"} => ready = <<>>
    /\ turnStep \notin {"correct", "finally", "ended"} => saved = NotSaved
    /\ saved # NotSaved => saved = parts
    /\ cause # "none" => turnStep \in {"finally", "ended"}
    /\ cause = "all failed" => parts = <<>> /\ (answerer = Chain \/ elapsed >= Deadline)

\* The sentences sent, and then those about to be.
Yielded == parts \o ready

\* Each is of the provider that answers and begins where the one before it ended.
Joined(q) == \A i \in 1..Len(q) : q[i][1] = answerer /\ q[i][2] = IF i = 1 THEN 0 ELSE q[i - 1][3]

\* The ends of sentences in the whole text.
TextEnds == {i \in 1..Len(answer) : SentenceEnd(answer, i, Len(answer))}

\* The sentences q end at the sentence ends of the text up to position c, where the last of them does.
CutUpTo(q, c) ==
    /\ \A i, j \in 1..Len(q) : i < j => q[i][3] < q[j][3]
    /\ \A i \in 1..Len(q) : q[i][3] \in TextEnds /\ q[i][3] <= c
    /\ \A e \in TextEnds : e <= c => \E i \in 1..Len(q) : q[i][3] = e
    /\ c = IF q = <<>> THEN 0 ELSE q[Len(q)][3]

\* While a provider is read no sentence end is left in the buffer but at its very end.
Reading == /\ turnStep \notin {"lastAudio", "persist", "correct"} /\ cause # "done"
           /\ CutUpTo(Yielded, cut)
           /\ \A e \in TextEnds : e <= cut \/ e >= heard

\* When it has been read to its end, the text is yielded as a whole.
Read == /\ turnStep = "stream" => ready # <<>>
        /\ turnStep \notin {"try", "partial"}
        /\ cause = "done" => ready = <<>>
        /\ heard = Len(answer) /\ cut = Len(answer) /\ Yielded = WholeAnswer

CuttingInv == Joined(Yielded) /\ (Reading \/ Read)

\* The clips sent are those of the sentences spoken, but for the one in hand.
VoicesInv ==
    /\ turnStep = "audio" => Len(parts) = Len(voices) + 1
    /\ turnStep \notin {"audio", "finally", "ended"} => Len(parts) = Len(voices)
    /\ pending \in {0, Len(voices)}
    /\ turnStep \in {"persist", "correct"} \/ cause = "done" => pending = 0
    /\ \A i \in 1..Len(voices) : voices[i] = "running" => i = pending
    /\ \A j, k \in 1..Len(clips) : j < k => clips[j] < clips[k]
    /\ \A k \in 1..Len(clips) : clips[k] \in 1..Len(voices) /\ clips[k] # pending /\ voices[clips[k]] = "spoken"
    /\ \A i \in 1..Len(voices) : voices[i] = "spoken" /\ i # pending => \E k \in 1..Len(clips) : clips[k] = i
    /\ turnStep = "ended" => correction # "running" /\ \A i \in 1..Len(voices) : voices[i] # "running"

ReplyInv == ReplyTypeOK /\ StageInv /\ CuttingInv /\ VoicesInv

----------------------------------------------------------------------------
(* Sets of numbers in ascending order                                      *)

\* How many of S are up to i.
Rank(S, i) == Cardinality({j \in S : j <= i})

\* Ranks number S from one on, in its order.
LEMMA RankFacts ==
    ASSUME NEW S \in SUBSET Nat, IsFiniteSet(S)
    PROVE  /\ Cardinality(S) \in Nat /\ IsFiniteSet(S)
           /\ \A i \in S : Rank(S, i) \in 1..Cardinality(S)
           /\ \A i, j \in S : i < j => Rank(S, i) < Rank(S, j)
           /\ \A k \in 1..Cardinality(S) : \E i \in S : Rank(S, i) = k
<1>1. IsFiniteSet(S)
  OBVIOUS
<1>2. Cardinality(S) \in Nat
  BY <1>1, FS_CardinalityType
<1>3. \A i \in S : i \in Nat
  OBVIOUS
<1>4. \A i \in S : {j \in S : j <= i} \in SUBSET S /\ IsFiniteSet({j \in S : j <= i})
  BY <1>1, FS_Subset
<1>5. \A i \in S : Rank(S, i) \in Nat
  BY <1>4, FS_CardinalityType DEF Rank
<1>6. ASSUME NEW i \in S PROVE Rank(S, i) \in 1..Cardinality(S)
  <2>1. Rank(S, i) <= Cardinality(S)
    BY <1>1, <1>4, FS_Subset DEF Rank
  <2>2. {j \in S : j <= i} # {}
    BY <1>3
  <2>3. Rank(S, i) # 0
    BY <1>4, <2>2, FS_EmptySet DEF Rank
  <2>. QED
    BY <1>2, <1>5, <2>1, <2>3
<1>7. ASSUME NEW i \in S, NEW j \in S, i < j PROVE Rank(S, i) < Rank(S, j)
  <2>. DEFINE A == {x \in S : x <= i}
              B == {x \in S : x <= j}
  <2>1. A \in SUBSET B /\ j \in B /\ j \notin A
    <3>1. \A x \in S : x <= i => x <= j
      BY <1>3, <1>7
    <3>2. j <= j /\ ~(j <= i)
      BY <1>3, <1>7
    <3>. QED
      BY <3>1, <3>2
  <2>2. IsFiniteSet(B)
    BY <1>4
  <2>. HIDE DEF A, B
  <2>3. Cardinality(A) <= Cardinality(B) /\ Cardinality(A) # Cardinality(B)
    BY <2>1, <2>2, FS_Subset
  <2>4. Rank(S, i) = Cardinality(A) /\ Rank(S, j) = Cardinality(B)
    BY DEF Rank, A, B
  <2>. QED
    BY <1>5, <2>3, <2>4
<1>8. \A k \in 1..Cardinality(S) : \E i \in S : Rank(S, i) = k
  <2>. DEFINE f == [i \in S |-> Rank(S, i)]
  <2>1. f \in [S -> 1..Cardinality(S)]
    BY <1>6
  <2>2. \A i, j \in S : f[i] = f[j] => i = j
    <3>. SUFFICES ASSUME NEW i \in S, NEW j \in S, i # j PROVE Rank(S, i) # Rank(S, j)
      OBVIOUS
    <3>1. i < j \/ j < i
      BY <1>3
    <3>. QED
      BY <1>5, <1>7, <3>1
  <2>3. f \in Injection(S, 1..Cardinality(S))
    BY <2>1, <2>2 DEF Injection, IsInjective
  <2>4. IsFiniteSet(1..Cardinality(S)) /\ Cardinality(1..Cardinality(S)) = Cardinality(S)
    BY <1>2, FS_Interval
  <2>. HIDE DEF f
  <2>5. f \in Surjection(S, 1..Cardinality(S))
    BY <1>1, <2>3, <2>4, FS_Injection
  <2>6. \A k \in 1..Cardinality(S) : \E i \in S : f[i] = k
    BY <2>5 DEF Surjection
  <2>. QED
    BY <2>6 DEF f
<1>. QED
  BY <1>1, <1>2, <1>6, <1>7, <1>8

\* Ascending lists S in its order, and all of it.
LEMMA AscendingFacts ==
    ASSUME NEW S \in SUBSET Nat, IsFiniteSet(S), NEW a, a = Ascending(S)
    PROVE  /\ a \in Seq(S) /\ Len(a) = Cardinality(S) /\ Cardinality(S) \in Nat
           /\ \A k \in 1..Len(a) : Rank(S, a[k]) = k
           /\ \A j, k \in 1..Len(a) : j < k => a[j] < a[k]
           /\ \A i \in S : \E k \in 1..Len(a) : a[k] = i
<1>1. /\ Cardinality(S) \in Nat
      /\ \A i \in S : Rank(S, i) \in 1..Cardinality(S)
      /\ \A i, j \in S : i < j => Rank(S, i) < Rank(S, j)
      /\ \A k \in 1..Cardinality(S) : \E i \in S : Rank(S, i) = k
  BY RankFacts
<1>2. a = [k \in 1..Cardinality(S) |-> CHOOSE i \in S : Rank(S, i) = k]
  BY DEF Ascending, Rank
<1>3. \A k \in 1..Cardinality(S) : a[k] \in S /\ Rank(S, a[k]) = k
  BY <1>1, <1>2
<1>4. a \in Seq(S) /\ Len(a) = Cardinality(S)
  BY <1>1, <1>2, <1>3
<1>5. \A i, j \in S : Rank(S, i) < Rank(S, j) => i < j
  <2>. SUFFICES ASSUME NEW i \in S, NEW j \in S, ~(i < j) PROVE ~(Rank(S, i) < Rank(S, j))
    OBVIOUS
  <2>1. i = j \/ j < i
    OBVIOUS
  <2>2. Rank(S, i) \in Nat /\ Rank(S, j) \in Nat
    BY <1>1
  <2>. QED
    BY <1>1, <2>1, <2>2
<1>6. ASSUME NEW j \in 1..Len(a), NEW k \in 1..Len(a), j < k PROVE a[j] < a[k]
  <2>1. a[j] \in S /\ a[k] \in S /\ Rank(S, a[j]) = j /\ Rank(S, a[k]) = k
    BY <1>3, <1>4
  <2>. QED
    BY <1>5, <1>6, <2>1
<1>7. ASSUME NEW i \in S PROVE \E k \in 1..Len(a) : a[k] = i
  <2>1. Rank(S, i) \in 1..Cardinality(S)
    BY <1>1
  <2>2. a[Rank(S, i)] \in S /\ Rank(S, a[Rank(S, i)]) = Rank(S, i)
    BY <1>3, <2>1
  <2>3. \A j \in S : Rank(S, j) = Rank(S, i) => j = i
    <3>. SUFFICES ASSUME NEW j \in S, j # i PROVE Rank(S, j) # Rank(S, i)
      OBVIOUS
    <3>1. j < i \/ i < j
      OBVIOUS
    <3>2. Rank(S, i) \in Nat /\ Rank(S, j) \in Nat
      BY <1>1
    <3>. QED
      BY <1>1, <3>1, <3>2
  <2>. QED
    BY <1>4, <2>1, <2>2, <2>3
<1>. QED
  BY <1>1, <1>3, <1>4, <1>6, <1>7

\* Only one sequence does so.
LEMMA AscendingUnique ==
    ASSUME NEW S \in SUBSET Nat, IsFiniteSet(S), NEW q \in Seq(S),
           \A j, k \in 1..Len(q) : j < k => q[j] < q[k],
           \A i \in S : \E k \in 1..Len(q) : q[k] = i
    PROVE  q = Ascending(S)
<1>0. Len(q) \in Nat /\ \A i \in S : i \in Nat
  OBVIOUS
<1>1. \A k \in 1..Len(q) : q[k] \in S
  OBVIOUS
<1>2. ASSUME NEW k \in 1..Len(q) PROVE Rank(S, q[k]) = k
  <2>. DEFINE A == {j \in S : j <= q[k]}
              f == [m \in 1..k |-> q[m]]
  <2>1. \A m \in 1..k : q[m] \in A
    <3>. SUFFICES ASSUME NEW m \in 1..k PROVE q[m] \in S /\ q[m] <= q[k]
      OBVIOUS
    <3>1. m \in 1..Len(q) /\ (m < k \/ m = k)
      BY <1>0
    <3>2. q[m] < q[k] \/ q[m] = q[k]
      BY <3>1
    <3>3. q[m] \in S /\ q[m] \in Nat /\ q[k] \in Nat
      BY <1>0, <1>1, <3>1
    <3>. QED
      BY <3>2, <3>3
  <2>2. \A i, j \in 1..k : f[i] = f[j] => i = j
    <3>. SUFFICES ASSUME NEW i \in 1..k, NEW j \in 1..k, i # j PROVE q[i] # q[j]
      OBVIOUS
    <3>1. i \in 1..Len(q) /\ j \in 1..Len(q) /\ (i < j \/ j < i)
      BY <1>0
    <3>2. q[i] < q[j] \/ q[j] < q[i]
      BY <3>1
    <3>3. q[i] \in Nat /\ q[j] \in Nat
      BY <1>0, <1>1, <3>1
    <3>. QED
      BY <3>2, <3>3
  <2>3. ASSUME NEW j \in A PROVE \E m \in 1..k : f[m] = j
    <3>1. PICK m \in 1..Len(q) : q[m] = j
      OBVIOUS
    <3>2. ~(k < m)
      <4>. SUFFICES ASSUME k < m PROVE FALSE
        OBVIOUS
      <4>1. q[k] < q[m]
        OBVIOUS
      <4>2. q[k] \in Nat /\ q[m] \in Nat
        BY <1>0, <1>1
      <4>3. q[m] <= q[k]
        BY <3>1
      <4>. QED
        BY <4>1, <4>2, <4>3
    <3>. QED
      BY <1>0, <3>1, <3>2
  <2>. HIDE DEF A
  <2>4. f \in [1..k -> A]
    BY <2>1
  <2>. HIDE DEF f
  <2>5. f \in Bijection(1..k, A)
    BY <2>2, <2>3, <2>4 DEF Bijection, Injection, Surjection, IsInjective
  <2>6. ExistsBijection(1..k, A)
    BY <2>5 DEF ExistsBijection
  <2>7. IsFiniteSet(1..k) /\ Cardinality(1..k) = k
    BY <1>0, FS_Interval
  <2>8. Cardinality(A) = k
    BY <2>6, <2>7, FS_Bijection
  <2>. QED
    BY <2>8 DEF Rank, A
<1>3. Len(q) = Cardinality(S)
  <2>1. CASE Len(q) = 0
    <3>1. S = {}
      BY <2>1
    <3>. QED
      BY <2>1, <3>1, FS_EmptySet
  <2>2. CASE Len(q) # 0
    <3>1. Len(q) \in 1..Len(q)
      BY <1>0, <2>2
    <3>2. ASSUME NEW i \in S PROVE i <= q[Len(q)]
      <4>1. PICK k \in 1..Len(q) : q[k] = i
        OBVIOUS
      <4>2. k = Len(q) \/ q[k] < q[Len(q)]
        BY <1>0, <3>1
      <4>3. q[k] \in Nat /\ q[Len(q)] \in Nat
        BY <1>0, <1>1, <3>1
      <4>. QED
        BY <4>1, <4>2, <4>3
    <3>3. {j \in S : j <= q[Len(q)]} = S
      BY <3>2
    <3>. QED
      BY <1>2, <3>1, <3>3 DEF Rank
  <2>. QED
    BY <2>1, <2>2
<1>4. PICK a : a = Ascending(S)
  OBVIOUS
<1>5. a \in Seq(S) /\ Len(a) = Cardinality(S) /\ \A k \in 1..Len(a) : Rank(S, a[k]) = k
  BY <1>4, AscendingFacts
<1>6. ASSUME NEW k \in 1..Len(q) PROVE q[k] = a[k]
  <2>1. k \in 1..Len(a) /\ a[k] \in S /\ q[k] \in S
    BY <1>1, <1>3, <1>5
  <2>2. Rank(S, a[k]) = k /\ Rank(S, q[k]) = k
    BY <1>2, <1>5, <2>1
  <2>3. \A i, j \in S : i < j => Rank(S, i) < Rank(S, j)
    BY RankFacts
  <2>4. k \in Nat /\ a[k] \in Nat /\ q[k] \in Nat
    <3>1. k \in Nat
      BY <1>0
    <3>. QED
      BY <1>0, <2>1, <3>1
  <2>5. ~(a[k] < q[k])
    <3>. SUFFICES ASSUME a[k] < q[k] PROVE FALSE
      OBVIOUS
    <3>1. Rank(S, a[k]) < Rank(S, q[k])
      BY <2>1, <2>3
    <3>. QED
      BY <2>2, <2>4, <3>1
  <2>6. ~(q[k] < a[k])
    <3>. SUFFICES ASSUME q[k] < a[k] PROVE FALSE
      OBVIOUS
    <3>1. Rank(S, q[k]) < Rank(S, a[k])
      BY <2>1, <2>3
    <3>. QED
      BY <2>2, <2>4, <3>1
  <2>. QED
    BY <2>4, <2>5, <2>6
<1>. QED
  BY <1>3, <1>4, <1>5, <1>6

----------------------------------------------------------------------------
(* Sentences                                                               *)

\* The sentence ends in a buffer are those of the whole text before the buffer's end.
LEMMA EndsInBuffer ==
    ASSUME NEW text \in Seq(TokenKinds), NEW to \in 0..Len(text), NEW i \in 1..to
    PROVE  SentenceEnd(text, i, to) <=> i < to /\ SentenceEnd(text, i, Len(text))
BY DEF SentenceEnd

BufferEnds(text, from, to) == {i \in (from + 1)..to : SentenceEnd(text, i, to)}

\* The sentences of a buffer join up from its beginning, and end at all its sentence ends.
Splits(s, p, from, S) ==
    /\ s \in Seq(Sentence)
    /\ \A k \in 1..Len(s) : s[k][1] = p /\ s[k][2] = (IF k = 1 THEN from ELSE s[k - 1][3]) /\ s[k][3] \in S
    /\ \A j, k \in 1..Len(s) : j < k => s[j][3] < s[k][3]
    /\ \A i \in S : \E k \in 1..Len(s) : s[k][3] = i

\* A sentence is its provider, its beginning and its end.
LEMMA SentenceFields == ASSUME NEW x \in Sentence PROVE x = <<x[1], x[2], x[3]>>
BY DEF Sentence

\* What Sentences yields, and LastEnd cuts off the buffer.
LEMMA SentencesFacts ==
    ASSUME NEW p \in Nat, NEW text, NEW from \in Nat, NEW to \in Nat
    PROVE  /\ Splits(Sentences(p, text, from, to), p, from, BufferEnds(text, from, to))
           /\ LastEnd(text, from, to) = IF Sentences(p, text, from, to) = <<>> THEN from
                 ELSE Sentences(p, text, from, to)[Len(Sentences(p, text, from, to))][3]
<1>1. PICK S : S = BufferEnds(text, from, to)
  OBVIOUS
<1>2. S \in SUBSET Nat /\ IsFiniteSet(S)
  <2>1. S \in SUBSET (1..to) /\ S \in SUBSET Nat
    BY <1>1 DEF BufferEnds
  <2>2. IsFiniteSet(1..to)
    BY FS_Interval
  <2>. QED
    BY <2>1, <2>2, FS_Subset
<1>3. PICK e : e = Ascending(S)
  OBVIOUS
<1>4. /\ e \in Seq(S) /\ Len(e) \in Nat
      /\ \A j, k \in 1..Len(e) : j < k => e[j] < e[k]
      /\ \A i \in S : \E k \in 1..Len(e) : e[k] = i
  <2>1. /\ e \in Seq(S) /\ Len(e) = Cardinality(S) /\ Cardinality(S) \in Nat
        /\ \A k \in 1..Len(e) : Rank(S, e[k]) = k
        /\ \A j, k \in 1..Len(e) : j < k => e[j] < e[k]
        /\ \A i \in S : \E k \in 1..Len(e) : e[k] = i
    BY <1>2, <1>3, AscendingFacts
  <2>. QED
    BY <2>1
<1>5. e = SentenceEnds(text, from, to)
  BY <1>1, <1>3 DEF SentenceEnds, BufferEnds
<1>6. PICK s : s = [k \in 1..Len(e) |-> <<p, IF k = 1 THEN from ELSE e[k - 1], e[k]>>]
  OBVIOUS
<1>7. \A k \in 1..Len(e) : e[k] \in S /\ e[k] \in Nat /\ (k # 1 => k - 1 \in 1..Len(e))
  <2>1. \A k \in 1..Len(e) : e[k] \in S
    BY <1>4
  <2>2. \A i \in S : i \in Nat
    BY <1>2
  <2>3. \A k \in 1..Len(e) : k # 1 => k - 1 \in 1..Len(e)
    BY <1>4
  <2>. QED
    BY <2>1, <2>2, <2>3
<1>8. \A k \in 1..Len(e) : s[k] = <<p, IF k = 1 THEN from ELSE e[k - 1], e[k]>>
  BY <1>6
<1>9. \A k \in 1..Len(e) : s[k] \in Sentence
  <2>. SUFFICES ASSUME NEW k \in 1..Len(e) PROVE s[k] \in Sentence
    OBVIOUS
  <2>1. (IF k = 1 THEN from ELSE e[k - 1]) \in Nat /\ e[k] \in Nat
    BY <1>7
  <2>2. \A x, y, z \in Nat : <<x, y, z>> \in Sentence
    BY DEF Sentence
  <2>. QED
    BY <1>8, <2>1, <2>2
<1>10. s \in Seq(Sentence) /\ Len(s) = Len(e)
  BY <1>4, <1>6, <1>9
<1>11. \A k \in 1..Len(e) : s[k][1] = p /\ s[k][2] = (IF k = 1 THEN from ELSE e[k - 1]) /\ s[k][3] = e[k]
  BY <1>8
<1>12. \A k \in 1..Len(s) : s[k][2] = IF k = 1 THEN from ELSE s[k - 1][3]
  BY <1>7, <1>10, <1>11
<1>13. Splits(s, p, from, S)
  <2>1. \A k \in 1..Len(s) : s[k][1] = p /\ s[k][3] \in S
    BY <1>7, <1>10, <1>11
  <2>2. ASSUME NEW j \in 1..Len(s), NEW k \in 1..Len(s), j < k PROVE s[j][3] < s[k][3]
    <3>1. s[j][3] = e[j] /\ s[k][3] = e[k] /\ e[j] < e[k]
      BY <1>4, <1>10, <1>11, <2>2
    <3>. QED
      BY <3>1
  <2>3. ASSUME NEW i \in S PROVE \E k \in 1..Len(s) : s[k][3] = i
    <3>1. PICK k \in 1..Len(e) : e[k] = i
      BY <1>4
    <3>. QED
      BY <1>10, <1>11, <3>1
  <2>. QED
    BY <1>10, <1>12, <2>1, <2>2, <2>3 DEF Splits
<1>14. s = Sentences(p, text, from, to)
  BY <1>5, <1>6 DEF Sentences
<1>15. LastEnd(text, from, to) = IF e = <<>> THEN from ELSE e[Len(e)]
  BY <1>5 DEF LastEnd
<1>16. (s = <<>> <=> e = <<>>) /\ (e # <<>> => Len(e) \in 1..Len(e))
  BY <1>4, <1>10
<1>17. LastEnd(text, from, to) = IF s = <<>> THEN from ELSE s[Len(s)][3]
  BY <1>10, <1>11, <1>15, <1>16
<1>. QED
  BY <1>1, <1>13, <1>14, <1>17

EndsAt(c, s, from) == c = IF s = <<>> THEN from ELSE s[Len(s)][3]

LEMMA LastEndIs ==
    ASSUME NEW p \in Nat, NEW text, NEW from \in Nat, NEW to \in Nat
    PROVE  EndsAt(LastEnd(text, from, to), Sentences(p, text, from, to), from)
  BY SentencesFacts DEF EndsAt

\* Nothing else splits the buffer so.
LEMMA SentencesUnique ==
    ASSUME NEW p \in Nat, NEW text, NEW from \in Nat, NEW to \in Nat, NEW q,
           Splits(q, p, from, BufferEnds(text, from, to))
    PROVE  q = Sentences(p, text, from, to)
<1>1. PICK S : S = BufferEnds(text, from, to)
  OBVIOUS
<1>2. S \in SUBSET Nat /\ IsFiniteSet(S)
  <2>1. S \in SUBSET (1..to) /\ S \in SUBSET Nat
    BY <1>1 DEF BufferEnds
  <2>2. IsFiniteSet(1..to)
    BY FS_Interval
  <2>. QED
    BY <2>1, <2>2, FS_Subset
<1>3. /\ q \in Seq(Sentence) /\ Len(q) \in Nat
      /\ \A k \in 1..Len(q) : q[k][1] = p /\ q[k][2] = (IF k = 1 THEN from ELSE q[k - 1][3]) /\ q[k][3] \in S
      /\ \A j, k \in 1..Len(q) : j < k => q[j][3] < q[k][3]
      /\ \A i \in S : \E k \in 1..Len(q) : q[k][3] = i
  BY <1>1 DEF Splits
<1>4. PICK e : e = [k \in 1..Len(q) |-> q[k][3]]
  OBVIOUS
<1>5. e \in Seq(S) /\ Len(e) = Len(q) /\ \A k \in 1..Len(q) : e[k] = q[k][3]
  BY <1>3, <1>4
<1>6. e = Ascending(S)
  <2>1. ASSUME NEW j \in 1..Len(e), NEW k \in 1..Len(e), j < k PROVE e[j] < e[k]
    <3>1. e[j] = q[j][3] /\ e[k] = q[k][3] /\ q[j][3] < q[k][3]
      BY <1>3, <1>5, <2>1
    <3>. QED
      BY <3>1
  <2>2. ASSUME NEW i \in S PROVE \E k \in 1..Len(e) : e[k] = i
    <3>1. PICK k \in 1..Len(q) : q[k][3] = i
      BY <1>3
    <3>. QED
      BY <1>5, <3>1
  <2>. QED
    BY <1>2, <1>5, <2>1, <2>2, AscendingUnique
<1>7. SentenceEnds(text, from, to) = e
  BY <1>1, <1>6 DEF SentenceEnds, BufferEnds
<1>8. ASSUME NEW k \in 1..Len(q) PROVE q[k] = <<p, IF k = 1 THEN from ELSE e[k - 1], e[k]>>
  <2>1. q[k] = <<q[k][1], q[k][2], q[k][3]>>
    <3>1. q[k] \in Sentence
      BY <1>3
    <3>. QED
      BY <3>1, SentenceFields
  <2>2. k # 1 => k - 1 \in 1..Len(q)
    BY <1>3
  <2>. QED
    BY <1>3, <1>5, <2>1, <2>2
<1>9. Sentences(p, text, from, to) = [k \in 1..Len(e) |-> <<p, IF k = 1 THEN from ELSE e[k - 1], e[k]>>]
  BY <1>7 DEF Sentences
<1>10. q = [k \in 1..Len(q) |-> q[k]]
  BY <1>3
<1>. QED
  BY <1>5, <1>8, <1>9, <1>10

----------------------------------------------------------------------------
(* The steps of the chain and of stream_prepared                           *)

\* Nothing has been asked, sent or saved at first.
LEMMA ReplyStart == ReplyInit => ReplyInv
<1>. SUFFICES ASSUME ReplyInit PROVE ReplyInv
  OBVIOUS
<1>1. ReplyTypeOK
  BY ReplyAssumption DEF ReplyInit, ReplyTypeOK
<1>2. StageInv
  BY DEF ReplyInit, StageInv, NotSaved
<1>3. Yielded = <<>> /\ TextEnds = {}
  BY DEF ReplyInit, Yielded, TextEnds
<1>4. CuttingInv
  BY <1>3 DEF ReplyInit, CuttingInv, Joined, Reading, CutUpTo
<1>5. VoicesInv
  BY DEF ReplyInit, VoicesInv
<1>. QED
  BY <1>1, <1>2, <1>4, <1>5 DEF ReplyInv

\* A step that leaves the sentences alone.
LEMMA CuttingFrame ==
    ASSUME CuttingInv, answerer' = answerer, answer' = answer, heard' = heard, cut' = cut,
           ready' = ready, parts' = parts
    PROVE  /\ Joined(Yielded)'
           /\ Reading /\ turnStep' \notin {"lastAudio", "persist", "correct"} /\ cause' # "done" => Reading'
           /\ Read /\ (turnStep' = "stream" => ready # <<>>) /\ turnStep' \notin {"try", "partial"}
              /\ (cause' = "done" => ready = <<>>) => Read'
<1>1. Yielded' = Yielded /\ TextEnds' = TextEnds /\ WholeAnswer' = WholeAnswer
  BY DEF Yielded, TextEnds, WholeAnswer
<1>2. Joined(Yielded)'
  BY <1>1 DEF CuttingInv, Joined
<1>3. Reading /\ turnStep' \notin {"lastAudio", "persist", "correct"} /\ cause' # "done" => Reading'
  BY <1>1 DEF Reading, CutUpTo
<1>4. Read /\ (turnStep' = "stream" => ready # <<>>) /\ turnStep' \notin {"try", "partial"}
      /\ (cause' = "done" => ready = <<>>) => Read'
  BY <1>1 DEF Read
<1>. QED
  BY <1>2, <1>3, <1>4

\* A step that leaves the voices alone, at the same length of the reply.
LEMMA VoicesFrame ==
    ASSUME VoicesInv, clips' = clips, pending' = pending, voices' = voices,
           turnStep' = "audio" => Len(parts') = Len(voices) + 1,
           turnStep' \notin {"audio", "finally", "ended"} => Len(parts') = Len(voices),
           turnStep' \in {"persist", "correct"} \/ cause' = "done" => pending = 0,
           turnStep' = "ended" => turnStep = "ended" /\ correction' = correction
    PROVE  VoicesInv'
BY DEF VoicesInv

\* A failure hands over to the next provider, or to what saves the part that was sent.
LEMMA FailureKeeps == ASSUME ReplyInv, Waiting, AfterFailure PROVE ReplyInv'
<1>1. UNCHANGED <<answerer, answer, heard, cut, ready, elapsed, limit, clips, pending, voices, correction,
                  parts, saved, cause>>
      /\ turnStep = "stream" /\ ready = <<>> /\ turnStep' = IF parts # <<>> THEN "partial" ELSE "try"
  BY DEF Waiting, AfterFailure, Emitted, chainVars, taskVars
<1>2. ReplyTypeOK'
  BY <1>1 DEF ReplyInv, ReplyTypeOK
<1>3. StageInv'
  BY <1>1 DEF ReplyInv, StageInv
<1>4. Reading
  BY <1>1 DEF ReplyInv, CuttingInv, Read
<1>5. cause = "none"
  BY <1>1 DEF ReplyInv, StageInv
<1>6. CuttingInv'
  BY <1>1, <1>4, <1>5, CuttingFrame DEF ReplyInv, CuttingInv
<1>7. VoicesInv'
  <2>1. Len(parts) = Len(voices) /\ VoicesInv
    BY <1>1 DEF ReplyInv, VoicesInv
  <2>. QED
    BY <1>1, <1>5, <2>1, VoicesFrame
<1>. QED
  BY <1>2, <1>3, <1>6, <1>7 DEF ReplyInv

\* The next provider is heard from the beginning, since nothing of the last one was sent.
LEMMA TryKeeps == ASSUME ReplyInv, TryProvider PROVE ReplyInv'
<1>1. /\ UNCHANGED <<ready, elapsed, clips, pending, voices, correction, parts, saved, cause>>
      /\ turnStep = "try" /\ turnStep' = "stream" /\ heard' = 0 /\ cut' = 0 /\ answer' \in Answers
      /\ answerer' = answerer + 1 /\ answerer < Chain /\ limit' = elapsed + (Deadline - elapsed)
  BY DEF TryProvider, taskVars, Remaining
<1>2. parts = <<>> /\ ready = <<>> /\ cause = "none" /\ saved = NotSaved
  BY <1>1 DEF ReplyInv, StageInv
<1>3. answer' \in Seq(TokenKinds)
  BY <1>1, ReplyAssumption
<1>4. ReplyTypeOK'
  <2>1. Chain \in Nat /\ Deadline \in Nat
    BY ReplyAssumption
  <2>2. answerer \in 0..Chain /\ elapsed \in 0..Deadline
    BY DEF ReplyInv, ReplyTypeOK
  <2>3. answerer' \in 0..Chain /\ limit' = Deadline
    BY <1>1, <2>1, <2>2
  <2>4. heard' \in 0..Len(answer') /\ cut' \in 0..heard'
    BY <1>1, <1>3
  <2>. QED
    BY <1>1, <1>3, <2>3, <2>4 DEF ReplyInv, ReplyTypeOK
<1>5. StageInv'
  BY <1>1, <1>2 DEF StageInv
<1>6. Yielded' = <<>>
  BY <1>1, <1>2 DEF Yielded
<1>7. \A e \in TextEnds' : e \in Nat /\ e >= 1
  BY DEF TextEnds
<1>8. CuttingInv'
  BY <1>1, <1>2, <1>6, <1>7 DEF CuttingInv, Joined, Reading, CutUpTo
<1>9. VoicesInv'
  <2>1. Len(parts) = Len(voices) /\ VoicesInv
    BY <1>1 DEF ReplyInv, VoicesInv
  <2>. QED
    BY <1>1, <1>2, <2>1, VoicesFrame
<1>. QED
  BY <1>4, <1>5, <1>8, <1>9 DEF ReplyInv

\* The chain gives up before any sentence.
LEMMA AllFailedKeeps == ASSUME ReplyInv, AllFailed PROVE ReplyInv'
<1>1. /\ UNCHANGED <<answerer, answer, heard, cut, ready, elapsed, limit, clips, pending, voices, correction,
                     parts, saved>>
      /\ turnStep = "try" /\ turnStep' = "finally" /\ cause' = "all failed"
      /\ (answerer = Chain \/ Deadline - elapsed <= 0)
  BY DEF AllFailed, chainVars, taskVars, Remaining
<1>2. ReplyTypeOK'
  BY <1>1 DEF ReplyInv, ReplyTypeOK
<1>3. StageInv'
  <2>1. Deadline \in Nat
    BY ReplyAssumption
  <2>2. elapsed \in 0..Deadline
    BY DEF ReplyInv, ReplyTypeOK
  <2>3. Deadline - elapsed <= 0 => elapsed >= Deadline
    BY <2>1, <2>2
  <2>. QED
    BY <1>1, <2>3 DEF ReplyInv, StageInv
<1>4. Reading
  BY <1>1 DEF ReplyInv, CuttingInv, Read
<1>5. CuttingInv'
  BY <1>1, <1>4, CuttingFrame DEF ReplyInv, CuttingInv
<1>6. VoicesInv'
  BY <1>1, VoicesFrame DEF ReplyInv
<1>. QED
  BY <1>2, <1>3, <1>5, <1>6 DEF ReplyInv

\* The wait for the first sentence ends at the deadline.
LEMMA TickKeeps == ASSUME ReplyInv, Tick PROVE ReplyInv'
<1>1. /\ UNCHANGED <<answerer, answer, heard, cut, ready, limit, clips, pending, voices, correction,
                     parts, saved, cause, turnStep>>
      /\ elapsed < limit /\ elapsed' = elapsed + 1 /\ turnStep = "stream" /\ ready = <<>>
  BY DEF Tick, taskVars, Waiting
<1>2. ReplyTypeOK'
  <2>1. Deadline \in Nat
    BY ReplyAssumption
  <2>2. elapsed \in 0..Deadline /\ limit \in {0, Deadline}
    BY DEF ReplyInv, ReplyTypeOK
  <2>3. elapsed' \in 0..Deadline
    BY <1>1, <2>1, <2>2
  <2>. QED
    BY <1>1, <2>3 DEF ReplyInv, ReplyTypeOK
<1>3. StageInv'
  BY <1>1 DEF ReplyInv, StageInv
<1>4. Reading
  BY <1>1 DEF ReplyInv, CuttingInv, Read
<1>5. CuttingInv'
  BY <1>1, <1>4, CuttingFrame DEF ReplyInv, CuttingInv, Reading
<1>6. VoicesInv'
  BY <1>1, VoicesFrame DEF ReplyInv, VoicesInv
<1>. QED
  BY <1>2, <1>3, <1>5, <1>6 DEF ReplyInv

\* What the types say of the numbers.
LEMMA ReplyNumbers ==
    ASSUME ReplyTypeOK
    PROVE  /\ answerer \in Nat /\ answer \in Seq(TokenKinds) /\ cut \in Nat /\ heard \in Nat
           /\ parts \in Seq(Sentence) /\ Len(parts) \in Nat /\ Len(answer) \in Nat
           /\ cut <= heard /\ heard <= Len(answer)
<1>1. Chain \in Nat
  BY ReplyAssumption
<1>2. answerer \in 0..Chain /\ answer \in Seq(TokenKinds) /\ heard \in 0..Len(answer) /\ cut \in 0..heard
      /\ parts \in Seq(Sentence)
  BY DEF ReplyTypeOK
<1>3. Len(parts) \in Nat /\ Len(answer) \in Nat
  BY <1>2
<1>. QED
  BY <1>1, <1>2, <1>3

\* Sentences appended to a cut text: they take up where it stops.
LEMMA CutExtended ==
    ASSUME ReplyTypeOK, NEW to \in Nat, cut <= to, to <= Len(answer), Joined(parts), CutUpTo(parts, cut),
           \A e \in TextEnds : e <= cut \/ e >= heard, heard <= to,
           NEW s, s = Sentences(answerer, answer, cut, to), NEW c, c = LastEnd(answer, cut, to)
    PROVE  /\ s \in Seq(Sentence) /\ c \in cut..to
           /\ Joined(parts \o s) /\ CutUpTo(parts \o s, c)
           /\ \A e \in TextEnds : e <= c \/ e >= to
<1>1. /\ answerer \in Nat /\ answer \in Seq(TokenKinds) /\ cut \in Nat /\ heard \in Nat
      /\ parts \in Seq(Sentence) /\ Len(parts) \in Nat /\ Len(answer) \in Nat
  BY ReplyNumbers
<1>2. PICK S : S = BufferEnds(answer, cut, to)
  OBVIOUS
<1>3. \A i : i \in S <=> i \in TextEnds /\ cut < i /\ i < to
  <2>1. ASSUME NEW i \in S PROVE i \in TextEnds /\ cut < i /\ i < to
    <3>1. i \in (cut + 1)..to /\ SentenceEnd(answer, i, to)
      BY <1>2 DEF BufferEnds
    <3>2. i \in 1..to /\ i \in 1..Len(answer) /\ cut < i /\ to \in 0..Len(answer)
      BY <1>1, <3>1
    <3>3. i < to /\ SentenceEnd(answer, i, Len(answer))
      BY <1>1, <3>1, <3>2, EndsInBuffer
    <3>. QED
      BY <3>2, <3>3 DEF TextEnds
  <2>2. ASSUME NEW i \in TextEnds, cut < i, i < to PROVE i \in S
    <3>1. i \in 1..Len(answer) /\ SentenceEnd(answer, i, Len(answer))
      BY DEF TextEnds
    <3>2. i \in 1..to /\ i \in (cut + 1)..to /\ to \in 0..Len(answer)
      BY <1>1, <2>2, <3>1
    <3>3. SentenceEnd(answer, i, to)
      BY <1>1, <2>2, <3>1, <3>2, EndsInBuffer
    <3>. QED
      BY <1>2, <3>2, <3>3 DEF BufferEnds
  <2>. QED
    BY <2>1, <2>2
<1>4. Splits(s, answerer, cut, S) /\ c = IF s = <<>> THEN cut ELSE s[Len(s)][3]
  <2>1. Splits(Sentences(answerer, answer, cut, to), answerer, cut, BufferEnds(answer, cut, to))
    BY <1>1, SentencesFacts
  <2>2. EndsAt(LastEnd(answer, cut, to), Sentences(answerer, answer, cut, to), cut)
    BY <1>1, LastEndIs
  <2>. QED
    BY <1>2, <2>1, <2>2 DEF EndsAt
<1>5. /\ s \in Seq(Sentence) /\ Len(s) \in Nat
      /\ \A k \in 1..Len(s) : s[k][1] = answerer /\ s[k][2] = (IF k = 1 THEN cut ELSE s[k - 1][3]) /\ s[k][3] \in S
      /\ \A j, k \in 1..Len(s) : j < k => s[j][3] < s[k][3]
      /\ \A i \in S : \E k \in 1..Len(s) : s[k][3] = i
  <2>1. s \in Seq(Sentence)
    BY <1>4 DEF Splits
  <2>2. Len(s) \in Nat
    BY <2>1
  <2>. QED
    BY <1>4, <2>1, <2>2, Zenon DEF Splits
<1>6. PICK m \in Nat, n \in Nat : m = Len(parts) /\ n = Len(s)
  BY <1>1, <1>5
<1>7. PICK q : q = parts \o s
  OBVIOUS
<1>8. /\ q \in Seq(Sentence) /\ Len(q) = m + n
      /\ \A i \in 1..m : q[i] = parts[i]
      /\ \A k \in 1..n : q[m + k] = s[k]
  <2>1. q \in Seq(Sentence) /\ Len(q) = m + n
    BY <1>1, <1>5, <1>6, <1>7, ConcatProperties
  <2>2. \A i \in 1..m : q[i] = parts[i]
    BY <1>1, <1>5, <1>6, <1>7
  <2>3. \A k \in 1..n : q[m + k] = s[k]
    BY <1>1, <1>5, <1>6, <1>7
  <2>. QED
    BY <2>1, <2>2, <2>3
<1>9. \A i \in 1..(m + n) : i \in 1..m \/ (i - m \in 1..n /\ i = m + (i - m))
  BY <1>6
<1>10. /\ \A i \in 1..m : parts[i][1] = answerer /\ parts[i][2] = IF i = 1 THEN 0 ELSE parts[i - 1][3]
       /\ \A i, j \in 1..m : i < j => parts[i][3] < parts[j][3]
       /\ \A i \in 1..m : parts[i][3] \in TextEnds /\ parts[i][3] <= cut
       /\ \A e \in TextEnds : e <= cut => \E i \in 1..m : parts[i][3] = e
       /\ cut = IF m = 0 THEN 0 ELSE parts[m][3]
  <2>1. parts = <<>> <=> m = 0
    BY <1>1, <1>6
  <2>. QED
    BY <1>6, <2>1 DEF Joined, CutUpTo
<1>11. Joined(q)
  <2>1. ASSUME NEW i \in 1..(m + n) PROVE q[i][1] = answerer /\ q[i][2] = IF i = 1 THEN 0 ELSE q[i - 1][3]
    <3>1. CASE i \in 1..m
      <4>1. i # 1 => i - 1 \in 1..m
        BY <1>6, <3>1
      <4>. QED
        BY <1>8, <1>10, <3>1, <4>1
    <3>2. CASE i = m + 1 /\ 1 \in 1..n
      <4>1. q[i] = s[1] /\ s[1][1] = answerer /\ s[1][2] = cut
        BY <1>5, <1>6, <1>8, <3>2
      <4>2. m = 0 => i = 1 /\ cut = 0
        BY <1>6, <1>10, <3>2
      <4>3. m # 0 => i # 1 /\ i - 1 = m /\ m \in 1..m /\ q[m] = parts[m] /\ cut = parts[m][3]
        BY <1>6, <1>8, <1>10, <3>2
      <4>. QED
        BY <4>1, <4>2, <4>3
    <3>3. CASE i - m \in 1..n /\ i - m # 1
      <4>0. PICK k : k = i - m
        OBVIOUS
      <4>1. k \in 1..n /\ k # 1 /\ i = m + k /\ k - 1 \in 1..n /\ i - 1 = m + (k - 1) /\ i # 1
        BY <1>6, <3>3, <4>0
      <4>2. q[i] = s[k] /\ q[i - 1] = s[k - 1]
        BY <1>8, <4>1
      <4>3. s[k][1] = answerer /\ s[k][2] = s[k - 1][3]
        BY <1>5, <1>6, <4>1
      <4>. QED
        BY <4>1, <4>2, <4>3
    <3>. QED
      BY <1>6, <1>9, <3>1, <3>2, <3>3
  <2>. QED
    BY <1>8, <2>1 DEF Joined
<1>12. \A k \in 1..n : s[k][3] \in TextEnds /\ cut < s[k][3] /\ s[k][3] < to /\ s[k][3] \in Nat
  <2>1. \A e \in TextEnds : e \in Nat
    BY DEF TextEnds
  <2>. QED
    BY <1>3, <1>5, <1>6, <2>1
<1>13. n # 0 => n \in 1..n /\ c = s[n][3]
  BY <1>4, <1>5, <1>6
<1>14. n = 0 => c = cut
  <2>1. Len(s) = 0 => s = <<>>
    BY <1>5, EmptySeq
  <2>. QED
    BY <1>4, <1>6, <2>1
<1>15. c \in cut..to
  BY <1>1, <1>6, <1>12, <1>13, <1>14
<1>16. \A k \in 1..n : s[k][3] <= c
  <2>. SUFFICES ASSUME NEW k \in 1..n PROVE s[k][3] <= c
    OBVIOUS
  <2>1. n \in 1..n /\ c = s[n][3] /\ s[n][3] \in Nat /\ s[k][3] \in Nat
    BY <1>6, <1>12, <1>13
  <2>2. k = n \/ s[k][3] < s[n][3]
    BY <1>5, <1>6, <2>1
  <2>. QED
    BY <2>1, <2>2
<1>17. ASSUME NEW e \in TextEnds, e <= c PROVE \E i \in 1..(m + n) : q[i][3] = e
  <2>0. e \in Nat /\ c \in Nat /\ c <= to
    BY <1>1, <1>15 DEF TextEnds
  <2>1. CASE e <= cut
    <3>1. PICK i \in 1..m : parts[i][3] = e
      BY <1>10, <2>1
    <3>2. i \in 1..(m + n) /\ q[i][3] = e
      BY <1>6, <1>8, <3>1
    <3>. QED
      BY <3>2
  <2>2. CASE cut < e
    <3>1. n # 0
      BY <1>1, <1>14, <1>17, <2>0, <2>2
    <3>2. c < to
      BY <1>12, <1>13, <3>1
    <3>3. e < to
      BY <1>17, <2>0, <3>2
    <3>4. PICK k \in 1..n : s[k][3] = e
      BY <1>3, <1>5, <1>6, <2>2, <3>3
    <3>5. m + k \in 1..(m + n) /\ q[m + k][3] = e
      BY <1>6, <1>8, <3>4
    <3>. QED
      BY <3>5
  <2>. QED
    BY <1>1, <2>0, <2>1, <2>2
<1>18. CutUpTo(q, c)
  <2>0. \A i \in 1..m : parts[i][3] \in Nat
    BY <1>10 DEF TextEnds
  <2>1. ASSUME NEW i \in 1..(m + n), NEW j \in 1..(m + n), i < j PROVE q[i][3] < q[j][3]
    <3>1. CASE i \in 1..m /\ j \in 1..m
      BY <1>8, <1>10, <2>1, <3>1
    <3>2. CASE i \in 1..m /\ j - m \in 1..n
      <4>0. PICK k : k = j - m
        OBVIOUS
      <4>1. k \in 1..n /\ j = m + k
        BY <1>6, <3>2, <4>0
      <4>2. q[j][3] = s[k][3] /\ q[i][3] = parts[i][3]
        BY <1>8, <3>2, <4>1
      <4>3. parts[i][3] <= cut /\ cut < s[k][3] /\ parts[i][3] \in Nat /\ s[k][3] \in Nat
        BY <1>10, <1>12, <2>0, <3>2, <4>1
      <4>4. cut \in Nat
        BY <1>1
      <4>5. parts[i][3] < s[k][3]
        BY <4>3, <4>4
      <4>. QED
        BY <4>2, <4>5
    <3>3. CASE i - m \in 1..n /\ j - m \in 1..n
      <4>0. PICK k, l : k = i - m /\ l = j - m
        OBVIOUS
      <4>1. k \in 1..n /\ i = m + k /\ l \in 1..n /\ j = m + l /\ k < l
        BY <1>6, <2>1, <3>3, <4>0
      <4>2. q[i][3] = s[k][3] /\ q[j][3] = s[l][3]
        BY <1>8, <4>1
      <4>3. s[k][3] < s[l][3]
        BY <1>5, <1>6, <4>1
      <4>. QED
        BY <4>2, <4>3
    <3>. QED
      BY <1>6, <1>9, <2>1, <3>1, <3>2, <3>3
  <2>2. ASSUME NEW i \in 1..(m + n) PROVE q[i][3] \in TextEnds /\ q[i][3] <= c
    <3>1. CASE i \in 1..m
      <4>1. q[i][3] = parts[i][3] /\ parts[i][3] \in TextEnds /\ parts[i][3] <= cut /\ parts[i][3] \in Nat
        BY <1>8, <1>10, <2>0, <3>1
      <4>2. cut <= c /\ c \in Nat
        BY <1>1, <1>15
      <4>. QED
        BY <1>1, <4>1, <4>2
    <3>2. CASE i - m \in 1..n
      <4>0. PICK k : k = i - m
        OBVIOUS
      <4>1. k \in 1..n /\ i = m + k
        BY <1>6, <3>2, <4>0
      <4>. QED
        BY <1>8, <1>12, <1>16, <4>1
    <3>. QED
      BY <1>9, <3>1, <3>2
  <2>3. c = IF q = <<>> THEN 0 ELSE q[Len(q)][3]
    <3>1. CASE n # 0
      <4>1. q # <<>> /\ q[m + n] = s[n]
        BY <1>6, <1>8, <1>13, <3>1
      <4>. QED
        BY <1>8, <1>13, <3>1, <4>1
    <3>2. CASE n = 0 /\ m # 0
      <4>1. q # <<>> /\ m + n = m /\ m \in 1..m
        BY <1>6, <1>8, <3>2
      <4>. QED
        BY <1>8, <1>10, <1>14, <3>2, <4>1
    <3>3. CASE n = 0 /\ m = 0
      <4>1. q = <<>>
        BY <1>8, <3>3
      <4>. QED
        BY <1>10, <1>14, <3>3, <4>1
    <3>. QED
      BY <3>1, <3>2, <3>3
  <2>. QED
    BY <1>8, <1>17, <2>1, <2>2, <2>3 DEF CutUpTo
<1>19. ASSUME NEW e \in TextEnds PROVE e <= c \/ e >= to
  <2>. SUFFICES ASSUME ~(e >= to) PROVE e <= c
    OBVIOUS
  <2>1. e \in Nat /\ e < to
    BY DEF TextEnds
  <2>2. CASE e <= cut
    BY <1>1, <1>15, <2>1, <2>2
  <2>3. CASE cut < e
    <3>1. PICK k \in 1..n : s[k][3] = e
      BY <1>3, <1>5, <1>6, <2>1, <2>3
    <3>. QED
      BY <1>16, <3>1
  <2>. QED
    BY <1>1, <2>1, <2>2, <2>3
<1>. QED
  BY <1>5, <1>7, <1>11, <1>15, <1>18, <1>19

\* Nothing is in hand when a provider is waited for.
LEMMA WaitingFacts ==
    ASSUME ReplyInv, Waiting
    PROVE  /\ turnStep = "stream" /\ ready = <<>> /\ cause = "none" /\ saved = NotSaved /\ Yielded = parts
           /\ Reading /\ Joined(parts) /\ CutUpTo(parts, cut) /\ \A e \in TextEnds : e <= cut \/ e >= heard
<1>1. turnStep = "stream" /\ ready = <<>>
  BY DEF Waiting
<1>2. cause = "none" /\ saved = NotSaved
  BY <1>1 DEF ReplyInv, StageInv
<1>3. Yielded = parts
  BY <1>1, ConcatEmptySeq DEF Yielded, ReplyInv, ReplyTypeOK
<1>4. Reading
  BY <1>1 DEF ReplyInv, CuttingInv, Read
<1>. QED
  BY <1>1, <1>2, <1>3, <1>4 DEF ReplyInv, CuttingInv, Reading

\* A delta yields the sentences that it completes.
LEMMA DeltaKeeps == ASSUME ReplyInv, NEW n \in 1..2, Delta(n) PROVE ReplyInv'
<1>1. PICK to : to = heard + n
  OBVIOUS
<1>2. /\ UNCHANGED <<answerer, answer, elapsed, limit, clips, pending, voices, correction, turnStep,
                     parts, saved, cause>>
      /\ Waiting /\ to <= Len(answer) /\ heard' = to
      /\ ready' = Sentences(answerer, answer, cut, to) /\ cut' = LastEnd(answer, cut, to)
  BY <1>1 DEF Delta, taskVars
<1>3. /\ turnStep = "stream" /\ ready = <<>> /\ cause = "none" /\ saved = NotSaved /\ Joined(parts)
      /\ CutUpTo(parts, cut) /\ \A e \in TextEnds : e <= cut \/ e >= heard
  BY <1>2, WaitingFacts
<1>4. /\ answerer \in Nat /\ answer \in Seq(TokenKinds) /\ cut \in Nat /\ heard \in Nat
      /\ Len(answer) \in Nat /\ cut <= heard /\ heard <= Len(answer)
  BY ReplyNumbers DEF ReplyInv
<1>5. to \in Nat /\ cut <= to /\ heard <= to
  BY <1>1, <1>4
<1>6. /\ ready' \in Seq(Sentence) /\ cut' \in cut..to
      /\ Joined(parts \o ready') /\ CutUpTo(parts \o ready', cut')
      /\ \A e \in TextEnds : e <= cut' \/ e >= to
  BY <1>2, <1>3, <1>5, CutExtended DEF ReplyInv
<1>7. heard' \in 0..Len(answer) /\ cut' \in 0..heard'
  BY <1>2, <1>4, <1>5, <1>6
<1>8. ReplyTypeOK'
  BY <1>2, <1>6, <1>7 DEF ReplyInv, ReplyTypeOK
<1>9. StageInv'
  BY <1>2, <1>3 DEF ReplyInv, StageInv
<1>10. Yielded' = parts \o ready' /\ TextEnds' = TextEnds
  BY <1>2 DEF Yielded, TextEnds
<1>11. CuttingInv'
  <2>1. Joined(Yielded)'
    BY <1>2, <1>6, <1>10 DEF Joined
  <2>2. CutUpTo(Yielded, cut)'
    BY <1>6, <1>10 DEF CutUpTo
  <2>. QED
    BY <1>2, <1>3, <1>6, <1>10, <2>1, <2>2 DEF CuttingInv, Reading
<1>12. VoicesInv'
  BY <1>2, <1>3, VoicesFrame DEF ReplyInv, VoicesInv
<1>. QED
  BY <1>8, <1>9, <1>11, <1>12 DEF ReplyInv

\* When the stream has ended, what was yielded and the tail are the whole text, split as one.
LEMMA EndKeeps == ASSUME ReplyInv, StreamEnds PROVE ReplyInv'
<1>1. /\ UNCHANGED <<answerer, answer, heard, elapsed, limit, clips, pending, voices, correction,
                     parts, saved, cause>>
      /\ Waiting /\ heard = Len(answer) /\ cut' = heard
      /\ ready' = Flushed(answerer, answer, cut)
      /\ turnStep' = IF ready' = <<>> THEN "lastAudio" ELSE "stream"
  BY DEF StreamEnds, taskVars
<1>2. /\ turnStep = "stream" /\ ready = <<>> /\ cause = "none" /\ saved = NotSaved /\ Joined(parts)
      /\ CutUpTo(parts, cut) /\ \A e \in TextEnds : e <= cut \/ e >= heard
  BY <1>1, WaitingFacts
<1>3. /\ answerer \in Nat /\ answer \in Seq(TokenKinds) /\ cut \in Nat /\ heard \in Nat
      /\ parts \in Seq(Sentence) /\ Len(parts) \in Nat
      /\ Len(answer) \in Nat /\ cut <= heard /\ heard <= Len(answer)
  BY ReplyNumbers DEF ReplyInv
<1>4. PICK S : S = BufferEnds(answer, 0, Len(answer))
  OBVIOUS
<1>5. TextEnds = S
  BY <1>3, <1>4 DEF TextEnds, BufferEnds
<1>6. \A e \in TextEnds : e < Len(answer) /\ e \in Nat
  BY <1>3 DEF TextEnds, SentenceEnd
<1>7. \A e \in TextEnds : e <= cut
  BY <1>1, <1>2, <1>3, <1>6
<1>8. Splits(parts, answerer, 0, S)
  BY <1>2, <1>3, <1>5, <1>7 DEF Splits, Joined, CutUpTo
<1>9. parts = Sentences(answerer, answer, 0, Len(answer))
  BY <1>3, <1>4, <1>8, SentencesUnique
<1>10. cut = LastEnd(answer, 0, Len(answer))
  <2>1. LastEnd(answer, 0, Len(answer)) = IF parts = <<>> THEN 0 ELSE parts[Len(parts)][3]
    <3>1. LastEnd(answer, 0, Len(answer)) = IF Sentences(answerer, answer, 0, Len(answer)) = <<>> THEN 0
             ELSE Sentences(answerer, answer, 0, Len(answer))[Len(Sentences(answerer, answer, 0, Len(answer)))][3]
      BY <1>3, SentencesFacts
    <3>. QED
      BY <1>9, <3>1
  <2>. QED
    BY <1>2, <2>1 DEF CutUpTo
<1>11. parts \o ready' = WholeAnswer
  BY <1>1, <1>9, <1>10 DEF WholeAnswer
<1>12. ready' = <<>> \/ ready' = <<<<answerer, cut, Len(answer)>>>>
  BY <1>1 DEF Flushed
<1>13. ready' \in Seq(Sentence)
  <2>1. PICK tail : tail = <<answerer, cut, Len(answer)>>
    OBVIOUS
  <2>2. tail \in Sentence
    BY <1>3, <2>1 DEF Sentence
  <2>3. ready' = <<>> \/ ready' = <<tail>>
    BY <1>12, <2>1
  <2>4. <<>> \in Seq(Sentence) /\ <<tail>> \in Seq(Sentence)
    BY <2>2
  <2>. QED
    BY <2>3, <2>4, Zenon
<1>14. Joined(parts \o ready')
  <2>1. CASE ready' = <<>>
    BY <1>2, <1>3, <2>1, ConcatEmptySeq
  <2>2. CASE ready' = <<<<answerer, cut, Len(answer)>>>>
    <3>1. PICK q, m : q = parts \o ready' /\ m = Len(parts)
      OBVIOUS
    <3>2. m \in Nat /\ Len(q) = m + 1 /\ (\A i \in 1..m : q[i] = parts[i]) /\ q[m + 1] = <<answerer, cut, Len(answer)>>
      BY <1>3, <1>13, <2>2, <3>1
    <3>3. cut = IF m = 0 THEN 0 ELSE parts[m][3]
      BY <1>2, <1>3, <3>1 DEF CutUpTo
    <3>4. ASSUME NEW i \in 1..(m + 1) PROVE q[i][1] = answerer /\ q[i][2] = IF i = 1 THEN 0 ELSE q[i - 1][3]
      <4>1. CASE i \in 1..m
        <5>1. i # 1 => i - 1 \in 1..m
          BY <3>2, <4>1
        <5>2. parts[i][1] = answerer /\ parts[i][2] = IF i = 1 THEN 0 ELSE parts[i - 1][3]
          BY <1>2, <3>1, <4>1 DEF Joined
        <5>. QED
          BY <3>2, <4>1, <5>1, <5>2
      <4>2. CASE i = m + 1
        <5>1. q[i][1] = answerer /\ q[i][2] = cut
          BY <3>2, <4>2
        <5>2. (i = 1 <=> m = 0) /\ i - 1 = m /\ (m # 0 => m \in 1..m)
          BY <3>2, <4>2
        <5>. QED
          BY <3>2, <3>3, <5>1, <5>2
      <4>. QED
        BY <3>2, <4>1, <4>2
    <3>. QED
      BY <3>1, <3>2, <3>4 DEF Joined
  <2>. QED
    BY <1>12, <2>1, <2>2
<1>15. ReplyTypeOK'
  <2>1. cut' \in 0..heard'
    BY <1>1, <1>3
  <2>. QED
    BY <1>1, <1>13, <2>1 DEF ReplyInv, ReplyTypeOK
<1>16. StageInv'
  BY <1>1, <1>2 DEF ReplyInv, StageInv
<1>17. CuttingInv'
  <2>1. Yielded' = parts \o ready' /\ WholeAnswer' = WholeAnswer
    BY <1>1 DEF Yielded, WholeAnswer
  <2>2. Joined(Yielded)'
    BY <1>1, <1>14, <2>1 DEF Joined
  <2>3. Read'
    BY <1>1, <1>2, <1>11, <2>1 DEF Read
  <2>. QED
    BY <2>2, <2>3 DEF CuttingInv
<1>18. VoicesInv'
  BY <1>1, <1>2, VoicesFrame DEF ReplyInv, VoicesInv
<1>. QED
  BY <1>15, <1>16, <1>17, <1>18 DEF ReplyInv

\* Sending a sentence moves it from the buffer's yield to the reply.
LEMMA SendKeeps == ASSUME ReplyInv, SendSentence PROVE ReplyInv'
<1>1. /\ UNCHANGED <<answerer, answer, heard, cut, elapsed, limit, clips, pending, voices, correction, saved, cause>>
      /\ turnStep = "stream" /\ turnStep' = "audio" /\ ready # <<>>
      /\ parts' = Append(parts, Head(ready)) /\ ready' = Tail(ready)
  BY DEF SendSentence, taskVars
<1>2. /\ parts \in Seq(Sentence) /\ ready \in Seq(Sentence) /\ Len(parts) \in Nat /\ Len(ready) \in Nat \ {0}
      /\ cause = "none" /\ saved = NotSaved
  <2>1. parts \in Seq(Sentence) /\ ready \in Seq(Sentence)
    BY DEF ReplyInv, ReplyTypeOK
  <2>2. cause = "none" /\ saved = NotSaved
    BY <1>1 DEF ReplyInv, StageInv
  <2>3. Len(parts) \in Nat /\ Len(ready) \in Nat \ {0}
    BY <1>1, <2>1
  <2>. QED
    BY <2>1, <2>2, <2>3
<1>3. /\ Head(ready) \in Sentence /\ Tail(ready) \in Seq(Sentence) /\ Len(Tail(ready)) = Len(ready) - 1
      /\ \A i \in 1..(Len(ready) - 1) : Tail(ready)[i] = ready[i + 1]
      /\ Head(ready) = ready[1]
  BY <1>1, <1>2, HeadTailProperties
<1>4. parts' \in Seq(Sentence) /\ Len(parts') = Len(parts) + 1
  BY <1>1, <1>2, <1>3
<1>5. parts' \o ready' = parts \o ready
  <2>1. parts' = parts \o <<Head(ready)>>
    BY <1>1, <1>2, <1>3, AppendIsConcat
  <2>2. ready = <<Head(ready)>> \o Tail(ready)
    BY <1>1, <1>2, <1>3
  <2>3. (parts \o <<Head(ready)>>) \o Tail(ready) = parts \o (<<Head(ready)>> \o Tail(ready))
    <3>1. <<Head(ready)>> \in Seq(Sentence)
      BY <1>3
    <3>. QED
      BY <1>2, <1>3, <3>1, ConcatAssociative
  <2>. QED
    BY <1>1, <2>1, <2>2, <2>3
<1>6. ReplyTypeOK'
  BY <1>1, <1>3, <1>4 DEF ReplyInv, ReplyTypeOK
<1>7. StageInv'
  BY <1>1, <1>2 DEF ReplyInv, StageInv
<1>8. Yielded' = Yielded /\ TextEnds' = TextEnds /\ WholeAnswer' = WholeAnswer
  BY <1>1, <1>5 DEF Yielded, TextEnds, WholeAnswer
<1>9. CuttingInv'
  <2>1. Joined(Yielded)'
    BY <1>1, <1>8 DEF ReplyInv, CuttingInv, Joined
  <2>2. Reading => Reading'
    BY <1>1, <1>8 DEF Reading, CutUpTo
  <2>3. Read => Read'
    BY <1>1, <1>2, <1>8 DEF Read
  <2>. QED
    BY <2>1, <2>2, <2>3 DEF ReplyInv, CuttingInv
<1>10. VoicesInv'
  <2>1. Len(parts) = Len(voices)
    BY <1>1 DEF ReplyInv, VoicesInv
  <2>. QED
    BY <1>1, <1>2, <1>4, <2>1, VoicesFrame DEF ReplyInv
<1>. QED
  BY <1>6, <1>7, <1>9, <1>10 DEF ReplyInv

\* Once the synthesis in hand has settled, its clip, if there is one, comes last.
LEMMA DrainedFacts ==
    ASSUME ReplyInv, Settled
    PROVE  /\ Drained \in Seq(Nat)
           /\ \A j, k \in 1..Len(Drained) : j < k => Drained[j] < Drained[k]
           /\ \A k \in 1..Len(Drained) : Drained[k] \in 1..Len(voices) /\ voices[Drained[k]] = "spoken"
           /\ \A i \in 1..Len(voices) : voices[i] = "spoken" => \E k \in 1..Len(Drained) : Drained[k] = i
           /\ \A i \in 1..Len(voices) : voices[i] # "running"
<1>1. /\ clips \in Seq(Nat) /\ Len(clips) \in Nat /\ pending \in Nat /\ Len(voices) \in Nat
      /\ pending \in {0, Len(voices)}
      /\ \A i \in 1..Len(voices) : voices[i] = "running" => i = pending
      /\ \A j, k \in 1..Len(clips) : j < k => clips[j] < clips[k]
      /\ \A k \in 1..Len(clips) : clips[k] \in 1..Len(voices) /\ clips[k] # pending /\ voices[clips[k]] = "spoken"
      /\ \A i \in 1..Len(voices) : voices[i] = "spoken" /\ i # pending => \E k \in 1..Len(clips) : clips[k] = i
  <2>1. clips \in Seq(Nat) /\ pending \in Nat /\ voices \in Seq({"running", "none", "spoken", "silent", "cancelled"})
    BY DEF ReplyInv, ReplyTypeOK
  <2>2. Len(clips) \in Nat /\ Len(voices) \in Nat
    BY <2>1
  <2>. QED
    BY <2>1, <2>2 DEF ReplyInv, VoicesInv
<1>2. \A i \in 1..Len(voices) : voices[i] # "running"
  BY <1>1 DEF Settled
<1>3. CASE ~(pending # 0 /\ voices[pending] = "spoken")
  <2>1. Drained = clips
    BY <1>3 DEF Drained
  <2>2. \A i \in 1..Len(voices) : voices[i] = "spoken" => i # pending
    BY <1>1, <1>3
  <2>. QED
    BY <1>1, <1>2, <2>1, <2>2
<1>4. CASE pending # 0 /\ voices[pending] = "spoken"
  <2>1. PICK d : d = Append(clips, pending)
    OBVIOUS
  <2>2. Drained = d
    BY <1>4, <2>1 DEF Drained
  <2>3. PICK m \in Nat : m = Len(clips)
    BY <1>1
  <2>4. d \in Seq(Nat) /\ Len(d) = m + 1 /\ (\A k \in 1..m : d[k] = clips[k]) /\ d[m + 1] = pending
    BY <1>1, <2>1, <2>3
  <2>5. pending = Len(voices) /\ pending \in 1..Len(voices)
    BY <1>1, <1>4
  <2>6. \A k \in 1..(m + 1) : k \in 1..m \/ k = m + 1
    BY <2>3
  <2>7. \A k \in 1..m : clips[k] \in Nat /\ clips[k] < pending
    BY <1>1, <2>3, <2>5
  <2>8. ASSUME NEW j \in 1..(m + 1), NEW k \in 1..(m + 1), j < k PROVE d[j] < d[k]
    <3>1. j \in 1..m
      BY <2>3, <2>8
    <3>2. CASE k \in 1..m
      BY <1>1, <2>3, <2>4, <2>8, <3>1, <3>2
    <3>3. CASE k = m + 1
      BY <2>4, <2>7, <3>1, <3>3
    <3>. QED
      BY <2>6, <3>2, <3>3
  <2>9. ASSUME NEW k \in 1..(m + 1) PROVE d[k] \in 1..Len(voices) /\ voices[d[k]] = "spoken"
    BY <1>1, <1>4, <2>3, <2>4, <2>5, <2>6
  <2>10. ASSUME NEW i \in 1..Len(voices), voices[i] = "spoken" PROVE \E k \in 1..(m + 1) : d[k] = i
    <3>1. CASE i = pending
      <4>1. m + 1 \in 1..(m + 1)
        BY <2>3
      <4>. QED
        BY <2>4, <3>1, <4>1
    <3>2. CASE i # pending
      <4>1. PICK k \in 1..m : clips[k] = i
        BY <1>1, <2>3, <2>10, <3>2
      <4>2. k \in 1..(m + 1)
        BY <2>3
      <4>. QED
        BY <2>4, <4>1, <4>2
    <3>. QED
      BY <3>1, <3>2
  <2>. QED
    BY <1>2, <2>2, <2>4, <2>8, <2>9, <2>10
<1>. QED
  BY <1>3, <1>4

\* There is a number of voices.
LEMMA VoicesCount == ASSUME ReplyInv PROVE Len(voices) \in Nat
<1>1. voices \in Seq({"running", "none", "spoken", "silent", "cancelled"})
  BY DEF ReplyInv, ReplyTypeOK
<1>. QED
  BY <1>1

\* The next sentence is spoken once the clip of the last one is sent.
LEMMA NextKeeps ==
    ASSUME ReplyInv, NEW spoken \in BOOLEAN, NEW corrected \in BOOLEAN, NextSentence(spoken, corrected)
    PROVE  ReplyInv'
<1>1. /\ UNCHANGED <<answerer, answer, heard, cut, ready, elapsed, limit, parts, saved, cause>>
      /\ turnStep = "audio" /\ Settled /\ clips' = Drained
      /\ pending' = IF spoken THEN Len(parts) ELSE 0
      /\ voices' = Append(voices, IF spoken THEN "running" ELSE "none")
      /\ correction' = IF correction = "none" /\ corrected THEN "running" ELSE correction
      /\ turnStep' = IF ready = <<>> /\ cut = Len(answer) THEN "lastAudio" ELSE "stream"
  BY DEF NextSentence, chainVars
<1>2. cause = "none" /\ saved = NotSaved /\ Len(parts) = Len(voices) + 1
  BY <1>1 DEF ReplyInv, StageInv, VoicesInv
<1>3. /\ voices \in Seq({"running", "none", "spoken", "silent", "cancelled"}) /\ Len(voices) \in Nat
      /\ parts \in Seq(Sentence) /\ ready \in Seq(Sentence) /\ answer \in Seq(TokenKinds)
  BY VoicesCount DEF ReplyInv, ReplyTypeOK
<1>4. /\ Drained \in Seq(Nat)
      /\ \A j, k \in 1..Len(Drained) : j < k => Drained[j] < Drained[k]
      /\ \A k \in 1..Len(Drained) : Drained[k] \in 1..Len(voices) /\ voices[Drained[k]] = "spoken"
      /\ \A i \in 1..Len(voices) : voices[i] = "spoken" => \E k \in 1..Len(Drained) : Drained[k] = i
      /\ \A i \in 1..Len(voices) : voices[i] # "running"
  BY <1>1, DrainedFacts
<1>5. PICK v \in {"running", "none"} : v = IF spoken THEN "running" ELSE "none"
  OBVIOUS
<1>6. PICK m \in Nat : m = Len(voices)
  BY <1>3
<1>7. /\ voices' \in Seq({"running", "none", "spoken", "silent", "cancelled"}) /\ Len(voices') = m + 1
      /\ (\A i \in 1..m : voices'[i] = voices[i]) /\ voices'[m + 1] = v
      /\ \A i \in 1..(m + 1) : i \in 1..m \/ i = m + 1
  BY <1>1, <1>3, <1>5, <1>6
<1>8. ReplyTypeOK'
  <2>1. pending' \in Nat
    BY <1>1, <1>2, <1>6
  <2>2. correction' \in {"none", "running", "done", "cancelled"}
    BY <1>1 DEF ReplyInv, ReplyTypeOK
  <2>. QED
    BY <1>1, <1>4, <1>7, <2>1, <2>2 DEF ReplyInv, ReplyTypeOK
<1>9. StageInv'
  BY <1>1, <1>2 DEF ReplyInv, StageInv
<1>10. CuttingInv'
  <2>1. CASE Read
    <3>1. turnStep' = "stream" => ready # <<>>
      BY <1>1, <2>1 DEF Read
    <3>2. turnStep' \notin {"try", "partial"} /\ cause' # "done"
      BY <1>1, <1>2
    <3>. QED
      BY <1>1, <2>1, <3>1, <3>2, CuttingFrame DEF ReplyInv, CuttingInv
  <2>2. CASE Reading
    <3>1. ASSUME ready = <<>>, cut = Len(answer) PROVE FALSE
      <4>1. Yielded = parts
        BY <1>3, <3>1, ConcatEmptySeq DEF Yielded
      <4>2. parts # <<>> /\ Len(parts) \in 1..Len(parts)
        BY <1>2, <1>3
      <4>3. parts[Len(parts)][3] \in TextEnds /\ cut = parts[Len(parts)][3]
        BY <2>2, <4>1, <4>2 DEF Reading, CutUpTo
      <4>4. \A e \in TextEnds : e < Len(answer) /\ e \in Nat
        BY <1>3 DEF TextEnds, SentenceEnd
      <4>. QED
        BY <3>1, <4>3, <4>4
    <3>2. turnStep' = "stream"
      BY <1>1, <3>1
    <3>. QED
      BY <1>1, <1>2, <2>2, <3>2, CuttingFrame DEF ReplyInv, CuttingInv
  <2>. QED
    BY <2>1, <2>2 DEF ReplyInv, CuttingInv
<1>11. VoicesInv'
  <2>1. pending' = IF v = "running" THEN m + 1 ELSE 0
    BY <1>1, <1>2, <1>5, <1>6
  <2>2. Len(parts') = Len(voices') /\ turnStep' \in {"lastAudio", "stream"} /\ cause' = "none"
    BY <1>1, <1>2, <1>6, <1>7
  <2>3. pending' \in {0, Len(voices')}
    BY <1>7, <2>1
  <2>4. \A i \in 1..Len(voices') : voices'[i] = "running" => i = pending'
    BY <1>4, <1>6, <1>7, <2>1
  <2>5. ASSUME NEW k \in 1..Len(Drained)
        PROVE  Drained[k] \in 1..Len(voices') /\ Drained[k] # pending' /\ voices'[Drained[k]] = "spoken"
    <3>1. Drained[k] \in 1..m /\ voices[Drained[k]] = "spoken"
      BY <1>4, <1>6
    <3>2. Drained[k] \in 1..(m + 1) /\ Drained[k] # m + 1 /\ Drained[k] # 0
      BY <1>6, <3>1
    <3>. QED
      BY <1>7, <2>1, <3>1, <3>2
  <2>6. \A i \in 1..Len(voices') : voices'[i] = "spoken" /\ i # pending' => \E k \in 1..Len(Drained) : Drained[k] = i
    BY <1>4, <1>5, <1>6, <1>7
  <2>. QED
    BY <1>1, <1>4, <2>2, <2>3, <2>4, <2>5, <2>6 DEF VoicesInv
<1>. QED
  BY <1>8, <1>9, <1>10, <1>11 DEF ReplyInv

\* The last clip is sent before the reply is saved.
LEMMA LastKeeps == ASSUME ReplyInv, LastAudio PROVE ReplyInv'
<1>1. /\ UNCHANGED <<answerer, answer, heard, cut, ready, elapsed, limit, parts, saved, cause, voices, correction>>
      /\ turnStep = "lastAudio" /\ Settled /\ clips' = Drained /\ pending' = 0 /\ turnStep' = "persist"
  BY DEF LastAudio, chainVars
<1>2. cause = "none" /\ Len(parts) = Len(voices) /\ ready = <<>>
  BY <1>1 DEF ReplyInv, StageInv, VoicesInv
<1>3. /\ Drained \in Seq(Nat)
      /\ \A j, k \in 1..Len(Drained) : j < k => Drained[j] < Drained[k]
      /\ \A k \in 1..Len(Drained) : Drained[k] \in 1..Len(voices) /\ voices[Drained[k]] = "spoken"
      /\ \A i \in 1..Len(voices) : voices[i] = "spoken" => \E k \in 1..Len(Drained) : Drained[k] = i
      /\ \A i \in 1..Len(voices) : voices[i] # "running"
  BY <1>1, DrainedFacts
<1>4. ReplyTypeOK'
  BY <1>1, <1>3 DEF ReplyInv, ReplyTypeOK
<1>5. StageInv'
  BY <1>1, <1>2 DEF ReplyInv, StageInv
<1>6. CuttingInv'
  <2>1. Read
    BY <1>1 DEF ReplyInv, CuttingInv, Reading
  <2>. QED
    BY <1>1, <1>2, <2>1, CuttingFrame DEF ReplyInv, CuttingInv
<1>7. VoicesInv'
  <2>1. \A k \in 1..Len(Drained) : Drained[k] # 0
    <3>1. Len(voices) \in Nat
      BY VoicesCount
    <3>. QED
      BY <1>3, <3>1
  <2>. QED
    BY <1>1, <1>2, <1>3, <2>1 DEF VoicesInv
<1>. QED
  BY <1>4, <1>5, <1>6, <1>7 DEF ReplyInv

\* A background synthesis ends; it is the one in hand.
LEMMA SynthesizedKeeps ==
    ASSUME ReplyInv, NEW state \in {"spoken", "silent"}, Synthesized(state)
    PROVE  ReplyInv'
<1>1. /\ UNCHANGED <<answerer, answer, heard, cut, ready, elapsed, limit, clips, pending, correction, turnStep,
                     parts, saved, cause>>
      /\ pending # 0 /\ voices[pending] = "running" /\ voices' = [voices EXCEPT ![pending] = state]
  BY DEF Synthesized, chainVars
<1>2. voices \in Seq({"running", "none", "spoken", "silent", "cancelled"}) /\ Len(voices) \in Nat /\ pending \in Nat
  BY VoicesCount DEF ReplyInv, ReplyTypeOK
<1>3. pending \in 1..Len(voices)
  BY <1>1, <1>2 DEF ReplyInv, VoicesInv
<1>4. /\ voices' \in Seq({"running", "none", "spoken", "silent", "cancelled"}) /\ Len(voices') = Len(voices)
      /\ \A i \in 1..Len(voices) : voices'[i] = IF i = pending THEN state ELSE voices[i]
  BY <1>1, <1>2, <1>3
<1>5. ReplyTypeOK' /\ StageInv'
  BY <1>1, <1>4 DEF ReplyInv, ReplyTypeOK, StageInv
<1>6. CuttingInv'
  BY <1>1, CuttingFrame DEF ReplyInv, CuttingInv, Reading, Read
<1>7. VoicesInv'
  <2>1. VoicesInv
    BY DEF ReplyInv
  <2>2. turnStep # "ended"
    BY <1>1, <1>3, <2>1 DEF VoicesInv
  <2>3. \A i \in 1..Len(voices') : voices'[i] = "running" => i = pending'
    BY <1>1, <1>4, <2>1 DEF VoicesInv
  <2>4. \A k \in 1..Len(clips') : clips'[k] \in 1..Len(voices') /\ clips'[k] # pending' /\ voices'[clips'[k]] = "spoken"
    BY <1>1, <1>4, <2>1 DEF VoicesInv
  <2>5. \A i \in 1..Len(voices') : voices'[i] = "spoken" /\ i # pending' => \E k \in 1..Len(clips') : clips'[k] = i
    BY <1>1, <1>4, <2>1 DEF VoicesInv
  <2>. QED
    BY <1>1, <1>4, <2>1, <2>2, <2>3, <2>4, <2>5 DEF VoicesInv
<1>. QED
  BY <1>5, <1>6, <1>7 DEF ReplyInv

\* The corrector's task ends.
LEMMA CorrectedKeeps == ASSUME ReplyInv, Corrected PROVE ReplyInv'
<1>1. /\ UNCHANGED <<answerer, answer, heard, cut, ready, elapsed, limit, clips, pending, voices, turnStep,
                     parts, saved, cause>>
      /\ correction = "running" /\ correction' = "done"
  BY DEF Corrected, chainVars
<1>2. ReplyTypeOK' /\ StageInv'
  BY <1>1 DEF ReplyInv, ReplyTypeOK, StageInv
<1>3. CuttingInv'
  BY <1>1, CuttingFrame DEF ReplyInv, CuttingInv, Reading, Read
<1>4. VoicesInv'
  BY <1>1 DEF ReplyInv, VoicesInv
<1>. QED
  BY <1>2, <1>3, <1>4 DEF ReplyInv

\* What is saved is what was sent, of a whole reply or of a part.
LEMMA SaveKeeps ==
    ASSUME ReplyInv, NEW ok \in BOOLEAN, SaveReply(ok) \/ SavePartial(ok)
    PROVE  ReplyInv'
<1>1. UNCHANGED <<answerer, answer, heard, cut, ready, elapsed, limit, clips, pending, voices, correction, parts>>
      /\ saved' = (IF ok THEN parts ELSE saved)
  BY DEF SaveReply, SavePartial, chainVars, taskVars
<1>2. CASE SaveReply(ok)
  <2>1. turnStep = "persist" /\ turnStep' = "correct" /\ cause' = cause
    BY <1>2 DEF SaveReply
  <2>2. ReplyTypeOK' /\ StageInv'
    BY <1>1, <2>1 DEF ReplyInv, ReplyTypeOK, StageInv
  <2>3. Read /\ cause = "none" /\ ready = <<>>
    BY <2>1 DEF ReplyInv, CuttingInv, Reading, StageInv
  <2>4. CuttingInv'
    BY <1>1, <2>1, <2>3, CuttingFrame DEF ReplyInv, CuttingInv
  <2>5. VoicesInv'
    BY <1>1, <2>1, VoicesFrame DEF ReplyInv, VoicesInv
  <2>. QED
    BY <2>2, <2>4, <2>5 DEF ReplyInv
<1>3. CASE SavePartial(ok)
  <2>1. turnStep = "partial" /\ turnStep' = "finally" /\ cause' = "provider failed"
    BY <1>3 DEF SavePartial
  <2>2. ReplyTypeOK' /\ StageInv'
    BY <1>1, <2>1 DEF ReplyInv, ReplyTypeOK, StageInv
  <2>3. Reading
    BY <2>1 DEF ReplyInv, CuttingInv, Read
  <2>4. CuttingInv'
    BY <1>1, <2>1, <2>3, CuttingFrame DEF ReplyInv, CuttingInv
  <2>5. VoicesInv'
    BY <1>1, <2>1, VoicesFrame DEF ReplyInv
  <2>. QED
    BY <2>2, <2>4, <2>5 DEF ReplyInv
<1>. QED
  BY <1>2, <1>3

\* The stream comes to its end, by itself or because the client left.
LEMMA EndingKeeps == ASSUME ReplyInv, SendCorrection \/ ClientLeaves PROVE ReplyInv'
<1>1. UNCHANGED <<answerer, answer, heard, cut, ready, elapsed, limit, clips, pending, voices, correction, parts, saved>>
      /\ turnStep' = "finally"
  BY DEF SendCorrection, ClientLeaves, chainVars, taskVars
<1>2. CASE SendCorrection
  <2>1. turnStep = "correct" /\ cause' = "done"
    BY <1>2 DEF SendCorrection
  <2>2. ReplyTypeOK' /\ StageInv'
    BY <1>1, <2>1 DEF ReplyInv, ReplyTypeOK, StageInv
  <2>3. Read /\ ready = <<>>
    BY <2>1 DEF ReplyInv, CuttingInv, Reading, StageInv
  <2>4. CuttingInv'
    BY <1>1, <2>1, <2>3, CuttingFrame DEF ReplyInv, CuttingInv
  <2>5. VoicesInv'
    BY <1>1, <2>1, VoicesFrame DEF ReplyInv, VoicesInv
  <2>. QED
    BY <2>2, <2>4, <2>5 DEF ReplyInv
<1>3. CASE ClientLeaves
  <2>1. turnStep \notin {"finally", "ended"} /\ cause' = "left"
    BY <1>3 DEF ClientLeaves
  <2>2. ReplyTypeOK' /\ StageInv'
    BY <1>1, <2>1 DEF ReplyInv, ReplyTypeOK, StageInv
  <2>4. CuttingInv'
    BY <1>1, <2>1, CuttingFrame DEF ReplyInv, CuttingInv
  <2>5. VoicesInv'
    BY <1>1, <2>1, VoicesFrame DEF ReplyInv
  <2>. QED
    BY <2>2, <2>4, <2>5 DEF ReplyInv
<1>. QED
  BY <1>2, <1>3

\* The finally block cancels what still runs: the correction and the synthesis in hand.
LEMMA FinallyKeeps == ASSUME ReplyInv, Finally PROVE ReplyInv'
<1>1. /\ UNCHANGED <<answerer, answer, heard, cut, ready, elapsed, limit, clips, pending, parts, saved, cause>>
      /\ turnStep = "finally" /\ turnStep' = "ended"
      /\ correction' = (IF correction = "running" THEN "cancelled" ELSE correction)
      /\ voices' = IF pending = 0 THEN voices ELSE [voices EXCEPT ![pending] = Cancelled(@)]
  BY DEF Finally, chainVars, Cancelled
<1>2. voices \in Seq({"running", "none", "spoken", "silent", "cancelled"}) /\ Len(voices) \in Nat /\ pending \in Nat
  BY VoicesCount DEF ReplyInv, ReplyTypeOK
<1>3. pending # 0 => pending \in 1..Len(voices)
  BY <1>2 DEF ReplyInv, VoicesInv
<1>4. \A i \in 1..Len(voices) : voices[i] \in {"running", "none", "spoken", "silent", "cancelled"}
  BY <1>2
<1>5. /\ voices' \in Seq({"running", "none", "spoken", "silent", "cancelled"}) /\ Len(voices') = Len(voices)
      /\ \A i \in 1..Len(voices) : voices'[i] = IF i = pending THEN Cancelled(voices[i]) ELSE voices[i]
  <2>1. CASE pending = 0
    BY <1>1, <1>2, <2>1
  <2>2. CASE pending # 0
    <3>1. PICK w : w = Cancelled(voices[pending])
      OBVIOUS
    <3>2. w \in {"none", "spoken", "silent", "cancelled"}
      BY <1>3, <1>4, <2>2, <3>1 DEF Cancelled
    <3>3. voices' = [voices EXCEPT ![pending] = w]
      BY <1>1, <2>2, <3>1
    <3>. QED
      BY <1>2, <1>3, <2>2, <3>1, <3>2, <3>3
  <2>. QED
    BY <2>1, <2>2
<1>6. \A i \in 1..Len(voices) : voices'[i] # "running" /\ (voices'[i] = "spoken" <=> voices[i] = "spoken")
  <2>1. \A i \in 1..Len(voices) : voices[i] = "running" => i = pending
    BY DEF ReplyInv, VoicesInv
  <2>. QED
    BY <1>5, <2>1 DEF Cancelled
<1>7. ReplyTypeOK' /\ StageInv'
  BY <1>1, <1>5 DEF ReplyInv, ReplyTypeOK, StageInv
<1>8. CuttingInv'
  BY <1>1, CuttingFrame DEF ReplyInv, CuttingInv, Reading, Read
<1>9. VoicesInv'
  BY <1>1, <1>5, <1>6 DEF ReplyInv, VoicesInv
<1>. QED
  BY <1>7, <1>8, <1>9 DEF ReplyInv

----------------------------------------------------------------------------
(* Theorems                                                                *)

\* Every step of the chain, of stream_prepared and of its tasks keeps the invariant.
LEMMA ReplySteps == ASSUME ReplyInv, [ReplyNext]_replyVars PROVE ReplyInv'
<1>1. CASE UNCHANGED replyVars
  <2>1. UNCHANGED <<answerer, answer, heard, cut, ready, elapsed, limit, clips, pending, voices, correction,
                    turnStep, parts, saved, cause>>
    BY <1>1 DEF replyVars, chainVars, taskVars
  <2>2. ReplyTypeOK' /\ StageInv'
    BY <2>1 DEF ReplyInv, ReplyTypeOK, StageInv
  <2>3. CuttingInv'
    BY <2>1, CuttingFrame DEF ReplyInv, CuttingInv, Reading, Read
  <2>4. VoicesInv'
    BY <2>1 DEF ReplyInv, VoicesInv
  <2>. QED
    BY <2>2, <2>3, <2>4 DEF ReplyInv
<1>2. CASE TryProvider \/ AllFailed \/ StreamEnds \/ Tick
  BY <1>2, TryKeeps, AllFailedKeeps, EndKeeps, TickKeeps
<1>3. CASE ProviderFails \/ FirstSentenceLate
  BY <1>3, FailureKeeps DEF ProviderFails, FirstSentenceLate
<1>4. CASE \E n \in 1..2 : Delta(n)
  BY <1>4, DeltaKeeps
<1>5. CASE SendSentence \/ LastAudio \/ Corrected \/ SendCorrection \/ ClientLeaves \/ Finally
  BY <1>5, SendKeeps, LastKeeps, CorrectedKeeps, EndingKeeps, FinallyKeeps
<1>6. CASE \E spoken, corrected \in BOOLEAN : NextSentence(spoken, corrected)
  BY <1>6, NextKeeps
<1>7. CASE \E state \in {"spoken", "silent"} : Synthesized(state)
  BY <1>7, SynthesizedKeeps
<1>8. CASE \E ok \in BOOLEAN : SaveReply(ok) \/ SavePartial(ok)
  BY <1>8, SaveKeeps
<1>. QED
  BY <1>1, <1>2, <1>3, <1>4, <1>5, <1>6, <1>7, <1>8 DEF ReplyNext

\* The state of the chain, of the splitting, of the reply and of its tasks stays well typed.
THEOREM ReplyTypeCorrect == ReplySpec => []ReplyTypeOK
BY ReplyStart, ReplySteps, PTL DEF ReplySpec, ReplyInv

\* Whatever the chain falls back on, wherever the network cuts the deltas and whoever
\* fails or leaves, the learner hears one provider's answer from its beginning, what is
\* saved is what was heard, a full reply is the text split as a whole, and the first
\* sentence or the failure is there at the deadline (fallback.py, deepseek.py).
THEOREM ReplyStaysOneAnswer == ReplySpec => []ReplyIsOneAnswer
<1>1. ReplyInv => ReplyIsOneAnswer
  <2>. SUFFICES ASSUME ReplyInv PROVE ReplyIsOneAnswer
    OBVIOUS
  <2>1. parts \in Seq(Sentence) /\ ready \in Seq(Sentence) /\ elapsed \in 0..Deadline /\ Deadline \in Nat
    BY ReplyAssumption DEF ReplyInv, ReplyTypeOK
  <2>2. PICK m \in Nat : m = Len(parts)
    BY <2>1
  <2>3. m <= Len(Yielded) /\ Len(Yielded) \in Nat /\ \A i \in 1..m : Yielded[i] = parts[i]
    <3>1. Len(Yielded) = Len(parts) + Len(ready) /\ Len(ready) \in Nat
      BY <2>1, ConcatProperties DEF Yielded
    <3>2. \A i \in 1..m : Yielded[i] = parts[i]
      BY <2>1, <2>2, ConcatProperties DEF Yielded
    <3>. QED
      BY <2>2, <3>1, <3>2
  <2>4. ASSUME NEW i \in 1..m
        PROVE  parts[i][1] = answerer /\ parts[i][2] = IF i = 1 THEN 0 ELSE parts[i - 1][3]
    <3>1. i \in 1..Len(Yielded) /\ (i # 1 => i - 1 \in 1..m)
      BY <2>2, <2>3
    <3>2. Yielded[i][1] = answerer /\ Yielded[i][2] = IF i = 1 THEN 0 ELSE Yielded[i - 1][3]
      BY <3>1 DEF ReplyInv, CuttingInv, Joined
    <3>. QED
      BY <2>3, <3>1, <3>2
  <2>5. OneVoice
    <3>1. \A i \in 1..m : 1 \in 1..m
      BY <2>2
    <3>. QED
      BY <2>2, <2>4, <3>1 DEF OneVoice
  <2>6. cause = "done" => parts = WholeAnswer
    <3>. SUFFICES ASSUME cause = "done" PROVE parts = WholeAnswer
      OBVIOUS
    <3>1. Yielded = WholeAnswer /\ ready = <<>>
      BY DEF ReplyInv, CuttingInv, Reading, Read
    <3>. QED
      BY <2>1, <3>1, ConcatEmptySeq DEF Yielded
  <2>7. elapsed <= Deadline
    BY <2>1
  <2>. QED
    BY <2>5, <2>6, <2>7 DEF ReplyIsOneAnswer, ReplyInv, StageInv
<1>. QED
  BY <1>1, ReplyStart, ReplySteps, PTL DEF ReplySpec

\* A full reply has sent the clip of every sentence that was spoken, in order; and when
\* a stream is over, however it ended, no synthesis and no correction goes on (stream_prepared).
THEOREM VoiceKeepsUp == ReplySpec => []VoiceFollowsText
<1>1. ReplyInv => VoiceFollowsText
  <2>. SUFFICES ASSUME ReplyInv PROVE VoiceFollowsText
    OBVIOUS
  <2>1. clips \in Seq(Nat) /\ Len(voices) \in Nat
    BY VoicesCount DEF ReplyInv, ReplyTypeOK
  <2>2. ASSUME cause = "done" PROVE clips = Ascending({i \in 1..Len(voices) : voices[i] = "spoken"})
    <3>1. PICK S : S = {i \in 1..Len(voices) : voices[i] = "spoken"}
      OBVIOUS
    <3>2. S \in SUBSET Nat /\ S \in SUBSET (1..Len(voices))
      BY <2>1, <3>1
    <3>3. IsFiniteSet(1..Len(voices))
      BY <2>1, FS_Interval
    <3>4. IsFiniteSet(S)
      BY <3>2, <3>3, FS_Subset
    <3>5. /\ pending = 0
          /\ \A j, k \in 1..Len(clips) : j < k => clips[j] < clips[k]
          /\ \A k \in 1..Len(clips) : clips[k] \in S
      BY <2>2, <3>1 DEF ReplyInv, VoicesInv
    <3>6. \A i \in S : \E k \in 1..Len(clips) : clips[k] = i
      <4>1. \A i \in S : i # 0 /\ i \in 1..Len(voices) /\ voices[i] = "spoken"
        BY <2>1, <3>1
      <4>. QED
        BY <3>5, <4>1 DEF ReplyInv, VoicesInv
    <3>7. clips \in Seq(S)
      BY <2>1, <3>5
    <3>8. clips = Ascending(S)
      BY <3>2, <3>4, <3>5, <3>6, <3>7, AscendingUnique
    <3>. QED
      BY <3>1, <3>8
  <2>. QED
    BY <2>2 DEF VoiceFollowsText, ReplyInv, VoicesInv
<1>. QED
  BY <1>1, ReplyStart, ReplySteps, PTL DEF ReplySpec
=============================================================================
