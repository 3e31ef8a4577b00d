------------------------- MODULE OfflineReplayProofs -------------------------
(***************************************************************************)
(* Proofs about OfflineReplay for any learners, sessions and turns.        *)
(***************************************************************************)
EXTENDS OfflineReplay, TLAPS

----------------------------------------------------------------------------
(* The inductive invariant                                                 *)

Settled(t) == server[t] = "saved" \/ dropped[t] # "no"
SyncOps == {"list", "remove", "countSync"}
CallsOf(ops) == {i \in DOMAIN chain : chain[i].op \in ops}

\* A view model lives no longer than the login of its learner.
MountedInv ==
  \A t \in mounted : scope = UserOf(t) /\ auth \in {"settled", "revoking", "stranded"}

\* An enqueue that waits for the lock was called in the login that still lasts, once.
EnqueueInv ==
  \A i \in CallsOf({"enqueue"}) :
    /\ scope = UserOf(chain[i].turn)
    /\ live[chain[i].turn] = "recording"
    /\ auth \notin {"restoring", "purged"}
    /\ \A j \in CallsOf({"enqueue"}) : chain[j].turn = chain[i].turn => j = i

\* The purge of a logout comes after every enqueue of its login.
PurgeInv ==
  \A i \in CallsOf({"purge"}) :
    /\ auth = "purging"
    /\ \A j \in CallsOf({"enqueue"}) : j < i
    /\ \A j \in CallsOf({"purge"}) : j = i

\* The replay waits for at most one operation of the queue.
Awaited(o) ==
  \/ o.op = "list" /\ sync.pc = "list"
  \/ /\ o.op = "remove" /\ sync.pc = "removing"
     /\ o.turn = Head(sync.todo) /\ Settled(o.turn)
  \/ o.op = "countSync" /\ sync.pc = "count"
SyncCallInv ==
  /\ sync.pc \in {"sent", "removing"} => sync.todo # << >>
  /\ \A i \in CallsOf(SyncOps) :
       Awaited(chain[i]) /\ \A j \in CallsOf(SyncOps) : j = i

\* A turn is queued once, in the queue of its learner; the replay works on queued turns.
QueueInv ==
  /\ \A u \in Users : \A i \in DOMAIN queue[u] :
       /\ UserOf(queue[u][i]) = u
       /\ live[queue[u][i]] = "queued"
       /\ \A j \in DOMAIN queue[u] : queue[u][j] = queue[u][i] => j = i
  /\ \A k \in DOMAIN sync.todo : live[sync.todo[k]] = "queued"

\* What stands before a turn still to be replayed is settled or will be replayed first.
OrderInv ==
  \A u \in Users : \A k \in DOMAIN sync.todo : \A i, j \in DOMAIN queue[u] :
    i < j /\ queue[u][j] = sync.todo[k] =>
      Settled(queue[u][i]) \/ \E m \in DOMAIN sync.todo : m < k /\ sync.todo[m] = queue[u][i]

ReplayInv == /\ TypeOK /\ MountedInv /\ EnqueueInv /\ PurgeInv /\ SyncCallInv
             /\ QueueInv /\ OrderInv /\ QueuedUntilSettled

----------------------------------------------------------------------------
(* The state of the replay, field by field                                 *)

SyncPcs == {"idle", "list", "next", "sent", "removing", "count"}
SyncState == [pc : SyncPcs, todo : Seq(Turns), same : BOOLEAN, by : Users \cup {None}]

\* A replay that has not started is a state of the replay.
LEMMA IdleSyncType ==
  /\ IdleSync \in SyncState
  /\ IdleSync.pc = "idle" /\ IdleSync.todo = << >>
BY DEF IdleSync, SyncState, SyncPcs

\* A step of the replay that only moves its control leaves its list alone.
LEMMA MovePc ==
  ASSUME NEW s \in SyncState, NEW p \in SyncPcs
  PROVE  LET r == [s EXCEPT !.pc = p]
         IN  r \in SyncState /\ r.pc = p /\ r.todo = s.todo
BY DEF SyncState

\* A step that takes a new list: the listing, or the turn at the head is done.
LEMMA MoveTodo ==
  ASSUME NEW s \in SyncState, NEW p \in SyncPcs, NEW q \in Seq(Turns)
  PROVE  LET r == [s EXCEPT !.pc = p, !.todo = q]
         IN  r \in SyncState /\ r.pc = p /\ r.todo = q
<1>1. [s EXCEPT !.pc = p] \in SyncState
  BY MovePc
<1>2. [[s EXCEPT !.pc = p] EXCEPT !.todo = q] \in SyncState
  BY <1>1 DEF SyncState
<1>3. [[s EXCEPT !.pc = p] EXCEPT !.todo = q] = [s EXCEPT !.pc = p, !.todo = q]
  BY DEF SyncState
<1>4. [s EXCEPT !.pc = p, !.todo = q].pc = p /\ [s EXCEPT !.pc = p, !.todo = q].todo = q
  BY DEF SyncState
<1>. QED
  BY <1>2, <1>3, <1>4

\* A request is sent again with another token.
LEMMA MoveBy ==
  ASSUME NEW s \in SyncState, NEW u \in Users \cup {None}
  PROVE  LET r == [s EXCEPT !.by = u]
         IN  r \in SyncState /\ r.pc = s.pc /\ r.todo = s.todo
BY DEF SyncState

\* A request is sent with the token that is stored.
LEMMA SendBy ==
  ASSUME NEW s \in SyncState, NEW p \in SyncPcs, NEW u \in Users \cup {None}
  PROVE  LET r == [s EXCEPT !.pc = p, !.by = u]
         IN  r \in SyncState /\ r.pc = p /\ r.todo = s.todo
<1>1. [s EXCEPT !.pc = p] \in SyncState
  BY MovePc
<1>2. [[s EXCEPT !.pc = p] EXCEPT !.by = u] \in SyncState
  BY <1>1, MoveBy
<1>3. [[s EXCEPT !.pc = p] EXCEPT !.by = u] = [s EXCEPT !.pc = p, !.by = u]
  BY DEF SyncState
<1>4. [s EXCEPT !.pc = p, !.by = u].pc = p /\ [s EXCEPT !.pc = p, !.by = u].todo = s.todo
  BY DEF SyncState
<1>. QED
  BY <1>2, <1>3, <1>4

\* A logout tells the running replay to stop, and touches nothing else of it.
LEMMA MoveSame ==
  ASSUME NEW s \in SyncState
  PROVE  LET r == [s EXCEPT !.same = FALSE]
         IN  r \in SyncState /\ r.pc = s.pc /\ r.todo = s.todo
BY DEF SyncState

\* The replay starts, or stops, with an empty list.
LEMMA EmptySync ==
  ASSUME NEW p \in SyncPcs
  PROVE  LET r == [IdleSync EXCEPT !.pc = p]
         IN  r \in SyncState /\ r.pc = p /\ r.todo = << >>
BY IdleSyncType, MovePc

----------------------------------------------------------------------------
(* The chain of the queue's operations, and the queue                      *)

\* An operation called is last; those before it keep their places.
LEMMA AppendFacts ==
  ASSUME NEW S, NEW q \in Seq(S), NEW e \in S
  PROVE  LET r == Append(q, e)
             n == Len(q) + 1
         IN  /\ r \in Seq(S) /\ n \in DOMAIN r /\ n \notin DOMAIN q /\ r[n] = e
             /\ DOMAIN q = 1 .. Len(q) /\ Len(q) \in Nat
             /\ \A i \in DOMAIN r : i = n \/ (i \in DOMAIN q /\ r[i] = q[i])
             /\ \A i \in DOMAIN q : i < n /\ i \in DOMAIN r /\ r[i] = q[i]
OBVIOUS

\* When the head has run, the others move up one place.
LEMMA TailFacts ==
  ASSUME NEW S, NEW q \in Seq(S), q # << >>
  PROVE  LET r == Tail(q)
         IN  /\ r \in Seq(S) /\ Head(q) = q[1] /\ 1 \in DOMAIN q /\ Head(q) \in S
             /\ DOMAIN r \subseteq Nat \ {0}
             /\ \A i \in DOMAIN r : i + 1 \in DOMAIN q /\ r[i] = q[i + 1]
             /\ \A i \in DOMAIN q : i # 1 => i - 1 \in DOMAIN r /\ r[i - 1] = q[i]
OBVIOUS

\* removeWhere of a key: the other turns stay, in their order.
LEMMA WithoutFacts ==
  ASSUME NEW q \in Seq(Turns), NEW t \in Turns
  PROVE  LET r == Without(q, t)
         IN  /\ r \in Seq(Turns)
             /\ \A x \in Items(q) : x = t \/ x \in Items(r)
             /\ \E at \in [DOMAIN r -> DOMAIN q] :
                  /\ \A i \in DOMAIN r : r[i] = q[at[i]]
                  /\ \A i, j \in DOMAIN r : i < j => at[i] < at[j]
<1> DEFINE r == Without(q, t)
<1>1. CASE t \notin Items(q)
  <2>1. r = q
    BY <1>1 DEF Without
  <2>2. [i \in DOMAIN q |-> i] \in [DOMAIN r -> DOMAIN q]
    BY <2>1
  <2>. QED
    BY <2>1, <2>2
<1>2. CASE t \in Items(q)
  <2> DEFINE k == CHOOSE j \in DOMAIN q : q[j] = t
  <2>1. k \in DOMAIN q /\ q[k] = t
    BY <1>2 DEF Items
  <2>2. r = SubSeq(q, 1, k - 1) \o SubSeq(q, k + 1, Len(q))
    BY <1>2 DEF Without
  <2> HIDE DEF k, r
  <2>3. k \in 1 .. Len(q) /\ Len(q) \in Nat
    BY <2>1
  <2> DEFINE a == SubSeq(q, 1, k - 1)
             b == SubSeq(q, k + 1, Len(q))
  <2>4. a \in Seq(Turns) /\ Len(a) = k - 1 /\ \A i \in 1 .. k - 1 : a[i] = q[i]
    BY <2>3
  <2>5. b \in Seq(Turns) /\ Len(b) = Len(q) - k /\ \A i \in 1 .. Len(q) - k : b[i] = q[i + k]
    BY <2>3
  <2>6. r \in Seq(Turns) /\ Len(r) = Len(q) - 1
        /\ \A i \in 1 .. Len(q) - 1 : r[i] = IF i < k THEN q[i] ELSE q[i + 1]
    <3> HIDE DEF a, b
    <3>0. r = a \o b
      BY <2>2 DEF a, b
    <3>1. r \in Seq(Turns) /\ Len(r) = Len(q) - 1
      BY <3>0, <2>4, <2>5, <2>3
    <3>2. ASSUME NEW i \in 1 .. Len(q) - 1 PROVE r[i] = IF i < k THEN q[i] ELSE q[i + 1]
      <4>1. CASE i < k
        BY <4>1, <3>0, <2>4, <2>5, <2>3
      <4>2. CASE ~(i < k)
        <5>1. r[i] = b[i - (k - 1)]
          BY <4>2, <3>0, <2>4, <2>5, <2>3
        <5>2. i - (k - 1) \in 1 .. Len(q) - k
          BY <4>2, <2>3
        <5>3. b[i - (k - 1)] = q[(i - (k - 1)) + k]
          BY <5>2, <2>5
        <5>4. (i - (k - 1)) + k = i + 1
          BY <2>3
        <5>. QED
          BY <5>1, <5>3, <5>4, <4>2
      <4>. QED
        BY <4>1, <4>2
    <3>. QED
      BY <3>1, <3>2
  <2>7. DOMAIN r = 1 .. Len(q) - 1 /\ DOMAIN q = 1 .. Len(q)
    BY <2>6
  <2> DEFINE at == [i \in DOMAIN r |-> IF i < k THEN i ELSE i + 1]
  <2>8. at \in [DOMAIN r -> DOMAIN q]
    BY <2>7, <2>3
  <2>9. \A i \in DOMAIN r : r[i] = q[at[i]]
    BY <2>6, <2>7
  <2>10. \A i, j \in DOMAIN r : i < j => at[i] < at[j]
    BY <2>7, <2>3
  <2>11. ASSUME NEW x \in Items(q) PROVE x = t \/ x \in Items(r)
    <3>1. PICK i \in DOMAIN q : q[i] = x
      BY DEF Items
    <3>2. CASE i = k
      BY <3>1, <3>2, <2>1
    <3>3. CASE i < k
      <4>1. i \in DOMAIN r /\ r[i] = q[i]
        BY <3>3, <2>6, <2>7, <2>3
      <4>. QED
        BY <4>1, <3>1 DEF Items
    <3>4. CASE i > k
      <4>1. i - 1 \in DOMAIN r /\ ~(i - 1 < k) /\ (i - 1) + 1 = i
        BY <3>4, <2>7, <2>3
      <4>2. r[i - 1] = q[i]
        BY <4>1, <2>6, <2>7
      <4>. QED
        BY <4>1, <4>2, <3>1 DEF Items
    <3>. QED
      BY <3>2, <3>3, <3>4, <2>3, <2>7
  <2> HIDE DEF at
  <2>. QED
    BY <2>6, <2>8, <2>9, <2>10, <2>11 DEF r
<1>. QED
  BY <1>1, <1>2

----------------------------------------------------------------------------
(* What a step that leaves a part of the state alone preserves             *)

\* The typing of the variables, named part by part.
LEMMA Types ==
  ASSUME TypeOK
  PROVE  /\ chain \in Seq(Operation) /\ sync \in SyncState /\ sync.todo \in Seq(Turns)
         /\ \A i \in DOMAIN chain : chain[i] \in Operation
         /\ \A k \in DOMAIN sync.todo : sync.todo[k] \in Turns
         /\ \A u \in Users : queue[u] \in Seq(Turns) /\ \A i \in DOMAIN queue[u] : queue[u][i] \in Turns
<1>1. sync \in SyncState
  BY DEF TypeOK, SyncState, SyncPcs
<1>2. sync.todo \in Seq(Turns)
  BY <1>1 DEF SyncState
<1>. QED
  BY <1>1, <1>2 DEF TypeOK

\* Each turn belongs to a learner, and no turn or learner is None.
LEMMA Owners ==
  /\ \A t \in Turns : UserOf(t) \in Users
  /\ None \notin Users /\ None \notin Turns
BY ConstantsAssumption DEF UserOf

\* An operation of the queue about a turn is about one that was spoken.
LEMMA TurnCalls ==
  ASSUME NEW o \in Operation
  PROVE  /\ o.op \in {"enqueue", "remove"} => o.turn \in Turns
         /\ o.op \in {"list", "purge", "countSync", "countRecord"} => o.turn = None
         /\ o.op \in {"enqueue", "remove", "list", "purge", "countSync", "countRecord"}
BY DEF Operation, TurnOps, OtherOps

\* A call of the queue, as a member of the chain.
LEMMA CallTypes ==
  /\ \A t \in Turns, p \in {"enqueue", "remove"} : [op |-> p, turn |-> t] \in Operation
  /\ \A p \in {"list", "purge", "countSync", "countRecord"} : [op |-> p, turn |-> None] \in Operation
BY DEF Operation, TurnOps, OtherOps

\* A step that leaves the queues alone, and settles turns but never unsettles one.
LEMMA QueueRests ==
  ASSUME TypeOK, QueueInv, OrderInv, QueuedUntilSettled, queue' = queue,
         sync'.todo = sync.todo \/ sync'.todo = << >>,
         \A t \in Turns : live'[t] = "queued" <=> live[t] = "queued",
         \A t \in Turns : Settled(t) => Settled(t)'
  PROVE  QueueInv' /\ OrderInv' /\ QueuedUntilSettled'
<1>1. /\ \A k \in DOMAIN sync.todo : sync.todo[k] \in Turns
      /\ \A u \in Users : \A i \in DOMAIN queue[u] : queue[u][i] \in Turns
  BY Types
<1>2. DOMAIN << >> = {}
  OBVIOUS
<1>3. QueueInv'
  BY <1>1, <1>2 DEF QueueInv
<1>4. OrderInv'
  BY <1>1, <1>2 DEF OrderInv
<1>5. QueuedUntilSettled'
  BY DEF QueuedUntilSettled, Queued, Settled
<1>. QED
  BY <1>3, <1>4, <1>5

\* A step that leaves the chain alone, or adds an operation of the replay to it.
LEMMA CallsStand ==
  ASSUME TypeOK, EnqueueInv, PurgeInv, scope' = scope, auth' = auth,
         \A t \in Turns : live[t] = "recording" => live'[t] = "recording",
         chain' = chain \/ \E c \in Operation : c.op \in SyncOps /\ chain' = Append(chain, c)
  PROVE  EnqueueInv' /\ PurgeInv'
<1>1. chain \in Seq(Operation) /\ \A i \in DOMAIN chain : chain[i] \in Operation
  BY Types
<1>2. \A i \in DOMAIN chain' : chain'[i].op \in SyncOps \/ (i \in DOMAIN chain /\ chain'[i] = chain[i])
  BY <1>1, AppendFacts
<1>3. \A i \in CallsOf({"enqueue"})' : i \in CallsOf({"enqueue"}) /\ chain'[i] = chain[i]
                                       /\ chain[i].turn \in Turns
  BY <1>1, <1>2, TurnCalls DEF CallsOf, SyncOps
<1>4. \A i \in CallsOf({"purge"})' : i \in CallsOf({"purge"}) /\ chain'[i] = chain[i]
  BY <1>2 DEF CallsOf, SyncOps
<1>5. EnqueueInv'
  BY <1>3 DEF EnqueueInv
<1>6. PurgeInv'
  BY <1>3, <1>4 DEF PurgeInv
<1>. QED
  BY <1>5, <1>6

\* A step that leaves the chain and the replay alone.
LEMMA AwaitStands ==
  ASSUME TypeOK, SyncCallInv, chain' = chain, sync'.pc = sync.pc, sync'.todo = sync.todo,
         \A t \in Turns : Settled(t) => Settled(t)'
  PROVE  SyncCallInv'
<1>1. \A i \in DOMAIN chain : chain[i] \in Operation
  BY Types
<1>2. \A i \in CallsOf(SyncOps) : Awaited(chain[i]) => Awaited(chain[i])'
  BY <1>1, TurnCalls DEF Awaited, CallsOf
<1>3. CallsOf(SyncOps)' = CallsOf(SyncOps)
  BY DEF CallsOf
<1>. QED
  BY <1>2, <1>3 DEF SyncCallInv

\* A replay that awaits nothing calls one operation.
LEMMA AwaitBegins ==
  ASSUME TypeOK, SyncCallInv, sync.pc \in {"idle", "next", "sent"},
         NEW c \in Operation, chain' = Append(chain, c), Awaited(c)',
         sync'.pc \in {"sent", "removing"} => sync'.todo # << >>
  PROVE  SyncCallInv'
<1>1. chain \in Seq(Operation)
  BY Types
<1>2. CallsOf(SyncOps) = {}
  BY DEF SyncCallInv, Awaited
<1>3. \A i \in CallsOf(SyncOps)' : i = Len(chain) + 1 /\ chain'[i] = c
  BY <1>1, <1>2, AppendFacts DEF CallsOf
<1>. QED
  BY <1>3 DEF SyncCallInv

\* A replay that awaits nothing moves on without a call.
LEMMA AwaitNothing ==
  ASSUME TypeOK, SyncCallInv, sync.pc \in {"idle", "next", "sent"}, chain' = chain,
         sync'.pc \in {"sent", "removing"} => sync'.todo # << >>
  PROVE  SyncCallInv'
<1>1. CallsOf(SyncOps) = {}
  BY DEF SyncCallInv, Awaited
<1>2. CallsOf(SyncOps)' = {}
  BY <1>1 DEF CallsOf
<1>. QED
  BY <1>2 DEF SyncCallInv

\* The head of the chain has run: the others move up, and a count may be called.
LEMMA HeadRuns ==
  ASSUME TypeOK, chain # << >>,
         \/ chain' = Tail(chain)
         \/ chain' = Append(Tail(chain), [op |-> "countRecord", turn |-> None])
  PROVE  /\ chain' \in Seq(Operation)
         /\ Head(chain) = chain[1] /\ 1 \in DOMAIN chain /\ Head(chain) \in Operation
         /\ \A i \in DOMAIN chain' : \/ chain'[i].op = "countRecord"
                                     \/ i \in Nat \ {0} /\ i + 1 \in DOMAIN chain /\ chain'[i] = chain[i + 1]
<1>1. chain \in Seq(Operation) /\ [op |-> "countRecord", turn |-> None] \in Operation
  BY Types, CallTypes
<1>2. /\ Tail(chain) \in Seq(Operation) /\ Head(chain) = chain[1] /\ 1 \in DOMAIN chain
      /\ Head(chain) \in Operation /\ DOMAIN Tail(chain) \subseteq Nat \ {0}
      /\ \A i \in DOMAIN Tail(chain) : i + 1 \in DOMAIN chain /\ Tail(chain)[i] = chain[i + 1]
  BY <1>1, TailFacts
<1>3. CASE chain' = Tail(chain)
  BY <1>2, <1>3
<1>4. CASE chain' = Append(Tail(chain), [op |-> "countRecord", turn |-> None])
  <2> DEFINE s == Tail(chain)
             e == [op |-> "countRecord", turn |-> None]
  <2>0. e.op = "countRecord" /\ s \in Seq(Operation) /\ e \in Operation /\ chain' = Append(s, e)
    BY <1>1, <1>2, <1>4
  <2>1. /\ \A i \in DOMAIN s : i \in Nat \ {0} /\ i + 1 \in DOMAIN chain /\ s[i] = chain[i + 1]
    BY <1>2
  <2> HIDE DEF s, e
  <2>2. chain' \in Seq(Operation)
        /\ \A i \in DOMAIN chain' : chain'[i] = e \/ (i \in DOMAIN s /\ chain'[i] = s[i])
    BY <2>0, AppendFacts
  <2>. QED
    BY <1>2, <2>0, <2>1, <2>2
<1>. QED
  BY <1>3, <1>4

\* An operation other than the purge has run: the calls behind it stand as they did.
LEMMA HeadLeaves ==
  ASSUME TypeOK, EnqueueInv, PurgeInv, chain # << >>, Head(chain).op # "purge",
         \/ chain' = Tail(chain)
         \/ chain' = Append(Tail(chain), [op |-> "countRecord", turn |-> None]),
         scope' = scope, auth' = auth,
         \A t \in Turns : live[t] = "recording" =>
            live'[t] = "recording" \/ (Head(chain).op = "enqueue" /\ Head(chain).turn = t)
  PROVE  EnqueueInv' /\ PurgeInv'
<1>1. /\ Head(chain) = chain[1] /\ 1 \in DOMAIN chain /\ Head(chain) \in Operation
      /\ \A i \in DOMAIN chain' : \/ chain'[i].op = "countRecord"
                                  \/ i \in Nat \ {0} /\ i + 1 \in DOMAIN chain /\ chain'[i] = chain[i + 1]
  BY HeadRuns
<1>2. \A i \in DOMAIN chain : chain[i] \in Operation
  BY Types
<1>3. \A i \in CallsOf({"enqueue"})' : /\ i \in Nat \ {0} /\ i + 1 \in CallsOf({"enqueue"})
                                       /\ chain'[i] = chain[i + 1] /\ chain[i + 1].turn \in Turns
  BY <1>1, <1>2, TurnCalls DEF CallsOf
<1>4. \A i \in CallsOf({"purge"})' : /\ i \in Nat \ {0} /\ i + 1 \in CallsOf({"purge"})
                                     /\ chain'[i] = chain[i + 1]
  BY <1>1 DEF CallsOf
<1>5. \A i \in CallsOf({"enqueue"})' : live'[chain'[i].turn] = "recording"
  <2> SUFFICES ASSUME NEW i \in CallsOf({"enqueue"})' PROVE live'[chain'[i].turn] = "recording"
    OBVIOUS
  <2>1. /\ i \in Nat \ {0} /\ i + 1 \in CallsOf({"enqueue"})
        /\ chain'[i] = chain[i + 1] /\ chain[i + 1].turn \in Turns
    BY <1>3
  <2>2. live[chain[i + 1].turn] = "recording"
    BY <2>1 DEF EnqueueInv
  <2>3. ~(Head(chain).op = "enqueue" /\ Head(chain).turn = chain[i + 1].turn)
    <3> SUFFICES ASSUME chain[1].op = "enqueue", chain[1].turn = chain[i + 1].turn PROVE FALSE
      BY <1>1
    <3>1. 1 \in CallsOf({"enqueue"})
      BY <1>1 DEF CallsOf
    <3>2. 1 = i + 1
      BY <2>1, <3>1 DEF EnqueueInv
    <3>. QED
      BY <2>1, <3>2
  <2>. QED
    BY <2>1, <2>2, <2>3
<1>6. EnqueueInv'
  <2> SUFFICES ASSUME NEW i \in CallsOf({"enqueue"})'
               PROVE  /\ scope = UserOf(chain'[i].turn) /\ auth \notin {"restoring", "purged"}
                      /\ \A j \in CallsOf({"enqueue"})' : chain'[j].turn = chain'[i].turn => j = i
    BY <1>5 DEF EnqueueInv, UserOf
  <2>1. /\ i \in Nat \ {0} /\ i + 1 \in CallsOf({"enqueue"}) /\ chain'[i] = chain[i + 1]
    BY <1>3
  <2>2. scope = UserOf(chain'[i].turn) /\ auth \notin {"restoring", "purged"}
    BY <2>1 DEF EnqueueInv
  <2>3. ASSUME NEW j \in CallsOf({"enqueue"})', chain'[j].turn = chain'[i].turn PROVE j = i
    <3>1. /\ j \in Nat \ {0} /\ j + 1 \in CallsOf({"enqueue"}) /\ chain'[j] = chain[j + 1]
      BY <1>3
    <3>2. j + 1 = i + 1
      BY <2>1, <2>3, <3>1 DEF EnqueueInv
    <3>. QED
      BY <2>1, <3>1, <3>2
  <2>. QED
    BY <2>2, <2>3
<1>7. PurgeInv'
  <2> SUFFICES ASSUME NEW i \in CallsOf({"purge"})'
               PROVE  /\ auth = "purging"
                      /\ \A j \in CallsOf({"enqueue"})' : j < i
                      /\ \A j \in CallsOf({"purge"})' : j = i
    BY DEF PurgeInv
  <2>1. i \in Nat \ {0} /\ i + 1 \in CallsOf({"purge"})
    BY <1>4
  <2>2. auth = "purging"
    BY <2>1 DEF PurgeInv
  <2>3. ASSUME NEW j \in CallsOf({"enqueue"})' PROVE j < i
    <3>1. j \in Nat \ {0} /\ j + 1 \in CallsOf({"enqueue"})
      BY <1>3
    <3>2. j + 1 < i + 1
      BY <2>1, <3>1 DEF PurgeInv
    <3>. QED
      BY <2>1, <3>1, <3>2
  <2>4. ASSUME NEW j \in CallsOf({"purge"})' PROVE j = i
    <3>1. j \in Nat \ {0} /\ j + 1 \in CallsOf({"purge"})
      BY <1>4
    <3>2. j + 1 = i + 1
      BY <2>1, <3>1 DEF PurgeInv
    <3>. QED
      BY <2>1, <3>1, <3>2
  <2>. QED
    BY <2>2, <2>3, <2>4
<1>. QED
  BY <1>6, <1>7

----------------------------------------------------------------------------
(* The server                                                              *)

\* What the server knows of a turn after a request: a saved turn stays saved,
\* and a success is an answer about a saved turn.
LEMMA OutcomeFacts ==
  ASSUME TypeOK, NEW t \in Turns, NEW u \in Users \cup {None}, NEW o \in StreamOutcomes(t, u)
  PROVE  /\ o.known \in {"new", "running", "saved"}
         /\ server[t] = "saved" => o.known = "saved"
         /\ o.answer = "ok" => o.known = "saved"
<1>1. server[t] \in {"new", "running", "saved"}
  BY DEF TypeOK
<1>2. \A k \in Unheard(t, u) : k \in {"new", "running", "saved"} /\ (server[t] = "saved" => k = "saved")
  BY <1>1 DEF Unheard
<1>3. ASSUME o \in Handled(t, u)
      PROVE  /\ o.known \in {"new", "running", "saved"}
             /\ server[t] = "saved" => o.known = "saved"
             /\ o.answer = "ok" => o.known = "saved"
  <2>1. CASE u = None
    BY <1>1, <1>3, <2>1 DEF Handled, Reply
  <2>2. CASE u # None /\ u # UserOf(t)
    BY <1>1, <1>3, <2>2 DEF Handled, Reply
  <2>3. CASE u # None /\ u = UserOf(t)
    BY <1>1, <1>3, <2>3 DEF Handled, Reply
  <2>. QED
    BY <2>1, <2>2, <2>3
<1>4. \/ o \in Handled(t, u)
      \/ \E k \in Unheard(t, u), a \in {"network", "broken", "stopped"} : o = Reply(k, a)
      \/ \E a \in {"throttled", "error"} : o = Reply(server[t], a)
  BY DEF StreamOutcomes, Outcomes
<1>5. CASE \E k \in Unheard(t, u), a \in {"network", "broken", "stopped"} : o = Reply(k, a)
  BY <1>2, <1>5 DEF Reply
<1>6. CASE \E a \in {"throttled", "error"} : o = Reply(server[t], a)
  BY <1>1, <1>6 DEF Reply
<1>. QED
  BY <1>3, <1>4, <1>5, <1>6

\* What the server learns about one turn unsettles no turn.
LEMMA SettledGrows ==
  ASSUME TypeOK, NEW t \in Turns, NEW known \in {"new", "running", "saved"},
         server' = [server EXCEPT ![t] = known], server[t] = "saved" => known = "saved",
         dropped' = dropped \/ dropped' = [dropped EXCEPT ![t] = "refused"]
  PROVE  /\ server' \in [Turns -> {"new", "running", "saved"}]
         /\ dropped' \in [Turns -> {"no", "purged", "refused"}]
         /\ \A x \in Turns : Settled(x) => Settled(x)'
BY DEF TypeOK, Settled

----------------------------------------------------------------------------
(* The initial states, and the operations of the queue                     *)

\* Nothing is queued, called or replayed when the application starts.
LEMMA ReplayInit == Init => ReplayInv
<1> SUFFICES ASSUME Init PROVE ReplayInv
  OBVIOUS
<1>1. IdleSync \in SyncState /\ sync = IdleSync /\ sync.pc = "idle" /\ sync.todo = << >>
  BY IdleSyncType DEF Init
<1>2. DOMAIN sync.todo = {} /\ DOMAIN chain = {} /\ \A u \in Users : DOMAIN queue[u] = {}
  BY <1>1 DEF Init
<1>3. TypeOK
  BY <1>1 DEF Init, TypeOK, SyncState, SyncPcs
<1>4. MountedInv /\ EnqueueInv /\ PurgeInv /\ SyncCallInv
  BY <1>1, <1>2 DEF Init, MountedInv, EnqueueInv, PurgeInv, SyncCallInv, CallsOf
<1>5. QueueInv /\ OrderInv /\ QueuedUntilSettled
  BY <1>2 DEF Init, QueueInv, OrderInv, QueuedUntilSettled
<1>. QED
  BY <1>3, <1>4, <1>5 DEF ReplayInv

\* The operation of the replay that has run was the only one in the chain.
LEMMA AwaitEnds ==
  ASSUME TypeOK, SyncCallInv, chain # << >>, Head(chain).op \in SyncOps, chain' = Tail(chain),
         sync'.pc \notin {"sent", "removing"}
  PROVE  SyncCallInv'
<1>1. /\ Head(chain) = chain[1] /\ 1 \in DOMAIN chain
      /\ \A i \in DOMAIN chain' : \/ chain'[i].op = "countRecord"
                                  \/ i \in Nat \ {0} /\ i + 1 \in DOMAIN chain /\ chain'[i] = chain[i + 1]
  BY HeadRuns
<1>2. 1 \in CallsOf(SyncOps)
  BY <1>1 DEF CallsOf
<1>3. \A i \in CallsOf(SyncOps)' : i \in Nat \ {0} /\ i + 1 \in CallsOf(SyncOps)
  BY <1>1 DEF CallsOf, SyncOps
<1>4. \A i \in CallsOf(SyncOps)' : i + 1 = 1
  BY <1>2, <1>3 DEF SyncCallInv
<1>5. CallsOf(SyncOps)' = {}
  BY <1>3, <1>4
<1>. QED
  BY <1>5 DEF SyncCallInv

\* Another operation has run: the replay still awaits what it awaited.
LEMMA AwaitGoesOn ==
  ASSUME TypeOK, SyncCallInv, chain # << >>, Head(chain).op \notin SyncOps,
         \/ chain' = Tail(chain)
         \/ chain' = Append(Tail(chain), [op |-> "countRecord", turn |-> None]),
         sync' = sync, \A t \in Turns : Settled(t) => Settled(t)'
  PROVE  SyncCallInv'
<1>1. \A i \in DOMAIN chain' : \/ chain'[i].op = "countRecord"
                               \/ i \in Nat \ {0} /\ i + 1 \in DOMAIN chain /\ chain'[i] = chain[i + 1]
  BY HeadRuns
<1>2. \A i \in DOMAIN chain : chain[i] \in Operation
  BY Types
<1>3. \A i \in CallsOf(SyncOps)' : i \in Nat \ {0} /\ i + 1 \in CallsOf(SyncOps) /\ chain'[i] = chain[i + 1]
  BY <1>1 DEF CallsOf, SyncOps
<1>4. \A o \in Operation : o.op \in SyncOps /\ Awaited(o) => Awaited(o)'
  BY TurnCalls DEF Awaited
<1>5. \A i \in CallsOf(SyncOps)' : Awaited(chain[i])'
  <2> SUFFICES ASSUME NEW i \in CallsOf(SyncOps)' PROVE Awaited(chain[i])'
    OBVIOUS
  <2>1. i + 1 \in CallsOf(SyncOps) /\ chain'[i] = chain[i + 1]
    BY <1>3
  <2>2. chain[i + 1] \in Operation /\ chain[i + 1].op \in SyncOps /\ Awaited(chain[i + 1])
    BY <1>2, <2>1 DEF SyncCallInv, CallsOf
  <2>. QED
    BY <1>4, <2>1, <2>2 DEF Awaited, Settled
<1>6. ASSUME NEW i \in CallsOf(SyncOps)', NEW j \in CallsOf(SyncOps)' PROVE j = i
  <2>1. i \in Nat /\ j \in Nat /\ i + 1 \in CallsOf(SyncOps) /\ j + 1 \in CallsOf(SyncOps)
    BY <1>3
  <2>2. j + 1 = i + 1
    BY <2>1 DEF SyncCallInv
  <2>. QED
    BY <2>1, <2>2
<1>. QED
  BY <1>5, <1>6 DEF SyncCallInv

\* The recording of a turn runs: it was called once, in this login, and the
\* turn was not queued before.
LEMMA EnqueueRuns ==
  ASSUME ReplayInv, RunOperation("enqueue")
  PROVE  ReplayInv'
<1> DEFINE t == Head(chain).turn
           q == queue[scope]
<1>1. /\ chain # << >> /\ scope # None /\ Head(chain).op = "enqueue" /\ Enqueue(t)
      /\ UNCHANGED <<token, scope, mounted, server, ended>>
  BY DEF RunOperation
<1>2. TypeOK /\ MountedInv /\ EnqueueInv /\ PurgeInv /\ SyncCallInv /\ QueueInv /\ OrderInv
      /\ QueuedUntilSettled
  BY DEF ReplayInv
<1>3. /\ chain' \in Seq(Operation) /\ Head(chain) = chain[1] /\ 1 \in DOMAIN chain
      /\ Head(chain) \in Operation /\ t \in Turns
  BY <1>1, <1>2, HeadRuns, TurnCalls DEF Enqueue
<1>4. 1 \in CallsOf({"enqueue"})
  BY <1>1, <1>3 DEF CallsOf
<1>5. scope = UserOf(t) /\ live[t] = "recording" /\ scope \in Users
  BY <1>2, <1>3, <1>4, Owners DEF EnqueueInv
<1>6. /\ queue' = [queue EXCEPT ![scope] = Append(q, t)]
      /\ live' = [live EXCEPT ![t] = "queued"]
      /\ UNCHANGED <<sync, auth, shown, dropped>>
      /\ chain' = Append(Tail(chain), [op |-> "countRecord", turn |-> None])
  BY <1>1 DEF Enqueue, Filed
<1> HIDE DEF t
<1>7. /\ q \in Seq(Turns) /\ \A k \in DOMAIN sync.todo : sync.todo[k] \in Turns
      /\ \A u \in Users : queue[u] \in Seq(Turns) /\ \A i \in DOMAIN queue[u] : queue[u][i] \in Turns
  BY <1>2, <1>5, Types
<1> DEFINE r == Append(q, t)
           n == Len(q) + 1
<1>8. /\ r \in Seq(Turns) /\ n \in DOMAIN r /\ r[n] = t /\ n \in Nat
      /\ DOMAIN q \subseteq Nat
      /\ \A i \in DOMAIN r : i = n \/ (i \in DOMAIN q /\ r[i] = q[i])
      /\ \A i \in DOMAIN q : i < n /\ i \in DOMAIN r /\ r[i] = q[i]
  BY <1>3, <1>7, AppendFacts
<1>9. queue' \in [Users -> Seq(Turns)] /\ queue'[scope] = r
      /\ \A u \in Users : u # scope => queue'[u] = queue[u]
  BY <1>2, <1>5, <1>6, <1>8 DEF TypeOK
<1>10. live'[t] = "queued" /\ (\A x \in Turns : x # t => live'[x] = live[x])
       /\ live' \in [Turns -> {"unsaid", "sent", "recording", "queued", "broken", "over"}]
  BY <1>2, <1>3, <1>6 DEF TypeOK
<1> HIDE DEF r, n, q
<1>11. TypeOK'
  BY <1>1, <1>2, <1>3, <1>6, <1>9, <1>10 DEF TypeOK
<1>12. MountedInv'
  BY <1>1, <1>2, <1>6 DEF MountedInv, UserOf
<1>13. EnqueueInv' /\ PurgeInv'
  BY <1>1, <1>2, <1>6, <1>10, HeadLeaves DEF t
<1>14. SyncCallInv'
  BY <1>1, <1>2, <1>6, AwaitGoesOn DEF SyncOps, Settled
<1>15. \A u \in Users : \A i \in DOMAIN queue[u] : queue[u][i] # t
  BY <1>2, <1>5 DEF QueueInv
<1>16. \A k \in DOMAIN sync.todo : sync.todo[k] # t
  BY <1>2, <1>5 DEF QueueInv
<1>17. QueueInv'
  <2>1. ASSUME NEW u \in Users, NEW i \in DOMAIN queue'[u]
        PROVE  /\ UserOf(queue'[u][i]) = u
               /\ live'[queue'[u][i]] = "queued"
               /\ \A j \in DOMAIN queue'[u] : queue'[u][j] = queue'[u][i] => j = i
    <3>1. CASE u # scope
      <4>1. queue'[u] = queue[u] /\ i \in DOMAIN queue[u]
        BY <1>9, <2>1, <3>1
      <4>2. UserOf(queue[u][i]) = u /\ live[queue[u][i]] = "queued"
            /\ \A j \in DOMAIN queue[u] : queue[u][j] = queue[u][i] => j = i
        BY <1>2, <4>1 DEF QueueInv
      <4>3. queue[u][i] \in Turns /\ queue[u][i] # t
        BY <1>7, <1>15, <4>1
      <4>4. live'[queue[u][i]] = "queued"
        BY <1>10, <4>2, <4>3
      <4>. QED
        BY <4>1, <4>2, <4>4
    <3>2. CASE u = scope
      <4>1. CASE i = n
        BY <1>5, <1>8, <1>9, <1>10, <1>15, <3>2, <4>1 DEF q
      <4>2. CASE i # n
        <5>1. i \in DOMAIN q /\ r[i] = q[i]
          BY <1>8, <1>9, <2>1, <3>2, <4>2
        <5>2. UserOf(q[i]) = u /\ live[q[i]] = "queued" /\ q[i] # t /\ q[i] \in Turns
              /\ \A j \in DOMAIN q : q[j] = q[i] => j = i
          BY <1>2, <1>5, <1>7, <1>15, <3>2, <5>1 DEF QueueInv, q
        <5>. QED
          BY <1>8, <1>9, <1>10, <3>2, <5>1, <5>2
      <4>. QED
        BY <4>1, <4>2
    <3>. QED
      BY <3>1, <3>2
  <2>2. \A k \in DOMAIN sync'.todo : live'[sync'.todo[k]] = "queued"
    BY <1>2, <1>6, <1>7, <1>10, <1>16 DEF QueueInv
  <2>. QED
    BY <2>1, <2>2 DEF QueueInv, UserOf
<1>18. OrderInv'
  <2>0. server' = server /\ dropped' = dropped /\ sync' = sync
    BY <1>1, <1>6
  <2> SUFFICES ASSUME NEW u \in Users, NEW k \in DOMAIN sync.todo,
                      NEW i \in DOMAIN queue'[u], NEW j \in DOMAIN queue'[u],
                      i < j, queue'[u][j] = sync.todo[k]
               PROVE  \/ server[queue'[u][i]] = "saved" \/ dropped[queue'[u][i]] # "no"
                      \/ \E m \in DOMAIN sync.todo : m < k /\ sync.todo[m] = queue'[u][i]
    BY <2>0 DEF OrderInv, Settled
  <2>1. CASE u # scope
    <3>1. queue'[u] = queue[u]
      BY <1>9, <2>1
    <3>. QED
      BY <1>2, <3>1 DEF OrderInv, Settled
  <2>2. CASE u = scope
    <3>1. j # n
      BY <1>8, <1>9, <1>16, <2>2
    <3>2. j \in DOMAIN q /\ r[j] = q[j]
      BY <1>8, <1>9, <2>2, <3>1
    <3>3. i # n
      BY <1>8, <3>2
    <3>4. i \in DOMAIN q /\ r[i] = q[i]
      BY <1>8, <1>9, <2>2, <3>3
    <3>5. /\ i \in DOMAIN queue[u] /\ queue'[u][i] = queue[u][i]
          /\ j \in DOMAIN queue[u] /\ queue[u][j] = sync.todo[k]
      BY <1>9, <2>2, <3>2, <3>4 DEF q
    <3>. QED
      BY <1>2, <3>5 DEF OrderInv, Settled
  <2>. QED
    BY <2>1, <2>2
<1>19. QueuedUntilSettled'
  <2> SUFFICES ASSUME NEW x \in Turns, live'[x] = "queued"
               PROVE  x \in Items(queue'[UserOf(x)]) \/ Settled(x)'
    BY DEF QueuedUntilSettled, Queued, Settled, UserOf
  <2>1. CASE x = t
    BY <1>5, <1>8, <1>9, <2>1 DEF Items
  <2>2. CASE x # t
    <3>1. x \in Items(queue[UserOf(x)]) \/ Settled(x)
      BY <1>2, <1>10, <2>2 DEF QueuedUntilSettled, Queued, Settled
    <3>2. Settled(x) => Settled(x)'
      BY <1>1, <1>6 DEF Settled
    <3>3. x \in Items(queue[UserOf(x)]) => x \in Items(queue'[UserOf(x)])
      <4>1. CASE UserOf(x) # scope
        BY <1>9, <4>1, Owners
      <4>2. CASE UserOf(x) = scope
        BY <1>8, <1>9, <4>2 DEF Items, q
      <4>. QED
        BY <4>1, <4>2
    <3>. QED
      BY <3>1, <3>2, <3>3
  <2>. QED
    BY <2>1, <2>2
<1>. QED
  BY <1>11, <1>12, <1>13, <1>14, <1>17, <1>18, <1>19 DEF ReplayInv

\* The removal of a replayed turn runs: the turn is settled, and the others keep
\* their order, in whichever learner's queue the removal looks.
LEMMA RemoveRuns ==
  ASSUME ReplayInv, RunOperation("remove")
  PROVE  ReplayInv'
<1> DEFINE t == Head(chain).turn
           q == queue[scope]
           r == Without(q, t)
           todo == sync.todo
<1>1. /\ chain # << >> /\ scope # None /\ Head(chain).op = "remove" /\ Remove(t)
      /\ UNCHANGED <<token, scope, mounted, server, ended>>
  BY DEF RunOperation
<1>2. TypeOK /\ MountedInv /\ EnqueueInv /\ PurgeInv /\ SyncCallInv /\ QueueInv /\ OrderInv
      /\ QueuedUntilSettled
  BY DEF ReplayInv
<1>3. /\ chain' \in Seq(Operation) /\ Head(chain) = chain[1] /\ 1 \in DOMAIN chain
      /\ Head(chain) \in Operation /\ t \in Turns
  BY <1>1, <1>2, HeadRuns, TurnCalls DEF Remove
<1>4. 1 \in CallsOf(SyncOps)
  BY <1>1, <1>3 DEF CallsOf, SyncOps
<1>5. Awaited(chain[1]) /\ sync.pc = "removing" /\ t = Head(todo) /\ Settled(t) /\ todo # << >>
  <2>1. Awaited(chain[1])
    BY <1>2, <1>4 DEF SyncCallInv
  <2>. QED
    BY <1>1, <1>2, <1>3, <2>1 DEF Awaited, SyncCallInv
<1>6. scope \in Users
  BY <1>1, <1>2 DEF TypeOK
<1>7. /\ q \in Seq(Turns) /\ todo \in Seq(Turns) /\ sync \in SyncState
      /\ \A u \in Users : \A i \in DOMAIN queue[u] : queue[u][i] \in Turns
  BY <1>2, <1>6, Types
<1>8. /\ queue' = [queue EXCEPT ![scope] = r]
      /\ sync' = [sync EXCEPT !.pc = "next", !.todo = Tail(todo)]
      /\ chain' = Tail(chain)
      /\ UNCHANGED <<auth, live, shown, dropped>>
  BY <1>1 DEF Remove
<1>9. /\ Tail(todo) \in Seq(Turns) /\ Head(todo) = todo[1] /\ 1 \in DOMAIN todo
      /\ DOMAIN Tail(todo) \subseteq Nat \ {0} /\ DOMAIN todo \subseteq Nat
      /\ \A i \in DOMAIN Tail(todo) : i + 1 \in DOMAIN todo /\ Tail(todo)[i] = todo[i + 1]
      /\ \A i \in DOMAIN todo : i # 1 => i - 1 \in DOMAIN Tail(todo) /\ Tail(todo)[i - 1] = todo[i]
  BY <1>5, <1>7, TailFacts
<1>10. sync' \in SyncState /\ sync'.pc = "next" /\ sync'.todo = Tail(todo)
  <2> HIDE DEF todo
  <2>. QED
    BY <1>7, <1>8, <1>9, MoveTodo DEF SyncPcs
<1> HIDE DEF t, q, todo
<1>11. /\ r \in Seq(Turns)
       /\ \A x \in Items(q) : x = t \/ x \in Items(r)
       /\ \E at \in [DOMAIN r -> DOMAIN q] :
            /\ \A i \in DOMAIN r : r[i] = q[at[i]]
            /\ \A i, j \in DOMAIN r : i < j => at[i] < at[j]
  BY <1>3, <1>7, WithoutFacts
<1> HIDE DEF r
<1>12. PICK at \in [DOMAIN r -> DOMAIN q] :
         /\ \A i \in DOMAIN r : r[i] = q[at[i]]
         /\ \A i, j \in DOMAIN r : i < j => at[i] < at[j]
  BY <1>11
<1>13. queue' \in [Users -> Seq(Turns)] /\ queue'[scope] = r
       /\ \A u \in Users : u # scope => queue'[u] = queue[u]
  BY <1>2, <1>6, <1>8, <1>11 DEF TypeOK
<1>14. /\ server' = server /\ dropped' = dropped /\ live' = live /\ scope' = scope /\ auth' = auth
  BY <1>1, <1>8
<1>15. TypeOK'
  BY <1>1, <1>2, <1>3, <1>8, <1>10, <1>13 DEF TypeOK, SyncState, SyncPcs
<1>16. MountedInv'
  BY <1>1, <1>2, <1>8 DEF MountedInv, UserOf
<1>17. EnqueueInv' /\ PurgeInv'
  BY <1>1, <1>2, <1>8, HeadLeaves
<1>18. SyncCallInv'
  BY <1>1, <1>2, <1>8, <1>10, AwaitEnds DEF SyncOps
<1>19. QueueInv'
  <2>1. ASSUME NEW u \in Users, NEW i \in DOMAIN queue'[u]
        PROVE  /\ UserOf(queue'[u][i]) = u
               /\ live[queue'[u][i]] = "queued"
               /\ \A j \in DOMAIN queue'[u] : queue'[u][j] = queue'[u][i] => j = i
    <3>1. CASE u # scope
      BY <1>2, <1>13, <2>1, <3>1 DEF QueueInv
    <3>2. CASE u = scope
      <4>1. i \in DOMAIN r /\ queue'[u] = r /\ q = queue[u]
        BY <1>13, <2>1, <3>2 DEF q
      <4>2. at[i] \in DOMAIN q /\ r[i] = q[at[i]]
        BY <1>12, <4>1
      <4>3. UserOf(r[i]) = u /\ live[r[i]] = "queued"
        BY <1>2, <4>1, <4>2 DEF QueueInv
      <4>4. ASSUME NEW j \in DOMAIN r, r[j] = r[i] PROVE j = i
        <5>1. at[j] \in DOMAIN q /\ q[at[j]] = q[at[i]]
          BY <1>12, <4>2, <4>4
        <5>2. at[j] = at[i]
          BY <1>2, <4>1, <4>2, <5>1 DEF QueueInv
        <5>3. i \in Nat /\ j \in Nat /\ at[i] \in Nat
          BY <1>7, <1>11, <4>1, <4>2
        <5>4. ~(i < j) /\ ~(j < i)
          BY <1>12, <4>1, <5>2, <5>3
        <5>. QED
          BY <5>3, <5>4
      <4>. QED
        BY <4>1, <4>3, <4>4
    <3>. QED
      BY <3>1, <3>2
  <2>2. \A k \in DOMAIN sync'.todo : live[sync'.todo[k]] = "queued"
    BY <1>2, <1>9, <1>10 DEF QueueInv, todo
  <2>. QED
    BY <1>14, <2>1, <2>2 DEF QueueInv, UserOf
<1>20. OrderInv'
  <2> SUFFICES ASSUME NEW u \in Users, NEW k \in DOMAIN Tail(todo),
                      NEW i \in DOMAIN queue'[u], NEW j \in DOMAIN queue'[u],
                      i < j, queue'[u][j] = Tail(todo)[k]
               PROVE  \/ server[queue'[u][i]] = "saved" \/ dropped[queue'[u][i]] # "no"
                      \/ \E m \in DOMAIN Tail(todo) : m < k /\ Tail(todo)[m] = queue'[u][i]
    BY <1>10, <1>14 DEF OrderInv, Settled
  <2>1. PICK f \in DOMAIN queue[u], g \in DOMAIN queue[u] :
          f < g /\ queue[u][f] = queue'[u][i] /\ queue[u][g] = queue'[u][j]
    <3>1. CASE u # scope
      BY <1>13, <3>1
    <3>2. CASE u = scope
      <4>1. i \in DOMAIN r /\ j \in DOMAIN r /\ queue'[u] = r /\ q = queue[u]
        BY <1>13, <3>2 DEF q
      <4>2. at[i] \in DOMAIN q /\ at[j] \in DOMAIN q /\ r[i] = q[at[i]] /\ r[j] = q[at[j]] /\ at[i] < at[j]
        BY <1>12, <4>1
      <4>. QED
        BY <4>1, <4>2
    <3>. QED
      BY <3>1, <3>2
  <2>2. k \in Nat \ {0} /\ k + 1 \in DOMAIN todo /\ queue[u][g] = todo[k + 1]
    BY <1>9, <2>1
  <2>3. \/ Settled(queue[u][f])
        \/ \E m \in DOMAIN todo : m < k + 1 /\ todo[m] = queue[u][f]
    BY <1>2, <2>1, <2>2 DEF OrderInv, todo
  <2>4. CASE Settled(queue[u][f])
    BY <2>1, <2>4 DEF Settled
  <2>5. ASSUME NEW m \in DOMAIN todo, m < k + 1, todo[m] = queue[u][f]
        PROVE  \/ server[queue'[u][i]] = "saved" \/ dropped[queue'[u][i]] # "no"
               \/ \E x \in DOMAIN Tail(todo) : x < k /\ Tail(todo)[x] = queue'[u][i]
    <3>1. CASE m = 1
      BY <1>5, <1>9, <2>1, <2>5, <3>1 DEF Settled, todo
    <3>2. CASE m # 1
      <4>1. m - 1 \in DOMAIN Tail(todo) /\ Tail(todo)[m - 1] = todo[m] /\ m \in Nat
        BY <1>9, <3>2
      <4>2. m - 1 < k
        BY <2>2, <2>5, <4>1
      <4>. QED
        BY <2>1, <2>5, <4>1, <4>2
    <3>. QED
      BY <3>1, <3>2
  <2>. QED
    BY <2>3, <2>4, <2>5
<1>21. QueuedUntilSettled'
  <2> SUFFICES ASSUME NEW x \in Turns, live[x] = "queued"
               PROVE  x \in Items(queue'[UserOf(x)]) \/ Settled(x)
    BY <1>14 DEF QueuedUntilSettled, Queued, Settled, UserOf
  <2>1. x \in Items(queue[UserOf(x)]) \/ Settled(x)
    BY <1>2 DEF QueuedUntilSettled, Queued, Settled
  <2>2. CASE UserOf(x) # scope
    BY <1>13, <2>1, <2>2, Owners
  <2>3. CASE UserOf(x) = scope
    BY <1>5, <1>11, <1>13, <2>1, <2>3 DEF q
  <2>. QED
    BY <2>2, <2>3
<1>. QED
  BY <1>15, <1>16, <1>17, <1>18, <1>19, <1>20, <1>21 DEF ReplayInv

\* The listing runs: the replay takes the whole queue, in its order.
LEMMA ListRuns ==
  ASSUME ReplayInv, RunOperation("list")
  PROVE  ReplayInv'
<1> DEFINE q == queue[scope]
<1>1. /\ chain # << >> /\ scope # None /\ Head(chain).op = "list" /\ List
      /\ UNCHANGED <<token, scope, mounted, server, ended>>
  BY DEF RunOperation
<1>2. TypeOK /\ MountedInv /\ EnqueueInv /\ PurgeInv /\ SyncCallInv /\ QueueInv /\ OrderInv
      /\ QueuedUntilSettled
  BY DEF ReplayInv
<1>3. chain' \in Seq(Operation)
  BY <1>1, <1>2, HeadRuns DEF List
<1>4. scope \in Users
  BY <1>1, <1>2 DEF TypeOK
<1>5. /\ q \in Seq(Turns) /\ sync \in SyncState
      /\ \A u \in Users : queue[u] \in Seq(Turns) /\ \A i \in DOMAIN queue[u] : queue[u][i] \in Turns
  BY <1>2, <1>4, Types
<1>6. /\ sync' = [sync EXCEPT !.pc = "next", !.todo = q] /\ chain' = Tail(chain)
      /\ UNCHANGED <<queue, auth, live, shown, dropped>>
  BY <1>1 DEF List
<1>7. sync' \in SyncState /\ sync'.pc = "next" /\ sync'.todo = q
  <2> HIDE DEF q
  <2>. QED
    BY <1>5, <1>6, MoveTodo DEF SyncPcs
<1>8. /\ server' = server /\ dropped' = dropped /\ live' = live /\ queue' = queue
  BY <1>1, <1>6
<1>9. TypeOK'
  BY <1>1, <1>2, <1>3, <1>6, <1>7 DEF TypeOK, SyncState, SyncPcs
<1>10. MountedInv'
  BY <1>1, <1>2, <1>6 DEF MountedInv, UserOf
<1>11. EnqueueInv' /\ PurgeInv'
  BY <1>1, <1>2, <1>6, HeadLeaves
<1>12. SyncCallInv'
  BY <1>1, <1>2, <1>6, <1>7, AwaitEnds DEF SyncOps
<1>13. QueueInv'
  <2>1. \A k \in DOMAIN q : live[q[k]] = "queued"
    BY <1>2, <1>4 DEF QueueInv
  <2>. QED
    BY <1>2, <1>7, <1>8, <2>1 DEF QueueInv
<1>14. OrderInv'
  <2> SUFFICES ASSUME NEW u \in Users, NEW k \in DOMAIN q,
                      NEW i \in DOMAIN queue[u], NEW j \in DOMAIN queue[u],
                      i < j, queue[u][j] = q[k]
               PROVE  \E m \in DOMAIN q : m < k /\ q[m] = queue[u][i]
    BY <1>7, <1>8 DEF OrderInv
  <2>1. u = scope
    BY <1>2, <1>4 DEF QueueInv
  <2>2. j = k
    BY <1>2, <2>1 DEF QueueInv
  <2>. QED
    BY <2>1, <2>2
<1>15. QueuedUntilSettled'
  BY <1>2, <1>8 DEF QueuedUntilSettled, Queued
<1>. QED
  BY <1>9, <1>10, <1>11, <1>12, <1>13, <1>14, <1>15 DEF ReplayInv

\* The purge of a logout has run, or has thrown: no call of its login is left,
\* since the view models that make them went before it.
LEMMA PurgeEnds ==
  ASSUME ReplayInv, chain # << >>, Head(chain).op = "purge", chain' = Tail(chain), auth' = "purged",
         mounted' = mounted, scope' = scope, sync' = sync, \A t \in Turns : Settled(t) => Settled(t)'
  PROVE  MountedInv' /\ EnqueueInv' /\ PurgeInv' /\ SyncCallInv'
<1>1. TypeOK /\ MountedInv /\ EnqueueInv /\ PurgeInv /\ SyncCallInv
  BY DEF ReplayInv
<1>2. /\ Head(chain) = chain[1] /\ 1 \in DOMAIN chain
      /\ \A i \in DOMAIN chain' : \/ chain'[i].op = "countRecord"
                                  \/ i \in Nat \ {0} /\ i + 1 \in DOMAIN chain /\ chain'[i] = chain[i + 1]
  BY <1>1, HeadRuns
<1>3. 1 \in CallsOf({"purge"})
  BY <1>2 DEF CallsOf
<1>4. auth = "purging" /\ mounted = {}
  BY <1>1, <1>3 DEF PurgeInv, MountedInv
<1>5. CallsOf({"enqueue"})' = {}
  <2> SUFFICES ASSUME NEW i \in CallsOf({"enqueue"})' PROVE FALSE
    OBVIOUS
  <2>1. i \in Nat \ {0} /\ i + 1 \in CallsOf({"enqueue"})
    BY <1>2 DEF CallsOf
  <2>2. i + 1 < 1
    BY <1>1, <1>3, <2>1 DEF PurgeInv
  <2>. QED
    BY <2>1, <2>2
<1>6. CallsOf({"purge"})' = {}
  <2> SUFFICES ASSUME NEW i \in CallsOf({"purge"})' PROVE FALSE
    OBVIOUS
  <2>1. i \in Nat \ {0} /\ i + 1 \in CallsOf({"purge"})
    BY <1>2 DEF CallsOf
  <2>2. i + 1 = 1
    BY <1>1, <1>3, <2>1 DEF PurgeInv
  <2>. QED
    BY <2>1, <2>2
<1>7. SyncCallInv'
  BY <1>1, AwaitGoesOn DEF SyncOps
<1>. QED
  BY <1>4, <1>5, <1>6, <1>7 DEF MountedInv, EnqueueInv, PurgeInv

\* The purge runs: the learner's queue is emptied.
LEMMA PurgeRuns ==
  ASSUME ReplayInv, RunOperation("purge")
  PROVE  ReplayInv'
<1>1. /\ chain # << >> /\ scope # None /\ Head(chain).op = "purge" /\ PurgeCurrentUser
      /\ UNCHANGED <<token, scope, mounted, server, ended>>
  BY DEF RunOperation
<1>2. TypeOK /\ MountedInv /\ EnqueueInv /\ PurgeInv /\ SyncCallInv /\ QueueInv /\ OrderInv
      /\ QueuedUntilSettled
  BY DEF ReplayInv
<1>3. /\ queue' = [queue EXCEPT ![scope] = << >>]
      /\ dropped' = [t \in Turns |-> IF t \in Items(queue[scope]) THEN "purged" ELSE dropped[t]]
      /\ auth' = "purged" /\ chain' = Tail(chain)
      /\ UNCHANGED <<sync, live, shown>>
  BY <1>1 DEF PurgeCurrentUser
<1>4. chain' \in Seq(Operation)
  BY <1>1, <1>2, <1>3, HeadRuns
<1>5. scope \in Users
  BY <1>1, <1>2 DEF TypeOK
<1>6. /\ queue' \in [Users -> Seq(Turns)] /\ queue'[scope] = << >>
      /\ \A u \in Users : u # scope => queue'[u] = queue[u]
  BY <1>2, <1>3, <1>5 DEF TypeOK
<1>7. \A t \in Turns : /\ Settled(t) => Settled(t)'
                       /\ t \in Items(queue[scope]) => Settled(t)'
  BY <1>1, <1>2, <1>3 DEF Settled, TypeOK
<1>8. TypeOK'
  BY <1>1, <1>2, <1>3, <1>4, <1>6 DEF TypeOK
<1>9. MountedInv' /\ EnqueueInv' /\ PurgeInv' /\ SyncCallInv'
  BY <1>1, <1>3, <1>7, PurgeEnds
<1>10. \A u \in Users : queue'[u] = queue[u] \/ DOMAIN queue'[u] = {}
  BY <1>6
<1>11. QueueInv'
  BY <1>2, <1>3, <1>10 DEF QueueInv
<1>12. OrderInv'
  <2> SUFFICES ASSUME NEW u \in Users, NEW k \in DOMAIN sync.todo,
                      NEW i \in DOMAIN queue'[u], NEW j \in DOMAIN queue'[u],
                      i < j, queue'[u][j] = sync.todo[k],
                      ~ \E m \in DOMAIN sync.todo : m < k /\ sync.todo[m] = queue'[u][i]
               PROVE  server'[queue'[u][i]] = "saved" \/ dropped'[queue'[u][i]] # "no"
    BY <1>3 DEF OrderInv, Settled
  <2>1. queue'[u] = queue[u] /\ queue[u][i] \in Turns
    BY <1>2, <1>10, Types
  <2>2. Settled(queue[u][i])
    BY <1>2, <2>1 DEF OrderInv
  <2>. QED
    BY <1>7, <2>1, <2>2 DEF Settled
<1>13. QueuedUntilSettled'
  <2> SUFFICES ASSUME NEW x \in Turns, live[x] = "queued"
               PROVE  x \in Items(queue'[UserOf(x)]) \/ Settled(x)'
    BY <1>3 DEF QueuedUntilSettled, Queued, Settled, UserOf
  <2>1. x \in Items(queue[UserOf(x)]) \/ Settled(x)
    BY <1>2 DEF QueuedUntilSettled, Queued, Settled
  <2>2. CASE UserOf(x) # scope
    BY <1>6, <1>7, <2>1, <2>2, Owners
  <2>3. CASE UserOf(x) = scope
    BY <1>7, <2>1, <2>3
  <2>. QED
    BY <2>2, <2>3
<1>. QED
  BY <1>8, <1>9, <1>11, <1>12, <1>13 DEF ReplayInv

\* A count runs: it only tells the learner how many turns wait.
LEMMA CountRuns ==
  ASSUME ReplayInv, NEW op \in {"countSync", "countRecord"}, RunOperation(op)
  PROVE  ReplayInv'
<1>1. /\ chain # << >> /\ scope # None /\ Head(chain).op = op /\ Count(op)
      /\ UNCHANGED <<token, scope, mounted, server, ended>>
  BY DEF RunOperation
<1>2. TypeOK /\ MountedInv /\ EnqueueInv /\ PurgeInv /\ SyncCallInv /\ QueueInv /\ OrderInv
      /\ QueuedUntilSettled
  BY DEF ReplayInv
<1>3. /\ sync' = IF op = "countSync" THEN IdleSync ELSE sync
      /\ chain' = Tail(chain)
      /\ UNCHANGED <<queue, auth, live, dropped>>
  BY <1>1 DEF Count
<1>4. chain' \in Seq(Operation)
  BY <1>1, <1>2, <1>3, HeadRuns
<1>5. shown' \in [online : BOOLEAN, count : Nat]
  <2>1. scope \in Users
    BY <1>1, <1>2 DEF TypeOK
  <2>2. Len(queue[scope]) \in Nat
    BY <1>2, <2>1 DEF TypeOK
  <2> DEFINE n == Len(queue[scope])
  <2>3. shown' \in {[online |-> n = 0, count |-> n], [online |-> FALSE, count |-> n]}
    BY <1>1 DEF Count
  <2> HIDE DEF n
  <2>4. [online |-> n = 0, count |-> n] \in [online : BOOLEAN, count : Nat]
    BY <2>2 DEF n
  <2>5. [online |-> FALSE, count |-> n] \in [online : BOOLEAN, count : Nat]
    BY <2>2 DEF n
  <2>. QED
    BY <2>3, <2>4, <2>5
<1>6. /\ sync' \in SyncState /\ sync'.todo \in {sync.todo, << >>}
      /\ op = "countSync" => sync'.pc = "idle"
  BY <1>2, <1>3, IdleSyncType, Types
<1>7. server' = server /\ dropped' = dropped /\ live' = live
  BY <1>1, <1>3
<1>8. TypeOK'
  BY <1>1, <1>2, <1>3, <1>4, <1>5, <1>6 DEF TypeOK, SyncState, SyncPcs
<1>9. MountedInv'
  BY <1>1, <1>2, <1>3 DEF MountedInv, UserOf
<1>10. EnqueueInv' /\ PurgeInv'
  BY <1>1, <1>2, <1>3, HeadLeaves
<1>11. SyncCallInv'
  <2>1. CASE op = "countSync"
    BY <1>1, <1>2, <1>3, <1>6, <2>1, AwaitEnds DEF SyncOps
  <2>2. CASE op = "countRecord"
    BY <1>1, <1>2, <1>3, <1>7, <2>2, AwaitGoesOn DEF SyncOps, Settled
  <2>. QED
    BY <2>1, <2>2
<1>12. QueueInv' /\ OrderInv' /\ QueuedUntilSettled'
  BY <1>2, <1>3, <1>6, <1>7, QueueRests DEF Settled
<1>. QED
  BY <1>8, <1>9, <1>10, <1>11, <1>12 DEF ReplayInv

\* The operation at the head throws: only its caller learns of it, and the turn
\* of a failed recording was not in a queue.
LEMMA FailureKeeps ==
  ASSUME ReplayInv, OperationFails
  PROVE  ReplayInv'
<1> DEFINE o == Head(chain)
<1>1. /\ chain # << >> /\ Thrown(o) /\ chain' = Tail(chain)
      /\ UNCHANGED <<queue, token, scope, mounted, shown, server, ended, dropped>>
  BY DEF OperationFails
<1>2. TypeOK /\ MountedInv /\ EnqueueInv /\ PurgeInv /\ SyncCallInv /\ QueueInv /\ OrderInv
      /\ QueuedUntilSettled
  BY DEF ReplayInv
<1>3. chain' \in Seq(Operation) /\ o = chain[1] /\ 1 \in DOMAIN chain /\ o \in Operation
  BY <1>1, <1>2, HeadRuns
<1>4. /\ o.op \in {"enqueue", "remove", "list", "purge", "countSync", "countRecord"}
      /\ o.op = "enqueue" => o.turn \in Turns
  BY <1>3, TurnCalls
<1>5. server' = server /\ dropped' = dropped
  BY <1>1
<1> HIDE DEF o
<1>6. CASE o.op = "enqueue"
  <2>1. /\ live' = [live EXCEPT ![o.turn] = "over"] /\ UNCHANGED <<sync, auth>>
    BY <1>1, <1>6 DEF Thrown
  <2>2. 1 \in CallsOf({"enqueue"})
    BY <1>3, <1>6 DEF CallsOf
  <2>3. live[o.turn] = "recording"
    BY <1>2, <1>3, <2>2 DEF EnqueueInv
  <2>4. TypeOK'
    BY <1>1, <1>2, <1>3, <2>1 DEF TypeOK
  <2>5. MountedInv'
    BY <1>1, <1>2, <2>1 DEF MountedInv, UserOf
  <2>6. \A t \in Turns : live[t] = "recording" => live'[t] = "recording" \/ (o.op = "enqueue" /\ o.turn = t)
    BY <1>2, <1>6, <2>1 DEF TypeOK
  <2>7. EnqueueInv' /\ PurgeInv'
    BY <1>1, <1>2, <1>6, <2>1, <2>6, HeadLeaves DEF o
  <2>8. SyncCallInv'
    BY <1>1, <1>2, <1>6, <2>1, AwaitGoesOn DEF o, SyncOps, Settled
  <2>9. \A t \in Turns : live'[t] = "queued" <=> live[t] = "queued"
    BY <1>2, <1>4, <1>6, <2>1, <2>3 DEF TypeOK
  <2>10. QueueInv' /\ OrderInv' /\ QueuedUntilSettled'
    BY <1>1, <1>2, <2>1, <2>9, QueueRests DEF Settled
  <2>. QED
    BY <2>4, <2>5, <2>7, <2>8, <2>10 DEF ReplayInv
<1>7. CASE o.op = "purge"
  <2>1. auth' = "purged" /\ UNCHANGED <<sync, live>>
    BY <1>1, <1>7 DEF Thrown
  <2>2. TypeOK'
    BY <1>1, <1>2, <1>3, <2>1 DEF TypeOK
  <2>3. MountedInv' /\ EnqueueInv' /\ PurgeInv' /\ SyncCallInv'
    BY <1>1, <1>7, <2>1, PurgeEnds DEF o, Settled
  <2>4. QueueInv' /\ OrderInv' /\ QueuedUntilSettled'
    BY <1>1, <1>2, <2>1, QueueRests DEF Settled
  <2>. QED
    BY <2>2, <2>3, <2>4 DEF ReplayInv
<1>8. CASE o.op \in {"list", "remove", "countSync", "countRecord"}
  <2>1. /\ UNCHANGED <<live, auth>>
        /\ o.op \in {"list", "remove", "countSync"} => sync' = IdleSync
        /\ o.op = "countRecord" => sync' = sync
    BY <1>1, <1>8 DEF Thrown
  <2>2. sync' \in SyncState /\ sync'.todo \in {sync.todo, << >>}
    BY <1>2, <1>8, <2>1, IdleSyncType, Types
  <2>3. TypeOK'
    BY <1>1, <1>2, <1>3, <2>1, <2>2 DEF TypeOK, SyncState, SyncPcs
  <2>4. MountedInv'
    BY <1>1, <1>2, <2>1 DEF MountedInv, UserOf
  <2>5. EnqueueInv' /\ PurgeInv'
    BY <1>1, <1>2, <1>8, <2>1, HeadLeaves DEF o
  <2>6. SyncCallInv'
    <3>1. CASE o.op \in {"list", "remove", "countSync"}
      BY <1>1, <1>2, <2>1, <3>1, IdleSyncType, AwaitEnds DEF o, SyncOps
    <3>2. CASE o.op = "countRecord"
      BY <1>1, <1>2, <2>1, <3>2, AwaitGoesOn DEF o, SyncOps, Settled
    <3>. QED
      BY <1>8, <3>1, <3>2
  <2>7. QueueInv' /\ OrderInv' /\ QueuedUntilSettled'
    BY <1>1, <1>2, <2>1, <2>2, QueueRests DEF Settled
  <2>. QED
    BY <2>3, <2>4, <2>5, <2>6, <2>7 DEF ReplayInv
<1>. QED
  BY <1>4, <1>6, <1>7, <1>8

----------------------------------------------------------------------------
(* The replay, the first attempts, the logins and the server               *)

\* The connectivity came back: the replay, idle until then, calls for its list.
LEMMA ReplayStarts ==
  ASSUME ReplayInv, StartSync
  PROVE  ReplayInv'
<1> DEFINE c == [op |-> "list", turn |-> None]
<1>1. /\ sync.pc = "idle" /\ sync' = [IdleSync EXCEPT !.pc = "list"] /\ chain' = Append(chain, c)
      /\ UNCHANGED <<queue, token, scope, auth, mounted, live, shown, server, ended, dropped>>
  BY DEF StartSync, Call
<1>2. TypeOK /\ MountedInv /\ EnqueueInv /\ PurgeInv /\ SyncCallInv /\ QueueInv /\ OrderInv
      /\ QueuedUntilSettled
  BY DEF ReplayInv
<1>3. c \in Operation /\ c.op = "list"
  BY CallTypes
<1>4. sync' \in SyncState /\ sync'.pc = "list" /\ sync'.todo = << >>
  BY <1>1, EmptySync DEF SyncPcs
<1> HIDE DEF c
<1>5. chain' \in Seq(Operation)
  BY <1>1, <1>2, <1>3, Types, AppendFacts
<1>6. TypeOK'
  BY <1>1, <1>2, <1>4, <1>5 DEF TypeOK, SyncState, SyncPcs
<1>7. MountedInv'
  BY <1>1, <1>2 DEF MountedInv, UserOf
<1>8. EnqueueInv' /\ PurgeInv'
  BY <1>1, <1>2, <1>3, CallsStand DEF SyncOps
<1>9. SyncCallInv'
  <2>1. Awaited(c)'
    BY <1>3, <1>4 DEF Awaited
  <2>. QED
    BY <1>1, <1>2, <1>3, <1>4, <2>1, AwaitBegins
<1>10. QueueInv' /\ OrderInv' /\ QueuedUntilSettled'
  BY <1>1, <1>2, <1>4, QueueRests DEF Settled
<1>. QED
  BY <1>6, <1>7, <1>8, <1>9, <1>10 DEF ReplayInv

\* The replay stops: it asks for the count, with nothing left to send.
LEMMA StopFacts ==
  ASSUME TypeOK, StopSync
  PROVE  \E c \in Operation :
           /\ c.op = "countSync" /\ chain' = Append(chain, c) /\ chain' \in Seq(Operation)
           /\ sync' \in SyncState /\ sync'.pc = "count" /\ sync'.todo = << >> /\ Awaited(c)'
<1> DEFINE c == [op |-> "countSync", turn |-> None]
<1>1. c \in Operation /\ c.op = "countSync"
  BY CallTypes
<1>2. chain' = Append(chain, c) /\ sync' = [IdleSync EXCEPT !.pc = "count"]
  BY DEF StopSync, Call
<1>3. sync' \in SyncState /\ sync'.pc = "count" /\ sync'.todo = << >>
  BY <1>2, EmptySync DEF SyncPcs
<1> HIDE DEF c
<1>4. chain' \in Seq(Operation)
  BY <1>1, <1>2, Types, AppendFacts
<1>5. Awaited(c)'
  BY <1>1, <1>3 DEF Awaited
<1>. QED
  BY <1>1, <1>2, <1>3, <1>4, <1>5

\* The head of the replay's loop sends the first turn of the list, or stops.
LEMMA ReplayNext ==
  ASSUME ReplayInv, SyncNext
  PROVE  ReplayInv'
<1>1. /\ sync.pc = "next"
      /\ UNCHANGED <<queue, token, scope, auth, mounted, live, shown, server, ended, dropped>>
  BY DEF SyncNext
<1>2. TypeOK /\ MountedInv /\ EnqueueInv /\ PurgeInv /\ SyncCallInv /\ QueueInv /\ OrderInv
      /\ QueuedUntilSettled
  BY DEF ReplayInv
<1>3. MountedInv'
  BY <1>1, <1>2 DEF MountedInv, UserOf
<1>4. CASE sync.todo = << >> \/ ~sync.same
  <2>1. StopSync
    BY <1>4 DEF SyncNext
  <2>2. PICK c \in Operation :
           /\ c.op = "countSync" /\ chain' = Append(chain, c) /\ chain' \in Seq(Operation)
           /\ sync' \in SyncState /\ sync'.pc = "count" /\ sync'.todo = << >> /\ Awaited(c)'
    BY <1>2, <2>1, StopFacts
  <2>3. TypeOK'
    BY <1>1, <1>2, <2>2 DEF TypeOK, SyncState, SyncPcs
  <2>4. EnqueueInv' /\ PurgeInv'
    BY <1>1, <1>2, <2>2, CallsStand DEF SyncOps
  <2>5. SyncCallInv'
    BY <1>1, <1>2, <2>2, AwaitBegins
  <2>6. QueueInv' /\ OrderInv' /\ QueuedUntilSettled'
    BY <1>1, <1>2, <2>2, QueueRests DEF Settled
  <2>. QED
    BY <1>3, <2>3, <2>4, <2>5, <2>6 DEF ReplayInv
<1>5. CASE ~(sync.todo = << >> \/ ~sync.same)
  <2>1. sync' = [sync EXCEPT !.pc = "sent", !.by = token] /\ chain' = chain /\ sync.todo # << >>
    BY <1>5 DEF SyncNext
  <2>2. sync' \in SyncState /\ sync'.pc = "sent" /\ sync'.todo = sync.todo
    <3>1. sync \in SyncState /\ token \in Users \cup {None} /\ "sent" \in SyncPcs
      BY <1>2, Types DEF TypeOK, SyncPcs
    <3>2. LET r == [sync EXCEPT !.pc = "sent", !.by = token]
          IN  r \in SyncState /\ r.pc = "sent" /\ r.todo = sync.todo
      BY <3>1, SendBy
    <3>. QED
      BY <2>1, <3>2
  <2>3. TypeOK'
    BY <1>1, <1>2, <2>1, <2>2 DEF TypeOK, SyncState, SyncPcs
  <2>4. EnqueueInv' /\ PurgeInv'
    BY <1>1, <1>2, <2>1, CallsStand
  <2>5. SyncCallInv'
    BY <1>1, <1>2, <2>1, <2>2, AwaitNothing
  <2>6. QueueInv' /\ OrderInv' /\ QueuedUntilSettled'
    BY <1>1, <1>2, <2>2, QueueRests DEF Settled
  <2>. QED
    BY <1>3, <2>3, <2>4, <2>5, <2>6 DEF ReplayInv
<1>. QED
  BY <1>4, <1>5

\* A refresh of the tokens changes whose request it is, not the replay's list.
LEMMA ReplayRefreshes ==
  ASSUME ReplayInv, SyncRefresh
  PROVE  ReplayInv'
<1>1. /\ sync.pc = "sent"
      /\ sync' = [sync EXCEPT !.by = token] \/ sync' = [sync EXCEPT !.by = None]
      /\ token' \in {token, None}
      /\ UNCHANGED <<queue, scope, auth, mounted, chain, live, shown, server, ended, dropped>>
  BY DEF SyncRefresh
<1>2. TypeOK /\ MountedInv /\ EnqueueInv /\ PurgeInv /\ SyncCallInv /\ QueueInv /\ OrderInv
      /\ QueuedUntilSettled
  BY DEF ReplayInv
<1>3. sync' \in SyncState /\ sync'.pc = sync.pc /\ sync'.todo = sync.todo
  <2>1. sync \in SyncState /\ token \in Users \cup {None} /\ None \in Users \cup {None} /\ "sent" \in SyncPcs
    BY <1>2, Types DEF TypeOK, SyncPcs
  <2>2. \A u \in {token, None} :
          LET r == [sync EXCEPT !.by = u]
          IN  r \in SyncState /\ r.pc = sync.pc /\ r.todo = sync.todo
    BY <2>1, MoveBy
  <2>. QED
    BY <1>1, <2>2
<1>4. TypeOK'
  BY <1>1, <1>2, <1>3 DEF TypeOK, SyncState, SyncPcs
<1>5. MountedInv'
  BY <1>1, <1>2 DEF MountedInv, UserOf
<1>6. EnqueueInv' /\ PurgeInv'
  BY <1>1, <1>2, CallsStand
<1>7. SyncCallInv'
  BY <1>1, <1>2, <1>3, AwaitStands DEF Settled
<1>8. QueueInv' /\ OrderInv' /\ QueuedUntilSettled'
  BY <1>1, <1>2, <1>3, QueueRests DEF Settled
<1>. QED
  BY <1>4, <1>5, <1>6, <1>7, <1>8 DEF ReplayInv

\* The answer to a replayed turn: it is removed only once it is settled, and
\* otherwise the replay stops, so that nothing overtakes it.
LEMMA ReplayAnswered ==
  ASSUME ReplayInv, SomeAnswer
  PROVE  ReplayInv'
<1>0. PICK t : t = Head(sync.todo)
  OBVIOUS
<1>1. PICK o : /\ sync.pc = "sent" /\ o \in Outcomes(t, sync.by)
               /\ server' = [server EXCEPT ![t] = o.known] /\ AfterAnswer(t, o.answer)
               /\ UNCHANGED <<queue, token, scope, auth, mounted, live, shown, ended>>
  BY <1>0 DEF SomeAnswer, SyncAnswer
<1>2. TypeOK /\ MountedInv /\ EnqueueInv /\ PurgeInv /\ SyncCallInv /\ QueueInv /\ OrderInv
      /\ QueuedUntilSettled
  BY DEF ReplayInv
<1>3. sync \in SyncState /\ sync.todo \in Seq(Turns) /\ sync.todo # << >> /\ sync.by \in Users \cup {None}
  BY <1>1, <1>2, Types DEF SyncCallInv, TypeOK
<1>4. t \in Turns
  BY <1>0, <1>3
<1> DEFINE c == [op |-> "remove", turn |-> t]
<1>5. c \in Operation /\ c.op = "remove" /\ c.turn = t
  BY <1>4, CallTypes
<1>6. dropped' \in {dropped, [dropped EXCEPT ![t] = "refused"]}
  BY <1>1 DEF AfterAnswer
<1>7. \/ StopSync
      \/ /\ sync' = [sync EXCEPT !.pc = "removing"] /\ chain' = Append(chain, c)
         /\ o.answer = "ok" \/ dropped' = [dropped EXCEPT ![t] = "refused"]
  BY <1>1 DEF AfterAnswer, Call
<1>8. /\ o.known \in {"new", "running", "saved"}
      /\ server[t] = "saved" => o.known = "saved"
      /\ o.answer = "ok" => o.known = "saved"
  BY <1>1, <1>2, <1>3, <1>4, OutcomeFacts DEF StreamOutcomes
<1>9. /\ server' \in [Turns -> {"new", "running", "saved"}]
      /\ dropped' \in [Turns -> {"no", "purged", "refused"}]
      /\ \A x \in Turns : Settled(x) => Settled(x)'
  BY <1>1, <1>2, <1>4, <1>6, <1>8, SettledGrows
<1>10. MountedInv'
  BY <1>1, <1>2 DEF MountedInv, UserOf
<1>11. CASE StopSync
  <2>1. PICK d \in Operation :
           /\ d.op = "countSync" /\ chain' = Append(chain, d) /\ chain' \in Seq(Operation)
           /\ sync' \in SyncState /\ sync'.pc = "count" /\ sync'.todo = << >> /\ Awaited(d)'
    BY <1>2, <1>11, StopFacts
  <2>2. TypeOK'
    BY <1>1, <1>2, <1>9, <2>1 DEF TypeOK, SyncState, SyncPcs
  <2>3. EnqueueInv' /\ PurgeInv'
    BY <1>1, <1>2, <2>1, CallsStand DEF SyncOps
  <2>4. SyncCallInv'
    BY <1>1, <1>2, <2>1, AwaitBegins
  <2>5. QueueInv' /\ OrderInv' /\ QueuedUntilSettled'
    BY <1>1, <1>2, <1>9, <2>1, QueueRests
  <2>. QED
    BY <1>10, <2>2, <2>3, <2>4, <2>5 DEF ReplayInv
<1>12. CASE /\ sync' = [sync EXCEPT !.pc = "removing"] /\ chain' = Append(chain, c)
            /\ o.answer = "ok" \/ dropped' = [dropped EXCEPT ![t] = "refused"]
  <2>1. sync' \in SyncState /\ sync'.pc = "removing" /\ sync'.todo = sync.todo
    BY <1>3, <1>12, MovePc DEF SyncPcs
  <2>2. Settled(t)'
    BY <1>1, <1>2, <1>4, <1>8, <1>12 DEF Settled, TypeOK
  <2> HIDE DEF c
  <2>3. chain' \in Seq(Operation)
    BY <1>2, <1>5, <1>12, Types, AppendFacts
  <2>4. TypeOK'
    BY <1>1, <1>2, <1>9, <2>1, <2>3 DEF TypeOK, SyncState, SyncPcs
  <2>5. EnqueueInv' /\ PurgeInv'
    BY <1>1, <1>2, <1>5, <1>12, CallsStand DEF SyncOps
  <2>6. Awaited(c)'
    BY <1>0, <1>5, <2>1, <2>2 DEF Awaited
  <2>7. SyncCallInv'
    BY <1>1, <1>2, <1>3, <1>5, <1>12, <2>1, <2>6, AwaitBegins
  <2>8. QueueInv' /\ OrderInv' /\ QueuedUntilSettled'
    BY <1>1, <1>2, <1>9, <2>1, QueueRests
  <2>. QED
    BY <1>10, <2>4, <2>5, <2>7, <2>8 DEF ReplayInv
<1>. QED
  BY <1>7, <1>11, <1>12

\* A step that leaves the chain, the replay and the queues alone: what is left to
\* see is who is signed in, which turns are in progress and what the server knows.
LEMMA QuietStep ==
  ASSUME ReplayInv, TypeOK', MountedInv', chain' = chain, queue' = queue,
         sync'.pc = sync.pc, sync'.todo = sync.todo,
         \/ scope' = scope /\ auth' = auth
         \/ CallsOf({"enqueue"}) = {} /\ CallsOf({"purge"}) = {}
         \/ scope' = scope /\ auth' \notin {"restoring", "purged"} /\ CallsOf({"purge"}) = {},
         \A t \in Turns : live[t] = "recording" => live'[t] = "recording",
         \A t \in Turns : live'[t] = "queued" <=> live[t] = "queued",
         \A t \in Turns : Settled(t) => Settled(t)'
  PROVE  ReplayInv'
<1>1. TypeOK /\ EnqueueInv /\ PurgeInv /\ SyncCallInv /\ QueueInv /\ OrderInv /\ QueuedUntilSettled
  BY DEF ReplayInv
<1>2. SyncCallInv'
  BY <1>1, AwaitStands
<1>3. QueueInv' /\ OrderInv' /\ QueuedUntilSettled'
  BY <1>1, QueueRests
<1>4. CallsOf({"enqueue"})' = CallsOf({"enqueue"}) /\ CallsOf({"purge"})' = CallsOf({"purge"})
  BY DEF CallsOf
<1>5. EnqueueInv' /\ PurgeInv'
  <2>1. CASE scope' = scope /\ auth' = auth
    BY <1>1, <2>1, CallsStand
  <2>2. CASE CallsOf({"enqueue"}) = {} /\ CallsOf({"purge"}) = {}
    BY <1>4, <2>2 DEF EnqueueInv, PurgeInv
  <2>3. CASE scope' = scope /\ auth' \notin {"restoring", "purged"} /\ CallsOf({"purge"}) = {}
    <3>1. \A i \in CallsOf({"enqueue"}) : chain[i].turn \in Turns
      BY <1>1, Types, TurnCalls DEF CallsOf
    <3>. QED
      BY <1>1, <1>4, <2>3, <3>1 DEF EnqueueInv, PurgeInv, UserOf
  <2>. QED
    BY <2>1, <2>2, <2>3
<1>. QED
  BY <1>1, <1>2, <1>3, <1>5 DEF ReplayInv

\* A learner who is signed in speaks.
LEMMA SpeakKeeps ==
  ASSUME ReplayInv, NEW t \in Turns, Speak(t)
  PROVE  ReplayInv'
<1>1. /\ live[t] = "unsaid" /\ auth = "settled" /\ scope = UserOf(t)
      /\ live' = [live EXCEPT ![t] = "sent"] /\ mounted' = mounted \cup {t}
      /\ UNCHANGED <<queue, token, scope, auth, chain, sync, shown, server, ended, dropped>>
  BY DEF Speak
<1>2. TypeOK /\ MountedInv
  BY DEF ReplayInv
<1>3. TypeOK'
  BY <1>1, <1>2 DEF TypeOK
<1>4. MountedInv'
  BY <1>1, <1>2 DEF MountedInv, UserOf
<1>5. \A x \in Turns : /\ live[x] = "recording" => live'[x] = "recording"
                       /\ live'[x] = "queued" <=> live[x] = "queued"
  BY <1>1, <1>2 DEF TypeOK
<1>. QED
  BY <1>1, <1>3, <1>4, <1>5, QuietStep DEF Settled

\* The answer to a first attempt.  A failure is recorded only while the view
\* model lives, that is in the login in which the turn was spoken.
LEMMA SpeakAnswered ==
  ASSUME ReplayInv, NEW t \in Turns, SpeakAnswer(t)
  PROVE  ReplayInv'
<1>1. PICK o \in StreamOutcomes(t, UserOf(t)) :
        /\ live[t] = "sent"
        /\ server' = [server EXCEPT ![t] = o.known]
        /\ SpeakReplied(t) \/ SpeakOffline(t) \/ SpeakRefused(t, o.answer)
        /\ mounted' = mounted \ {t}
        /\ UNCHANGED <<queue, token, scope, auth, shown, ended, dropped>>
  BY DEF SpeakAnswer
<1>2. TypeOK /\ MountedInv /\ EnqueueInv /\ PurgeInv /\ SyncCallInv /\ QueueInv /\ OrderInv
      /\ QueuedUntilSettled
  BY DEF ReplayInv
<1>3. /\ o.known \in {"new", "running", "saved"}
      /\ server[t] = "saved" => o.known = "saved"
  BY <1>2, Owners, OutcomeFacts
<1>4. /\ server' \in [Turns -> {"new", "running", "saved"}]
      /\ \A x \in Turns : Settled(x) => Settled(x)'
  BY <1>1, <1>2, <1>3, SettledGrows
<1>5. MountedInv'
  BY <1>1, <1>2 DEF MountedInv, UserOf
<1>6. ASSUME NEW a \in {"over", "broken", "recording"}, live' = [live EXCEPT ![t] = a]
      PROVE  /\ live' \in [Turns -> {"unsaid", "sent", "recording", "queued", "broken", "over"}]
             /\ \A x \in Turns : /\ live[x] = "recording" => live'[x] = "recording"
                                 /\ live'[x] = "queued" <=> live[x] = "queued"
  BY <1>1, <1>2, <1>6 DEF TypeOK
<1>7. CASE /\ live' = [live EXCEPT ![t] = "over"] \/ live' = [live EXCEPT ![t] = "broken"]
           /\ UNCHANGED <<sync, chain>>
  <2>1. /\ live' \in [Turns -> {"unsaid", "sent", "recording", "queued", "broken", "over"}]
        /\ \A x \in Turns : /\ live[x] = "recording" => live'[x] = "recording"
                            /\ live'[x] = "queued" <=> live[x] = "queued"
    BY <1>6, <1>7
  <2>2. TypeOK'
    BY <1>1, <1>2, <1>4, <1>7, <2>1 DEF TypeOK
  <2>. QED
    BY <1>1, <1>4, <1>5, <1>7, <2>1, <2>2, QuietStep
<1>8. CASE /\ live' = [live EXCEPT ![t] = "over"] /\ sync.pc = "idle"
           /\ sync' = [IdleSync EXCEPT !.pc = "list"]
           /\ chain' = Call("list", None)
  <2> DEFINE c == [op |-> "list", turn |-> None]
  <2>1. c \in Operation /\ c.op = "list"
    BY CallTypes
  <2>2. sync' \in SyncState /\ sync'.pc = "list" /\ sync'.todo = << >>
    BY <1>8, EmptySync DEF SyncPcs
  <2>3. chain' = Append(chain, c)
    BY <1>8 DEF Call
  <2> HIDE DEF c
  <2>4. chain' \in Seq(Operation)
    BY <1>2, <2>1, <2>3, Types, AppendFacts
  <2>5. /\ live' \in [Turns -> {"unsaid", "sent", "recording", "queued", "broken", "over"}]
        /\ \A x \in Turns : /\ live[x] = "recording" => live'[x] = "recording"
                            /\ live'[x] = "queued" <=> live[x] = "queued"
    BY <1>6, <1>8
  <2>6. TypeOK'
    BY <1>1, <1>2, <1>4, <2>2, <2>4, <2>5 DEF TypeOK, SyncState, SyncPcs
  <2>7. EnqueueInv' /\ PurgeInv'
    BY <1>1, <1>2, <2>1, <2>3, <2>5, CallsStand DEF SyncOps
  <2>8. Awaited(c)'
    BY <2>1, <2>2 DEF Awaited
  <2>9. SyncCallInv'
    BY <1>2, <1>8, <2>1, <2>2, <2>3, <2>8, AwaitBegins
  <2>10. QueueInv' /\ OrderInv' /\ QueuedUntilSettled'
    BY <1>1, <1>2, <1>4, <2>2, <2>5, QueueRests
  <2>. QED
    BY <1>5, <2>6, <2>7, <2>9, <2>10 DEF ReplayInv
<1>9. CASE /\ t \in mounted /\ live' = [live EXCEPT ![t] = "recording"]
           /\ chain' = Call("enqueue", t) /\ UNCHANGED sync
  <2> DEFINE c == [op |-> "enqueue", turn |-> t]
             n == Len(chain) + 1
  <2>1. c \in Operation /\ c.op = "enqueue" /\ c.turn = t
    BY CallTypes
  <2>2. chain' = Append(chain, c)
    BY <1>9 DEF Call
  <2> HIDE DEF c
  <2>3. /\ chain' \in Seq(Operation) /\ n \in DOMAIN chain' /\ chain'[n] = c
        /\ \A i \in DOMAIN chain' : i = n \/ (i \in DOMAIN chain /\ chain'[i] = chain[i])
        /\ \A i \in DOMAIN chain : i < n /\ i \in DOMAIN chain' /\ chain'[i] = chain[i]
    BY <1>2, <2>1, <2>2, Types, AppendFacts
  <2>4. /\ live' \in [Turns -> {"unsaid", "sent", "recording", "queued", "broken", "over"}]
        /\ \A x \in Turns : /\ live[x] = "recording" => live'[x] = "recording"
                            /\ live'[x] = "queued" <=> live[x] = "queued"
    BY <1>6, <1>9
  <2>5. scope = UserOf(t) /\ auth \in {"settled", "revoking", "stranded"} /\ live'[t] = "recording"
    BY <1>2, <1>9 DEF MountedInv, TypeOK
  <2>6. TypeOK'
    BY <1>1, <1>2, <1>4, <1>9, <2>3, <2>4 DEF TypeOK
  <2> HIDE DEF n
  <2>7. \A i \in CallsOf({"enqueue"})' : \/ i = n
                                         \/ /\ i \in CallsOf({"enqueue"}) /\ chain'[i] = chain[i]
                                            /\ chain[i].turn \in Turns /\ chain[i].turn # t
    <3>1. \A i \in CallsOf({"enqueue"}) : chain[i].turn \in Turns /\ live[chain[i].turn] = "recording"
      BY <1>2, Types, TurnCalls DEF CallsOf, EnqueueInv
    <3>. QED
      BY <1>1, <2>3, <3>1 DEF CallsOf
  <2>8. EnqueueInv'
    <3>1. ASSUME NEW i \in CallsOf({"enqueue"})'
          PROVE  /\ scope = UserOf(chain'[i].turn) /\ live'[chain'[i].turn] = "recording"
                 /\ auth \notin {"restoring", "purged"}
      BY <1>2, <2>1, <2>3, <2>4, <2>5, <2>7, <3>1 DEF EnqueueInv
    <3>2. ASSUME NEW i \in CallsOf({"enqueue"})', NEW j \in CallsOf({"enqueue"})',
                 chain'[j].turn = chain'[i].turn
          PROVE  j = i
      BY <1>2, <2>1, <2>3, <2>7, <3>2 DEF EnqueueInv
    <3>. QED
      BY <1>1, <3>1, <3>2 DEF EnqueueInv, UserOf
  <2>9. PurgeInv'
    <3>1. CallsOf({"purge"}) = {}
      BY <1>2, <2>5 DEF PurgeInv
    <3>2. CallsOf({"purge"})' = {}
      BY <2>1, <2>3, <3>1 DEF CallsOf
    <3>. QED
      BY <3>2 DEF PurgeInv
  <2>10. SyncCallInv'
    <3>1. \A i \in CallsOf(SyncOps)' : i \in CallsOf(SyncOps) /\ chain'[i] = chain[i]
      BY <2>1, <2>3 DEF CallsOf, SyncOps
    <3>2. \A i \in CallsOf(SyncOps) : chain[i] \in Operation
      BY <1>2, Types DEF CallsOf
    <3>3. \A i \in CallsOf(SyncOps)' : Awaited(chain[i])'
      BY <1>2, <1>4, <1>9, <3>1, <3>2, TurnCalls DEF SyncCallInv, Awaited
    <3>. QED
      BY <1>2, <1>9, <3>1, <3>3 DEF SyncCallInv
  <2>11. QueueInv' /\ OrderInv' /\ QueuedUntilSettled'
    BY <1>1, <1>2, <1>4, <1>9, <2>4, QueueRests
  <2>. QED
    BY <1>5, <2>6, <2>8, <2>9, <2>10, <2>11 DEF ReplayInv
<1>. QED
  BY <1>1, <1>7, <1>8, <1>9 DEF SpeakReplied, SpeakOffline, SpeakRefused

\* The steps of AuthViewModel: the view models and the calls of a login end with it.
LEMMA AuthKeeps ==
  ASSUME ReplayInv,
         \/ \E u \in Users : Login(u)
         \/ Logout \/ LogoutAnswered \/ LogoutDone \/ Restore
  PROVE  ReplayInv'
<1>1. TypeOK /\ MountedInv /\ EnqueueInv /\ PurgeInv
  BY DEF ReplayInv
<1>2. sync \in SyncState
  BY <1>1, Types
<1>3. \A i \in CallsOf({"enqueue"}) : scope \in Users
  BY <1>1, Types, TurnCalls, Owners DEF EnqueueInv, CallsOf
<1>4. CASE \E u \in Users : Login(u)
  <2>1. PICK u \in Users : Login(u)
    BY <1>4
  <2>2. /\ auth = "settled" /\ scope = None /\ token' = u /\ scope' = u
        /\ UNCHANGED <<queue, auth, mounted, chain, sync, live, shown, server, ended, dropped>>
    BY <2>1 DEF Login
  <2>3. CallsOf({"enqueue"}) = {} /\ CallsOf({"purge"}) = {} /\ mounted = {}
    BY <1>1, <1>3, <2>2, Owners DEF PurgeInv, MountedInv, TypeOK
  <2>4. TypeOK' /\ MountedInv'
    BY <1>1, <2>2, <2>3 DEF TypeOK, MountedInv
  <2>. QED
    BY <2>2, <2>3, <2>4, QuietStep DEF Settled
<1>5. CASE Logout
  <2>1. /\ auth = "settled" /\ auth' = "revoking" /\ sync' = [sync EXCEPT !.same = FALSE]
        /\ UNCHANGED <<queue, token, scope, mounted, chain, live, shown, server, ended, dropped>>
    BY <1>5 DEF Logout
  <2>2. sync' \in SyncState /\ sync'.pc = sync.pc /\ sync'.todo = sync.todo
    BY <1>2, <2>1, MoveSame
  <2>3. CallsOf({"purge"}) = {}
    BY <1>1, <2>1 DEF PurgeInv
  <2>4. TypeOK' /\ MountedInv'
    BY <1>1, <2>1, <2>2 DEF TypeOK, SyncState, SyncPcs, MountedInv, UserOf
  <2>. QED
    BY <2>1, <2>2, <2>3, <2>4, QuietStep DEF Settled
<1>6. CASE LogoutAnswered
  <2>1. /\ auth = "revoking" /\ token' = None
        /\ \/ auth' = "erasing" /\ mounted' = {}
           \/ auth' = "stranded" /\ mounted' = mounted
        /\ UNCHANGED <<queue, scope, chain, sync, live, shown, server, ended, dropped>>
    BY <1>6 DEF LogoutAnswered
  <2>2. CallsOf({"purge"}) = {}
    BY <1>1, <2>1 DEF PurgeInv
  <2>3. TypeOK' /\ MountedInv'
    BY <1>1, <2>1 DEF TypeOK, MountedInv, UserOf
  <2>. QED
    BY <2>1, <2>2, <2>3, QuietStep DEF Settled
<1>7. CASE LogoutDone
  <2>1. /\ auth = "purged" /\ scope' = None /\ auth' = "settled"
        /\ UNCHANGED <<queue, token, mounted, chain, sync, live, shown, server, ended, dropped>>
    BY <1>7 DEF LogoutDone
  <2>2. CallsOf({"enqueue"}) = {} /\ CallsOf({"purge"}) = {} /\ mounted = {}
    BY <1>1, <2>1 DEF EnqueueInv, PurgeInv, MountedInv, TypeOK
  <2>3. TypeOK' /\ MountedInv'
    BY <1>1, <2>1, <2>2 DEF TypeOK, MountedInv
  <2>. QED
    BY <2>1, <2>2, <2>3, QuietStep DEF Settled
<1>8. CASE Restore
  <2>1. /\ auth = "restoring" /\ auth' = "settled" /\ scope' \in {token, None} /\ token' \in {token, None}
        /\ UNCHANGED <<queue, mounted, chain, sync, live, shown, server, ended, dropped>>
    BY <1>8 DEF Restore
  <2>2. CallsOf({"enqueue"}) = {} /\ CallsOf({"purge"}) = {} /\ mounted = {}
    BY <1>1, <2>1 DEF EnqueueInv, PurgeInv, MountedInv, TypeOK
  <2>3. TypeOK' /\ MountedInv'
    BY <1>1, <2>1, <2>2 DEF TypeOK, MountedInv
  <2>. QED
    BY <2>1, <2>2, <2>3, QuietStep DEF Settled
<1>. QED
  BY <1>4, <1>5, <1>6, <1>7, <1>8

\* A logout calls the purge when its view models are gone, behind every call
\* they made.
LEMMA LogoutPurges ==
  ASSUME ReplayInv, LogoutPurge
  PROVE  ReplayInv'
<1> DEFINE c == [op |-> "purge", turn |-> None]
           n == Len(chain) + 1
<1>1. /\ auth = "erasing" /\ auth' = "purging" /\ chain' = Append(chain, c)
      /\ UNCHANGED <<queue, token, scope, mounted, sync, live, shown, server, ended, dropped>>
  BY DEF LogoutPurge, Call
<1>2. TypeOK /\ MountedInv /\ EnqueueInv /\ PurgeInv /\ SyncCallInv /\ QueueInv /\ OrderInv
      /\ QueuedUntilSettled
  BY DEF ReplayInv
<1>3. c \in Operation /\ c.op = "purge"
  BY CallTypes
<1> HIDE DEF c
<1>4. /\ chain' \in Seq(Operation) /\ n \in DOMAIN chain' /\ chain'[n] = c
      /\ \A i \in DOMAIN chain' : i = n \/ (i \in DOMAIN chain /\ chain'[i] = chain[i])
      /\ \A i \in DOMAIN chain : i < n
  BY <1>1, <1>2, <1>3, Types, AppendFacts
<1> HIDE DEF n
<1>5. TypeOK'
  BY <1>1, <1>2, <1>4 DEF TypeOK
<1>6. MountedInv'
  BY <1>1, <1>2 DEF MountedInv, TypeOK
<1>7. \A i \in CallsOf({"enqueue"})' : i \in CallsOf({"enqueue"}) /\ chain'[i] = chain[i] /\ i < n
  BY <1>3, <1>4 DEF CallsOf
<1>8. EnqueueInv'
  <2>1. ASSUME NEW i \in CallsOf({"enqueue"})'
        PROVE  /\ scope = UserOf(chain'[i].turn) /\ live[chain'[i].turn] = "recording"
               /\ \A j \in CallsOf({"enqueue"})' : chain'[j].turn = chain'[i].turn => j = i
    BY <1>2, <1>7 DEF EnqueueInv
  <2>. QED
    BY <1>1, <2>1 DEF EnqueueInv, UserOf
<1>9. CallsOf({"purge"}) = {}
  BY <1>1, <1>2 DEF PurgeInv
<1>10. \A i \in CallsOf({"purge"})' : i = n
  BY <1>4, <1>9 DEF CallsOf
<1>11. PurgeInv'
  BY <1>1, <1>7, <1>10 DEF PurgeInv
<1>12. SyncCallInv'
  <2>1. \A i \in CallsOf(SyncOps)' : i \in CallsOf(SyncOps) /\ chain'[i] = chain[i]
    BY <1>3, <1>4 DEF CallsOf, SyncOps
  <2>. QED
    BY <1>1, <1>2, <2>1 DEF SyncCallInv, Awaited, Settled
<1>13. QueueInv' /\ OrderInv' /\ QueuedUntilSettled'
  BY <1>1, <1>2, QueueRests DEF Settled
<1>. QED
  BY <1>5, <1>6, <1>8, <1>11, <1>12, <1>13 DEF ReplayInv

\* The application is killed and started again: the queue is all that counts.
LEMMA RestartKeeps ==
  ASSUME ReplayInv, Restart
  PROVE  ReplayInv'
<1>1. /\ auth' = "restoring" /\ scope' = None /\ mounted' = {} /\ chain' = << >> /\ sync' = IdleSync
      /\ live' = [t \in Turns |-> IF live[t] \in {"sent", "recording"} THEN "over" ELSE live[t]]
      /\ shown' = [online |-> TRUE, count |-> 0]
      /\ UNCHANGED <<queue, token, server, ended, dropped>>
  BY DEF Restart
<1>2. TypeOK /\ QueueInv /\ OrderInv /\ QueuedUntilSettled
  BY DEF ReplayInv
<1>3. sync' \in SyncState /\ sync'.pc = "idle" /\ sync'.todo = << >>
  BY <1>1, IdleSyncType
<1>4. TypeOK'
  BY <1>1, <1>2, <1>3 DEF TypeOK, SyncState, SyncPcs
<1>5. MountedInv'
  BY <1>1 DEF MountedInv
<1>6. CallsOf({"enqueue"})' = {} /\ CallsOf({"purge"})' = {} /\ CallsOf(SyncOps)' = {}
  BY <1>1 DEF CallsOf
<1>7. EnqueueInv' /\ PurgeInv' /\ SyncCallInv'
  BY <1>3, <1>6 DEF EnqueueInv, PurgeInv, SyncCallInv
<1>8. \A t \in Turns : live'[t] = "queued" <=> live[t] = "queued"
  BY <1>1
<1>9. QueueInv' /\ OrderInv' /\ QueuedUntilSettled'
  BY <1>1, <1>2, <1>3, <1>8, QueueRests DEF Settled
<1>. QED
  BY <1>4, <1>5, <1>7, <1>9 DEF ReplayInv

\* The server's own steps, and what the learner is shown.
LEMMA OthersKeep ==
  ASSUME ReplayInv,
         Refresh \/ (\E t \in Turns : Finish(t)) \/ (\E s \in Sessions : EndSession(s))
  PROVE  ReplayInv'
<1>1. TypeOK /\ MountedInv
  BY DEF ReplayInv
<1>2. CASE Refresh
  <2>1. /\ scope # None
        /\ UNCHANGED <<queue, token, scope, auth, mounted, chain, sync, live, server, ended, dropped>>
    BY <1>2 DEF Refresh
  <2>2. Len(queue[scope]) \in Nat
    BY <1>1, <2>1 DEF TypeOK
  <2> DEFINE n == Len(queue[scope])
  <2>3. shown' = [online |-> n = 0 \/ shown.online, count |-> n]
    BY <1>2 DEF Refresh
  <2>4. n \in Nat /\ shown.online \in BOOLEAN
    BY <1>1, <2>2 DEF TypeOK
  <2> HIDE DEF n
  <2>5. shown' \in [online : BOOLEAN, count : Nat]
    BY <2>3, <2>4
  <2>6. TypeOK' /\ MountedInv'
    BY <1>1, <2>1, <2>5 DEF TypeOK, MountedInv, UserOf
  <2>. QED
    BY <2>1, <2>6, QuietStep DEF Settled
<1>3. CASE \E t \in Turns : Finish(t)
  <2>1. PICK t \in Turns : Finish(t)
    BY <1>3
  <2>2. /\ server[t] = "running"
        /\ server' = [server EXCEPT ![t] = "saved"] \/ server' = [server EXCEPT ![t] = "new"]
        /\ UNCHANGED <<queue, token, scope, auth, mounted, chain, sync, live, shown, ended, dropped>>
    BY <2>1 DEF Finish
  <2>3. server' \in [Turns -> {"new", "running", "saved"}]
    BY <1>1, <2>2 DEF TypeOK
  <2>4. TypeOK' /\ MountedInv'
    BY <1>1, <2>2, <2>3 DEF TypeOK, MountedInv, UserOf
  <2>5. \A x \in Turns : Settled(x) => Settled(x)'
    BY <1>1, <2>2 DEF TypeOK, Settled
  <2>. QED
    BY <2>2, <2>4, <2>5, QuietStep
<1>4. CASE \E s \in Sessions : EndSession(s)
  <2>1. PICK s \in Sessions : EndSession(s)
    BY <1>4
  <2>2. /\ ended' = ended \cup {s}
        /\ UNCHANGED <<queue, token, scope, auth, mounted, chain, sync, live, shown, server, dropped>>
    BY <2>1 DEF EndSession
  <2>3. TypeOK' /\ MountedInv'
    BY <1>1, <2>2 DEF TypeOK, MountedInv, UserOf
  <2>. QED
    BY <2>2, <2>3, QuietStep DEF Settled
<1>. QED
  BY <1>2, <1>3, <1>4

----------------------------------------------------------------------------
(* The theorems                                                            *)

\* The invariant is inductive: it holds after every step of the application,
\* of the server and of the learner.
LEMMA ReplayStep == ReplayInv /\ [Next]_vars => ReplayInv'
<1> SUFFICES ASSUME ReplayInv, [Next]_vars PROVE ReplayInv'
  OBVIOUS
<1>1. ASSUME NEW op \in TurnOps \cup OtherOps, RunOperation(op) PROVE ReplayInv'
  <2>1. op \in {"enqueue", "remove", "list", "purge", "countSync", "countRecord"}
    BY DEF TurnOps, OtherOps
  <2>. QED
    BY <1>1, <2>1, EnqueueRuns, RemoveRuns, ListRuns, PurgeRuns, CountRuns
<1>2. CASE OperationFails
  BY <1>2, FailureKeeps
<1>3. CASE StartSync
  BY <1>3, ReplayStarts
<1>4. CASE SyncNext
  BY <1>4, ReplayNext
<1>5. CASE SyncRefresh
  BY <1>5, ReplayRefreshes
<1>6. CASE SomeAnswer
  BY <1>6, ReplayAnswered
<1>7. ASSUME NEW t \in Turns, Speak(t) PROVE ReplayInv'
  BY <1>7, SpeakKeeps
<1>8. ASSUME NEW t \in Turns, SpeakAnswer(t) PROVE ReplayInv'
  BY <1>8, SpeakAnswered
<1>9. CASE Refresh \/ (\E t \in Turns : Finish(t)) \/ (\E s \in Sessions : EndSession(s))
  BY <1>9, OthersKeep
<1>10. CASE (\E u \in Users : Login(u)) \/ Logout \/ LogoutAnswered \/ LogoutDone \/ Restore
  BY <1>10, AuthKeeps
<1>11. CASE LogoutPurge
  BY <1>11, LogoutPurges
<1>12. CASE Restart
  BY <1>12, RestartKeeps
<1>13. CASE UNCHANGED vars
  <2>1. TypeOK' /\ MountedInv'
    BY <1>13 DEF ReplayInv, TypeOK, MountedInv, UserOf, vars
  <2>. QED
    BY <1>13, <2>1, QuietStep DEF vars, Settled
<1>. QED
  BY <1>1, <1>2, <1>3, <1>4, <1>5, <1>6, <1>7, <1>8, <1>9, <1>10, <1>11, <1>12, <1>13 DEF Next

\* The invariant holds of every behaviour of the application.
THEOREM ReplayInvariant == Spec => []ReplayInv
BY ReplayInit, ReplayStep, PTL DEF Spec

\* The state of the queue, the replay and the logins stays well typed.
THEOREM ReplayTypeCorrect == Spec => []TypeOK
<1>1. ReplayInv => TypeOK
  BY DEF ReplayInv
<1>. QED
  BY <1>1, ReplayInvariant, PTL

\* Each learner's queue holds only turns that this learner spoke, although an
\* operation looks up the learner only when its turn in the chain comes (#349).
THEOREM QueuesAreOwn == Spec => []OnlyOwnTurnsQueued
<1>1. ReplayInv => OnlyOwnTurnsQueued
  BY DEF ReplayInv, QueueInv, OnlyOwnTurnsQueued, Items
<1>. QED
  BY <1>1, ReplayInvariant, PTL

\* A queued turn stays in the queue, through failures, restarts and lost
\* answers, until the server has saved or refused it or its learner logs out.
THEOREM QueuedTurnsAreKept == Spec => []QueuedUntilSettled
<1>1. ReplayInv => QueuedUntilSettled
  BY DEF ReplayInv
<1>. QED
  BY <1>1, ReplayInvariant, PTL

\* No turn is replayed while one queued before it is unsettled.
THEOREM ReplayKeepsOrder == Spec => []ReplayInOrder
<1>1. ReplayInv => ReplayInOrder
  <2> SUFFICES ASSUME ReplayInv, sync.pc = "sent",
                      NEW i \in DOMAIN queue[UserOf(Head(sync.todo))],
                      NEW j \in DOMAIN queue[UserOf(Head(sync.todo))],
                      i < j, queue[UserOf(Head(sync.todo))][j] = Head(sync.todo)
               PROVE  Settled(queue[UserOf(Head(sync.todo))][i])
    BY DEF ReplayInOrder, Settled
  <2>1. sync.todo \in Seq(Turns) /\ sync.todo # << >>
    BY Types DEF ReplayInv, SyncCallInv
  <2>2. /\ Head(sync.todo) = sync.todo[1] /\ 1 \in DOMAIN sync.todo /\ Head(sync.todo) \in Turns
        /\ DOMAIN sync.todo \subseteq Nat \ {0}
    BY <2>1
  <2>3. UserOf(Head(sync.todo)) \in Users
    BY <2>2, Owners
  <2>4. ~ \E m \in DOMAIN sync.todo : m < 1
    BY <2>2
  <2>. QED
    BY <2>2, <2>3, <2>4 DEF ReplayInv, OrderInv
<1>. QED
  BY <1>1, ReplayInvariant, PTL
=============================================================================
