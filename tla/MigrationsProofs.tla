--------------------------- MODULE MigrationsProofs ---------------------------
(* Proofs about the schema migrations: an upgrade keeps the learners' rows, *)
(* and wherever a walk of upgrades, downgrades, refused commands and writes *)
(* has led, the schema is the one of its revision.  The second goes by the  *)
(* kinds of operation (what each does to a schema and needs of the rows),   *)
(* then by the scripts (what each of the twenty-seven revisions turns a     *)
(* table into, and back), then by the chains of a command.                  *)
EXTENDS Migrations, FiniteSetTheorems, TLAPS
LOCAL INSTANCE SequencesExt
WF == INSTANCE WellFoundedInduction

----------------------------------------------------------------------------
(* Numbers                                                                 *)

\* A set of numbers that is not empty has a least one.
LEMMA LeastNumber ==
    ASSUME NEW T \in SUBSET Nat, T # {}
    PROVE  \E n \in T : \A m \in T : n <= m
<1>. DEFINE R == {x \in Nat \X Nat : x[1] < x[2]}
<1>1. WF!IsWellFoundedOn(R, Nat)
  BY WF!NatLessThanWellFounded DEF WF!OpToRel
<1>2. PICK n \in T : \A m \in T : ~(<<m, n>> \in R)
  <2>. HIDE DEF R
  <2>. QED
    BY <1>1, WF!WFMin
<1>3. ASSUME NEW m \in T PROVE n <= m
  <2>1. ~(m < n)
    BY <1>2
  <2>. QED
    BY <2>1
<1>. QED
  BY <1>3

\* What begins with 0 and goes on from each number to the next holds up to n.
LEMMA UpTo ==
    ASSUME NEW n \in Nat, NEW T \in SUBSET (0..n), 0 \in T,
           \A m \in 0..n : m + 1 \in 0..n /\ m \in T => m + 1 \in T
    PROVE  T = 0..n
<1>. DEFINE U == (0..n) \ T
<1>. SUFFICES ASSUME U # {} PROVE FALSE
  OBVIOUS
<1>0. U \in SUBSET Nat
  OBVIOUS
<1>1. PICK m \in U : \A k \in U : m <= k
  <2>. HIDE DEF U
  <2>. QED
    BY <1>0, LeastNumber
<1>2. m # 0 /\ m - 1 \in 0..n /\ (m - 1) + 1 = m
  BY <1>1
<1>3. m - 1 \in T
  BY <1>1, <1>2
<1>. QED
  BY <1>1, <1>2, <1>3

----------------------------------------------------------------------------
(* The migrations: runs of operations and of scripts                       *)

\* The states of a script's run.
RunOf(run, start, ops, n) ==
    run = [i \in 0..n |-> IF i = 0 THEN start ELSE RunOp(run[i - 1], ops[i])]

LEMMA RunExists ==
    ASSUME NEW start, NEW ops, NEW n \in Nat
    PROVE  \E run : RunOf(run, start, ops, n)
<1>. DEFINE T == {m \in 0..n : \E run : RunOf(run, start, ops, m)}
<1>1. 0 \in T
  <2>. DEFINE run == [i \in 0..0 |-> start]
  <2>1. run = [i \in 0..0 |-> IF i = 0 THEN start ELSE RunOp(run[i - 1], ops[i])]
    OBVIOUS
  <2>2. RunOf(run, start, ops, 0)
    BY <2>1 DEF RunOf
  <2>. QED
    BY <2>2
<1>2. ASSUME NEW m \in 0..n, m + 1 \in 0..n, m \in T PROVE m + 1 \in T
  <2>1. PICK f : RunOf(f, start, ops, m)
    BY <1>2
  <2>2. f = [i \in 0..m |-> IF i = 0 THEN start ELSE RunOp(f[i - 1], ops[i])]
    BY <2>1 DEF RunOf
  <2>3. \A i \in 0..m : f[i] = IF i = 0 THEN start ELSE RunOp(f[i - 1], ops[i])
    BY <2>2
  <2>. DEFINE g == [i \in 0..(m + 1) |-> IF i = m + 1 THEN RunOp(f[m], ops[m + 1]) ELSE f[i]]
              h == [i \in 0..(m + 1) |-> IF i = 0 THEN start ELSE RunOp(g[i - 1], ops[i])]
  <2>4. \A i \in 0..m : g[i] = f[i]
    OBVIOUS
  <2>5. ASSUME NEW i \in 0..(m + 1) PROVE g[i] = h[i]
    <3>1. CASE i = m + 1
      <4>1. g[i] = RunOp(f[m], ops[m + 1]) /\ i # 0 /\ i - 1 = m /\ m \in 0..m
        BY <3>1
      <4>2. h[i] = RunOp(g[m], ops[m + 1])
        BY <3>1, <4>1
      <4>. QED
        BY <2>4, <4>1, <4>2
    <3>2. CASE i # m + 1
      <4>1. i \in 0..m /\ (i # 0 => i - 1 \in 0..m)
        BY <3>2
      <4>. HIDE DEF g
      <4>2. h[i] = IF i = 0 THEN start ELSE RunOp(g[i - 1], ops[i])
        OBVIOUS
      <4>. HIDE DEF h
      <4>. QED
        BY <2>3, <2>4, <4>1, <4>2
    <3>. QED
      BY <3>1, <3>2
  <2>6. DOMAIN g = 0..(m + 1) /\ DOMAIN h = 0..(m + 1)
    OBVIOUS
  <2>7. g = [i \in 0..(m + 1) |-> g[i]] /\ h = [i \in 0..(m + 1) |-> h[i]]
    OBVIOUS
  <2>8. g = h
    <3>. HIDE DEF g, h
    <3>. QED
      BY <2>5, <2>7
  <2>9. RunOf(g, start, ops, m + 1)
    <3>. HIDE DEF g
    <3>. QED
      BY <2>8 DEF RunOf
  <2>. QED
    BY <1>2, <2>9
<1>3. T = 0..n
  <2>. HIDE DEF T
  <2>1. T \in SUBSET (0..n)
    BY DEF T
  <2>. QED
    BY <1>1, <1>2, <2>1, UpTo
<1>. QED
  BY <1>3

LEMMA RunOpsIs ==
    ASSUME NEW start, NEW ops, Len(ops) \in Nat
    PROVE  \E run : RunOf(run, start, ops, Len(ops)) /\ RunOps(start, ops) = run[Len(ops)]
<1>1. PICK e : RunOf(e, start, ops, Len(ops))
  BY RunExists
<1>. DEFINE run == CHOOSE f : f = [i \in 0..Len(ops) |-> IF i = 0 THEN start ELSE RunOp(f[i - 1],
        ops[i])]
<1>2. run = [i \in 0..Len(ops) |-> IF i = 0 THEN start ELSE RunOp(run[i - 1], ops[i])]
  BY <1>1 DEF RunOf
<1>3. RunOps(start, ops) = run[Len(ops)]
  BY DEF RunOps
<1>. HIDE DEF run
<1>. QED
  BY <1>2, <1>3 DEF RunOf
\* The states of a run of several scripts.
ChainOf(run, start, scripts, n) ==
    run = [i \in 0..n |-> IF i = 0 THEN start ELSE RunOps(run[i - 1], scripts[i])]

LEMMA ChainExists ==
    ASSUME NEW start, NEW scripts, NEW n \in Nat
    PROVE  \E run : ChainOf(run, start, scripts, n)
<1>. DEFINE T == {m \in 0..n : \E run : ChainOf(run, start, scripts, m)}
<1>1. 0 \in T
  <2>. DEFINE run == [i \in 0..0 |-> start]
  <2>1. run = [i \in 0..0 |-> IF i = 0 THEN start ELSE RunOps(run[i - 1], scripts[i])]
    OBVIOUS
  <2>2. ChainOf(run, start, scripts, 0)
    BY <2>1 DEF ChainOf
  <2>. QED
    BY <2>2
<1>2. ASSUME NEW m \in 0..n, m + 1 \in 0..n, m \in T PROVE m + 1 \in T
  <2>1. PICK f : ChainOf(f, start, scripts, m)
    BY <1>2
  <2>2. f = [i \in 0..m |-> IF i = 0 THEN start ELSE RunOps(f[i - 1], scripts[i])]
    BY <2>1 DEF ChainOf
  <2>3. \A i \in 0..m : f[i] = IF i = 0 THEN start ELSE RunOps(f[i - 1], scripts[i])
    BY <2>2
  <2>. DEFINE g == [i \in 0..(m + 1) |-> IF i = m + 1 THEN RunOps(f[m], scripts[m + 1]) ELSE f[i]]
              h == [i \in 0..(m + 1) |-> IF i = 0 THEN start ELSE RunOps(g[i - 1], scripts[i])]
  <2>4. \A i \in 0..m : g[i] = f[i]
    OBVIOUS
  <2>5. ASSUME NEW i \in 0..(m + 1) PROVE g[i] = h[i]
    <3>1. CASE i = m + 1
      <4>1. g[i] = RunOps(f[m], scripts[m + 1]) /\ i # 0 /\ i - 1 = m /\ m \in 0..m
        BY <3>1
      <4>2. h[i] = RunOps(g[m], scripts[m + 1])
        BY <3>1, <4>1
      <4>. QED
        BY <2>4, <4>1, <4>2
    <3>2. CASE i # m + 1
      <4>1. i \in 0..m /\ (i # 0 => i - 1 \in 0..m)
        BY <3>2
      <4>. HIDE DEF g
      <4>2. h[i] = IF i = 0 THEN start ELSE RunOps(g[i - 1], scripts[i])
        OBVIOUS
      <4>. HIDE DEF h
      <4>. QED
        BY <2>3, <2>4, <4>1, <4>2
    <3>. QED
      BY <3>1, <3>2
  <2>6. DOMAIN g = 0..(m + 1) /\ DOMAIN h = 0..(m + 1)
    OBVIOUS
  <2>7. g = [i \in 0..(m + 1) |-> g[i]] /\ h = [i \in 0..(m + 1) |-> h[i]]
    OBVIOUS
  <2>8. g = h
    <3>. HIDE DEF g, h
    <3>. QED
      BY <2>5, <2>7
  <2>9. ChainOf(g, start, scripts, m + 1)
    <3>. HIDE DEF g
    <3>. QED
      BY <2>8 DEF ChainOf
  <2>. QED
    BY <1>2, <2>9
<1>3. T = 0..n
  <2>. HIDE DEF T
  <2>1. T \in SUBSET (0..n)
    BY DEF T
  <2>. QED
    BY <1>1, <1>2, <2>1, UpTo
<1>. QED
  BY <1>3

LEMMA RunScriptsIs ==
    ASSUME NEW db, NEW scripts, Len(scripts) \in Nat
    PROVE  \E run : ChainOf(run, Begun(db), scripts, Len(scripts)) /\ RunScripts(db,
             scripts) = run[Len(scripts)]
<1>1. PICK e : ChainOf(e, Begun(db), scripts, Len(scripts))
  BY ChainExists
<1>. DEFINE run == CHOOSE f : f = [i \in 0..Len(scripts) |-> IF i = 0 THEN Begun(db) ELSE RunOps(f[i - 1], scripts[i])]
<1>2. run = [i \in 0..Len(scripts) |-> IF i = 0 THEN Begun(db) ELSE RunOps(run[i - 1], scripts[i])]
  BY <1>1 DEF ChainOf
<1>3. RunScripts(db, scripts) = run[Len(scripts)]
  BY DEF RunScripts
<1>. HIDE DEF run
<1>. QED
  BY <1>2, <1>3 DEF ChainOf

----------------------------------------------------------------------------
(* The migrations: what a learner's rows are, and what keeps them          *)

SessionRow == [id : Ids, started : 1..MaxStart, open : BOOLEAN]

IsDatabase(db) ==
    /\ db = [schema |-> db.schema, sessions |-> db.sessions, activations |-> db.activations,
             accounts |-> db.accounts, claim |-> db.claim]
    /\ db.sessions \in SUBSET SessionRow
    /\ db.activations \in SUBSET Ids
    /\ db.accounts \in SUBSET Spellings

\* What the operations so far have kept of the rows of before.  A session is closed,
\* never opened, and the activations that are left are old ones.
Keeps(before, db) ==
    /\ {s.id : s \in db.sessions} = {s.id : s \in before.sessions}
    /\ OpenSessions(db) \subseteq OpenSessions(before)
    /\ OpenSessions(before) # {} => Newest(OpenSessions(before)) \in db.sessions
    /\ db.activations \subseteq before.activations
    /\ \A a \in before.activations :
           (\A b \in before.activations : a <= b) => a \in db.activations
    /\ Cardinality(db.accounts) = Cardinality(before.accounts)
    /\ db.claim = before.claim

\* The kinds of operation, and those that upgrades use.
Kinds == {"create", "drop", "drop table", "drop column", "add undefaulted", "relax", "tighten",
          "close extras", "drop duplicate activations", "lowercase emails", "backfill responses"}
KeepingKinds == {"create", "drop", "drop column", "relax", "close extras",
                 "drop duplicate activations", "lowercase emails"}

\* A run of operations that has come this far, of an upgrade if up.
InOrder(run, before, up) ==
    /\ run = [ok |-> run.ok, db |-> run.db]
    /\ run.ok \in BOOLEAN
    /\ run.ok => IsDatabase(run.db) /\ (up => Keeps(before, run.db))

OpOf(o, up) == o.does \in IF up THEN KeepingKinds ELSE Kinds
ScriptOf(ops, up) == Len(ops) \in Nat /\ \A i \in 1..Len(ops) : OpOf(ops[i], up)

\* Of the sessions of a learner that are not none, one is the newest.
LEMMA NewestIsThere ==
    ASSUME NEW rows \in SUBSET SessionRow, rows # {}
    PROVE  /\ Newest(rows) \in rows
           /\ \A o \in rows : \/ o.started < Newest(rows).started
                              \/ o.started = Newest(rows).started /\ o.id <= Newest(rows).id
<1>. DEFINE Late == {MaxStart - s.started : s \in rows}
<1>0. \A s \in rows : s.started \in 1..MaxStart /\ s.id \in 1..MaxId
  BY DEF SessionRow, Ids
<1>1. Late \in SUBSET Nat /\ Late # {}
  BY <1>0, MigrationAssumption
<1>2. PICK l \in Late : \A m \in Late : l <= m
  <2>. HIDE DEF Late
  <2>. QED
    BY <1>1, LeastNumber
<1>3. PICK p \in rows : l = MaxStart - p.started
  BY <1>2
<1>4. \A s \in rows : s.started <= p.started
  <2>. SUFFICES ASSUME NEW s \in rows PROVE s.started <= p.started
    OBVIOUS
  <2>1. MaxStart - s.started \in Late
    OBVIOUS
  <2>2. MaxStart - p.started <= MaxStart - s.started
    BY <1>2, <1>3, <2>1
  <2>. QED
    BY <1>0, <2>2, MigrationAssumption
<1>. DEFINE High == {MaxId - s.id : s \in {t \in rows : t.started = p.started}}
<1>5. High \in SUBSET Nat /\ High # {}
  BY <1>0, <1>3, MigrationAssumption
<1>6. PICK h \in High : \A m \in High : h <= m
  <2>. HIDE DEF High
  <2>. QED
    BY <1>5, LeastNumber
<1>7. PICK n \in rows : n.started = p.started /\ h = MaxId - n.id
  BY <1>6
<1>8. ASSUME NEW s \in rows, s.started = p.started PROVE s.id <= n.id
  <2>1. MaxId - s.id \in High
    BY <1>8
  <2>2. MaxId - n.id <= MaxId - s.id
    BY <1>6, <1>7, <2>1
  <2>. QED
    BY <1>0, <2>2, MigrationAssumption
<1>9. \A o \in rows : o.started < n.started \/ (o.started = n.started /\ o.id <= n.id)
  BY <1>0, <1>4, <1>7, <1>8
<1>. QED
  BY <1>9 DEF Newest

\* A database keeps what it has.
LEMMA KeepsItself ==
    ASSUME NEW db, IsDatabase(db)
    PROVE  Keeps(db, db)
<1>1. OpenSessions(db) \in SUBSET SessionRow
  BY DEF IsDatabase, OpenSessions
<1>2. OpenSessions(db) # {} => Newest(OpenSessions(db)) \in OpenSessions(db)
  BY <1>1, NewestIsThere
<1>. QED
  BY <1>2 DEF Keeps, OpenSessions

\* Closing the extra active sessions leaves the newest.
LEMMA CloseExtrasKeeps ==
    ASSUME NEW before, IsDatabase(before), NEW db, IsDatabase(db), NEW up \in BOOLEAN,
           up => Keeps(before, db)
    PROVE  IsDatabase(CloseExtras(db)) /\ (up => Keeps(before, CloseExtras(db)))
<1>. DEFINE Extra(x) == \E k \in OpenSessions(db) : \/ x.started < k.started
                                                    \/ x.started = k.started /\ x.id < k.id
            Left(s) == IF s.open /\ Extra(s) THEN [s EXCEPT !.open = FALSE] ELSE s
            left == {Left(s) : s \in db.sessions}
            after == CloseExtras(db)
<1>1. after = [db EXCEPT !.sessions = left]
  BY DEF CloseExtras
<1>2. /\ after = [schema |-> db.schema, sessions |-> left, activations |-> db.activations,
                  accounts |-> db.accounts, claim |-> db.claim]
  <2>. HIDE DEF left, after
  <2>. QED
    BY <1>1 DEF IsDatabase
<1>3. \A s \in db.sessions : /\ Left(s) \in SessionRow /\ Left(s).id = s.id
                             /\ (Left(s).open => Left(s) = s)
  <2>. SUFFICES ASSUME NEW s \in db.sessions
                PROVE  Left(s) \in SessionRow /\ Left(s).id = s.id /\ (Left(s).open => Left(s) = s)
    OBVIOUS
  <2>1. s \in SessionRow
    BY DEF IsDatabase
  <2>2. CASE s.open /\ Extra(s)
    <3>1. Left(s) = [s EXCEPT !.open = FALSE]
      BY <2>2
    <3>. HIDE DEF Left
    <3>. QED
      BY <2>1, <3>1 DEF SessionRow
  <2>3. CASE ~(s.open /\ Extra(s))
    <3>1. Left(s) = s
      BY <2>3
    <3>. HIDE DEF Left
    <3>. QED
      BY <2>1, <3>1
  <2>. QED
    BY <2>2, <2>3
<1>4. left \in SUBSET SessionRow
  <2>. HIDE DEF Left
  <2>. QED
    BY <1>3
<1>5. /\ after.sessions = left /\ after.schema = db.schema /\ after.activations = db.activations
      /\ after.accounts = db.accounts /\ after.claim = db.claim
  <2>. HIDE DEF left, after
  <2>. QED
    BY <1>2
<1>6. IsDatabase(after)
  <2>. HIDE DEF left, after
  <2>. QED
    BY <1>2, <1>4, <1>5 DEF IsDatabase
<1>7. ASSUME up PROVE Keeps(before, after)
  <2>. DEFINE newest == Newest(OpenSessions(before))
  <2>1. {s.id : s \in left} = {s.id : s \in db.sessions}
    <3>. HIDE DEF Left
    <3>. QED
      BY <1>3
  <2>2. OpenSessions(after) \subseteq OpenSessions(db)
    <3>. SUFFICES ASSUME NEW x \in OpenSessions(after) PROVE x \in OpenSessions(db)
      OBVIOUS
    <3>1. x \in left /\ x.open
      <4>. HIDE DEF left, after
      <4>. QED
        BY <1>5 DEF OpenSessions
    <3>2. PICK s \in db.sessions : x = Left(s)
      BY <3>1
    <3>. HIDE DEF Left
    <3>. QED
      BY <1>3, <3>1, <3>2 DEF OpenSessions
  <2>3. ASSUME OpenSessions(before) # {} PROVE newest \in left
    <3>1. OpenSessions(before) \in SUBSET SessionRow
      BY DEF IsDatabase, OpenSessions
    <3>2. \A o \in OpenSessions(before) : \/ o.started < newest.started
                                          \/ o.started = newest.started /\ o.id <= newest.id
      BY <2>3, <3>1, NewestIsThere
    <3>3. newest \in OpenSessions(before)
      BY <2>3, <3>1, NewestIsThere
    <3>4. OpenSessions(db) \subseteq OpenSessions(before) /\ newest \in db.sessions
      BY <1>7, <2>3 DEF Keeps
    <3>5. \A o \in OpenSessions(before) : o.started \in Int /\ o.id \in Int
      BY <3>1, MigrationAssumption DEF SessionRow, Ids
    <3>6. ~Extra(newest)
      <4>. HIDE DEF newest
      <4>. QED
        BY <3>2, <3>3, <3>4, <3>5
    <3>7. Left(newest) = newest
      BY <3>6
    <3>. HIDE DEF Left, newest
    <3>. QED
      BY <3>4, <3>7
  <2>. HIDE DEF left, after
  <2>. QED
    BY <1>5, <1>7, <2>1, <2>2, <2>3 DEF Keeps
<1>. QED
  BY <1>6, <1>7

\* The other statements, and a change of the schema alone.
LEMMA DropDuplicateActivationsKeeps ==
    ASSUME NEW before, IsDatabase(before), NEW db, IsDatabase(db), NEW up \in BOOLEAN,
           up => Keeps(before, db)
    PROVE  /\ IsDatabase(DropDuplicateActivations(db))
           /\ up => Keeps(before, DropDuplicateActivations(db))
<1>. DEFINE left == {a \in db.activations : ~ \E b \in db.activations : a > b}
            after == DropDuplicateActivations(db)
<1>1. after = [schema |-> db.schema, sessions |-> db.sessions, activations |-> left,
               accounts |-> db.accounts, claim |-> db.claim]
  <2>1. after = [db EXCEPT !.activations = left]
    BY DEF DropDuplicateActivations
  <2>. HIDE DEF left, after
  <2>2. db = [schema |-> db.schema, sessions |-> db.sessions, activations |-> db.activations,
              accounts |-> db.accounts, claim |-> db.claim]
    BY DEF IsDatabase
  <2>. QED
    BY <2>1, <2>2
<1>2. left \subseteq db.activations
  OBVIOUS
<1>3. /\ after.sessions = db.sessions /\ after.schema = db.schema /\ after.activations = left
      /\ after.accounts = db.accounts /\ after.claim = db.claim
  <2>. HIDE DEF left, after
  <2>. QED
    BY <1>1
<1>4. IsDatabase(after)
  <2>. HIDE DEF left, after
  <2>. QED
    BY <1>1, <1>2, <1>3 DEF IsDatabase
<1>5. ASSUME up PROVE Keeps(before, after)
  <2>1. OpenSessions(after) = OpenSessions(db)
    <3>. HIDE DEF left, after
    <3>. QED
      BY <1>3 DEF OpenSessions
  <2>2. ASSUME NEW a \in before.activations, \A b \in before.activations : a <= b
        PROVE  a \in left
    <3>1. a \in db.activations /\ db.activations \subseteq before.activations
      BY <1>5, <2>2 DEF Keeps
    <3>2. \A b \in before.activations : b \in Int
      BY MigrationAssumption DEF IsDatabase, Ids
    <3>. QED
      BY <2>2, <3>1, <3>2
  <2>. HIDE DEF left, after
  <2>. QED
    BY <1>2, <1>3, <1>5, <2>1, <2>2 DEF Keeps
<1>. QED
  BY <1>4, <1>5

LEMMA LowercaseEmailsKeeps ==
    ASSUME NEW before, IsDatabase(before), NEW db, IsDatabase(db), NEW up \in BOOLEAN,
           up => Keeps(before, db),
           \A a, b \in db.accounts : a # b => Lower(a) # Lower(b)
    PROVE  /\ IsDatabase(LowercaseEmails(db))
           /\ up => Keeps(before, LowercaseEmails(db))
<1>. DEFINE left == {Lower(a) : a \in db.accounts}
            after == LowercaseEmails(db)
<1>1. after = [schema |-> db.schema, sessions |-> db.sessions, activations |-> db.activations,
               accounts |-> left, claim |-> db.claim]
  <2>1. after = [db EXCEPT !.accounts = left]
    BY DEF LowercaseEmails
  <2>. HIDE DEF left, after
  <2>2. db = [schema |-> db.schema, sessions |-> db.sessions, activations |-> db.activations,
              accounts |-> db.accounts, claim |-> db.claim]
    BY DEF IsDatabase
  <2>. QED
    BY <2>1, <2>2
<1>2. left \in SUBSET Spellings
  BY DEF Spellings, Lower
<1>3. /\ after.sessions = db.sessions /\ after.schema = db.schema
      /\ after.activations = db.activations /\ after.accounts = left /\ after.claim = db.claim
  <2>. HIDE DEF left, after
  <2>. QED
    BY <1>1
<1>4. IsDatabase(after)
  <2>. HIDE DEF left, after
  <2>. QED
    BY <1>1, <1>2, <1>3 DEF IsDatabase
<1>5. Cardinality(left) = Cardinality(db.accounts)
  <2>1. CASE db.accounts = {}
    BY <2>1
  <2>2. CASE db.accounts # {}
    <3>1. PICK a : a \in db.accounts
      BY <2>2
    <3>2. db.accounts = {a}
      BY <3>1 DEF Lower
    <3>3. left = {Lower(a)}
      BY <3>2
    <3>. QED
      BY <3>2, <3>3, FS_Singleton
  <2>. QED
    BY <2>1, <2>2
<1>6. ASSUME up PROVE Keeps(before, after)
  <2>1. OpenSessions(after) = OpenSessions(db)
    <3>. HIDE DEF left, after
    <3>. QED
      BY <1>3 DEF OpenSessions
  <2>. HIDE DEF left, after
  <2>. QED
    BY <1>3, <1>5, <1>6, <2>1 DEF Keeps
<1>. QED
  BY <1>4, <1>6

LEMMA SchemaChangeKeeps ==
    ASSUME NEW before, NEW db, IsDatabase(db), NEW up \in BOOLEAN,
           up => Keeps(before, db), NEW schema
    PROVE  /\ IsDatabase([db EXCEPT !.schema = schema])
           /\ up => Keeps(before, [db EXCEPT !.schema = schema])
<1>. DEFINE after == [db EXCEPT !.schema = schema]
<1>1. after = [schema |-> schema, sessions |-> db.sessions, activations |-> db.activations,
               accounts |-> db.accounts, claim |-> db.claim]
  BY DEF IsDatabase
<1>2. /\ after.sessions = db.sessions /\ after.schema = schema
      /\ after.activations = db.activations /\ after.accounts = db.accounts /\ after.claim = db.claim
  <2>. HIDE DEF after
  <2>. QED
    BY <1>1
<1>3. OpenSessions(after) = OpenSessions(db)
  <2>. HIDE DEF after
  <2>. QED
    BY <1>2 DEF OpenSessions
<1>. HIDE DEF after
<1>4. IsDatabase(after)
  BY <1>1, <1>2 DEF IsDatabase
<1>5. up => Keeps(before, after)
  BY <1>2, <1>3 DEF Keeps
<1>. QED
  BY <1>4, <1>5 DEF after

\* The operations that only downgrades use.
LEMMA DowngradeOpsType ==
    ASSUME NEW db, IsDatabase(db), NEW t
    PROVE  IsDatabase(Emptied(db, t)) /\ IsDatabase(BackfillResponses(db))
<1>1. \A set \in SUBSET SessionRow : IsDatabase([db EXCEPT !.sessions = set])
  BY DEF IsDatabase
<1>2. \A set \in SUBSET Ids : IsDatabase([db EXCEPT !.activations = set])
  BY DEF IsDatabase
<1>3. \A set \in SUBSET Spellings : IsDatabase([db EXCEPT !.accounts = set])
  BY DEF IsDatabase
<1>4. \A claim : IsDatabase([db EXCEPT !.claim = claim])
  BY DEF IsDatabase
<1>5. IsDatabase(Emptied(db, t))
  BY <1>1, <1>2, <1>3, <1>4 DEF Emptied
<1>6. IsDatabase(BackfillResponses(db))
  BY <1>4 DEF BackfillResponses
<1>. QED
  BY <1>5, <1>6

LEMMA AppliedKeeps ==
    ASSUME NEW before, IsDatabase(before), NEW db, IsDatabase(db), NEW up \in BOOLEAN,
           up => Keeps(before, db), NEW o, OpOf(o, up),
           Accepts(db, o)
    PROVE  IsDatabase(Applied(db, o)) /\ (up => Keeps(before, Applied(db, o)))
<1>. USE DEF OpOf, Kinds, KeepingKinds
<1>1. CASE o.does \in {"create", "add undefaulted", "drop", "drop column", "relax", "tighten"}
  <2>1. PICK schema : Applied(db, o) = [db EXCEPT !.schema = schema]
    BY <1>1 DEF Applied
  <2>2. /\ IsDatabase([db EXCEPT !.schema = schema])
        /\ up => Keeps(before, [db EXCEPT !.schema = schema])
    BY SchemaChangeKeeps
  <2>. QED
    BY <2>1, <2>2, Zenon
<1>2. CASE o.does = "drop table"
  <2>1. ~up
    BY <1>2
  <2>. DEFINE bare == [db EXCEPT !.schema = {x \in @ : x[1] # o.table}]
  <2>2. Applied(db, o) = Emptied(bare, o.table)
    BY <1>2 DEF Applied
  <2>3. IsDatabase(bare)
    BY SchemaChangeKeeps
  <2>. HIDE DEF bare
  <2>. QED
    BY <2>1, <2>2, <2>3, DowngradeOpsType
<1>3. CASE o.does = "backfill responses"
  <2>1. ~up /\ Applied(db, o) = BackfillResponses(db)
    BY <1>3 DEF Applied
  <2>. QED
    BY <2>1, DowngradeOpsType
<1>4. CASE o.does = "close extras"
  <2>1. Applied(db, o) = CloseExtras(db)
    BY <1>4 DEF Applied
  <2>. QED
    BY <2>1, CloseExtrasKeeps
<1>5. CASE o.does = "drop duplicate activations"
  <2>1. Applied(db, o) = DropDuplicateActivations(db)
    BY <1>5 DEF Applied
  <2>. QED
    BY <2>1, DropDuplicateActivationsKeeps
<1>6. CASE o.does = "lowercase emails"
  <2>1. Applied(db, o) = LowercaseEmails(db)
    BY <1>6 DEF Applied
  <2>2. \A a, b \in db.accounts : a # b => Lower(a) # Lower(b)
    BY <1>6 DEF Accepts
  <2>. QED
    BY <2>1, <2>2, LowercaseEmailsKeeps
<1>. QED
  BY <1>1, <1>2, <1>3, <1>4, <1>5, <1>6

\* One operation more, a script more, and a whole command.
LEMMA RunOpInOrder ==
    ASSUME NEW before, IsDatabase(before), NEW up \in BOOLEAN,
           NEW run, InOrder(run, before, up),
           NEW o, OpOf(o, up)
    PROVE  InOrder(RunOp(run, o), before, up)
<1>1. CASE run.ok /\ Accepts(run.db, o)
  <2>1. RunOp(run, o) = [ok |-> TRUE, db |-> Applied(run.db, o)]
    <3>1. RunOp(run, o) = [run EXCEPT !.db = Applied(run.db, o)]
      BY <1>1 DEF RunOp
    <3>2. run = [ok |-> run.ok, db |-> run.db] /\ run.ok = TRUE
      BY <1>1 DEF InOrder
    <3>. DEFINE new == Applied(run.db, o)
    <3>3. [run EXCEPT !.db = new] = [ok |-> run.ok, db |-> new]
      <4>. HIDE DEF new
      <4>. QED
        BY <3>2
    <3>. QED
      BY <3>1, <3>2, <3>3, Zenon
  <2>2. IsDatabase(run.db) /\ (up => Keeps(before, run.db))
    BY <1>1 DEF InOrder
  <2>3. IsDatabase(Applied(run.db, o)) /\ (up => Keeps(before, Applied(run.db, o)))
    BY <1>1, <2>2, AppliedKeeps
  <2>. QED
    BY <2>1, <2>3 DEF InOrder
<1>2. CASE ~(run.ok /\ Accepts(run.db, o))
  <2>1. RunOp(run, o) = [run EXCEPT !.ok = FALSE]
    BY <1>2 DEF RunOp
  <2>2. RunOp(run, o) = [ok |-> FALSE, db |-> run.db]
    BY <2>1 DEF InOrder
  <2>. QED
    BY <2>2 DEF InOrder
<1>. QED
  BY <1>1, <1>2

LEMMA RunOpsInOrder ==
    ASSUME NEW before, IsDatabase(before), NEW up \in BOOLEAN,
           NEW start, InOrder(start, before, up), NEW ops, ScriptOf(ops, up)
    PROVE  InOrder(RunOps(start, ops), before, up)
<1>0. Len(ops) \in Nat
  BY DEF ScriptOf
<1>1. PICK run : RunOf(run, start, ops, Len(ops)) /\ RunOps(start, ops) = run[Len(ops)]
  BY <1>0, RunOpsIs
<1>2. \A i \in 0..Len(ops) : run[i] = IF i = 0 THEN start ELSE RunOp(run[i - 1], ops[i])
  BY <1>1 DEF RunOf
<1>. DEFINE T == {i \in 0..Len(ops) : InOrder(run[i], before, up)}
<1>3. 0 \in T
  BY <1>0, <1>2
<1>4. ASSUME NEW m \in 0..Len(ops), m + 1 \in 0..Len(ops), m \in T PROVE m + 1 \in T
  <2>1. run[m + 1] = RunOp(run[m], ops[m + 1])
    BY <1>0, <1>2, <1>4
  <2>2. OpOf(ops[m + 1], up)
    BY <1>0, <1>4 DEF ScriptOf
  <2>. QED
    BY <1>4, <2>1, <2>2, RunOpInOrder
<1>5. T = 0..Len(ops)
  <2>1. T \in SUBSET (0..Len(ops))
    OBVIOUS
  <2>. HIDE DEF T
  <2>. QED
    BY <1>0, <1>3, <1>4, <2>1, UpTo
<1>. QED
  BY <1>0, <1>1, <1>5

LEMMA RunScriptsInOrder ==
    ASSUME NEW db, IsDatabase(db), NEW up \in BOOLEAN, NEW scripts, Len(scripts) \in Nat,
           \A i \in 1..Len(scripts) : ScriptOf(scripts[i], up)
    PROVE  InOrder(RunScripts(db, scripts), db, up)
<1>1. PICK run : /\ ChainOf(run, Begun(db), scripts, Len(scripts))
                 /\ RunScripts(db, scripts) = run[Len(scripts)]
  BY RunScriptsIs
<1>2. \A i \in 0..Len(scripts) : run[i] = IF i = 0 THEN Begun(db) ELSE RunOps(run[i - 1], scripts[i])
  BY <1>1 DEF ChainOf
<1>. DEFINE T == {i \in 0..Len(scripts) : InOrder(run[i], db, up)}
<1>3. 0 \in T
  <2>1. InOrder(Begun(db), db, up)
    BY KeepsItself DEF Begun, InOrder
  <2>. QED
    BY <1>2, <2>1
<1>4. ASSUME NEW m \in 0..Len(scripts), m + 1 \in 0..Len(scripts), m \in T PROVE m + 1 \in T
  <2>1. run[m + 1] = RunOps(run[m], scripts[m + 1])
    BY <1>2, <1>4
  <2>2. ScriptOf(scripts[m + 1], up)
    BY <1>4
  <2>. QED
    BY <1>4, <2>1, <2>2, RunOpsInOrder
<1>5. T = 0..Len(scripts)
  <2>1. T \in SUBSET (0..Len(scripts))
    OBVIOUS
  <2>. HIDE DEF T
  <2>. QED
    BY <1>3, <1>4, <2>1, UpTo
<1>. QED
  BY <1>1, <1>5

\* The operations that the scripts are made of.
LEMMA OpsAreKnown ==
    /\ \A what : OpOf(Create(what), TRUE) /\ OpOf(Create(what), FALSE)
    /\ \A what : OpOf(Drop(what), TRUE) /\ OpOf(Drop(what), FALSE)
    /\ \A t, c : OpOf(DropColumn(t, c), TRUE) /\ OpOf(DropColumn(t, c), FALSE)
    /\ \A t, c : OpOf(Relax(t, c), TRUE)
    /\ \A t : OpOf(DropTable(t), FALSE)
    /\ \A t, c : OpOf(AddUndefaulted(t, c), FALSE) /\ OpOf(Tighten(t, c), FALSE)
    /\ \A s \in {"close extras", "drop duplicate activations", "lowercase emails"} :
           OpOf(Execute(s), TRUE)
    /\ OpOf(Execute("backfill responses"), FALSE)
  BY DEF OpOf, Kinds, KeepingKinds, Op, Create, Drop, DropColumn, Relax, DropTable,
         AddUndefaulted, Tighten, Execute

LEMMA ShortScripts ==
    ASSUME NEW up \in BOOLEAN, NEW a, NEW b, NEW c, NEW d, NEW e, OpOf(a, up)
    PROVE  /\ ScriptOf(<<a>>, up)
           /\ OpOf(b, up) => ScriptOf(<<a, b>>, up)
           /\ OpOf(b, up) /\ OpOf(c, up) => ScriptOf(<<a, b, c>>, up)
           /\ OpOf(b, up) /\ OpOf(c, up) /\ OpOf(d, up) => ScriptOf(<<a, b, c, d>>, up)
           /\ OpOf(b, up) /\ OpOf(c, up) /\ OpOf(d, up) /\ OpOf(e, up)
                => ScriptOf(<<a, b, c, d, e>>, up)
  BY DEF ScriptOf

\* Every upgrade consists of operations that keep the rows, every downgrade of known ones.
IsRevision(r) == ScriptOf(r.up, TRUE) /\ ScriptOf(r.down, FALSE)

LEMMA RevisionsAreScripts ==
    HeadRevision = 27 /\ \A r \in 1..27 : IsRevision(Revisions[r])
<1>1. HeadRevision = 27
  BY DEF HeadRevision, Revisions
<1>2. \A up, down : ScriptOf(up, TRUE) /\ ScriptOf(down, FALSE) => IsRevision(Script(up, down))
  BY DEF IsRevision, Script
<1>3. IsRevision(rev_fed9f2ac9d04)
  BY <1>2, OpsAreKnown, ShortScripts DEF rev_fed9f2ac9d04
<1>4. IsRevision(rev_c680843e1e0a)
  BY <1>2, OpsAreKnown, ShortScripts DEF rev_c680843e1e0a
<1>5. IsRevision(rev_4c4cd5d33301)
  BY <1>2, OpsAreKnown, ShortScripts DEF rev_4c4cd5d33301
<1>6. IsRevision(rev_a580567ea83a)
  BY <1>2, OpsAreKnown, ShortScripts DEF rev_a580567ea83a
<1>7. IsRevision(rev_1aca44166335)
  BY <1>2, OpsAreKnown, ShortScripts DEF rev_1aca44166335
<1>8. IsRevision(rev_ba64d112828d)
  BY <1>2, OpsAreKnown, ShortScripts DEF rev_ba64d112828d
<1>9. IsRevision(rev_f3a4b2c1d0e9)
  BY <1>2, OpsAreKnown, ShortScripts DEF rev_f3a4b2c1d0e9
<1>10. IsRevision(rev_fb4423db1c92)
  BY <1>2, OpsAreKnown, ShortScripts DEF rev_fb4423db1c92
<1>11. IsRevision(rev_02cf10ba6ab7)
  BY <1>2, OpsAreKnown, ShortScripts DEF rev_02cf10ba6ab7
<1>12. IsRevision(rev_fc233850563a)
  BY <1>2, OpsAreKnown, ShortScripts DEF rev_fc233850563a
<1>13. IsRevision(rev_a1b2c3d4e5f6)
  BY <1>2, OpsAreKnown, ShortScripts DEF rev_a1b2c3d4e5f6
<1>14. IsRevision(rev_b2c3d4e5f6a7)
  BY <1>2, OpsAreKnown, ShortScripts DEF rev_b2c3d4e5f6a7
<1>15. IsRevision(rev_c3d4e5f6a7b8)
  BY <1>2, OpsAreKnown, ShortScripts DEF rev_c3d4e5f6a7b8
<1>16. IsRevision(rev_d4e5f6a7b8c9)
  BY <1>2, OpsAreKnown, ShortScripts DEF rev_d4e5f6a7b8c9
<1>17. IsRevision(rev_e5f6a7b8c9d0)
  BY <1>2, OpsAreKnown, ShortScripts DEF rev_e5f6a7b8c9d0
<1>18. IsRevision(rev_f6a7b8c9d0e1)
  BY <1>2, OpsAreKnown, ShortScripts DEF rev_f6a7b8c9d0e1
<1>19. IsRevision(rev_a7b8c9d0e1f2)
  BY <1>2, OpsAreKnown, ShortScripts DEF rev_a7b8c9d0e1f2
<1>20. IsRevision(rev_b8c9d0e1f2a3)
  BY <1>2, OpsAreKnown, ShortScripts DEF rev_b8c9d0e1f2a3
<1>21. IsRevision(rev_c1d2e3f4a5b6)
  BY <1>2, OpsAreKnown, ShortScripts DEF rev_c1d2e3f4a5b6
<1>22. IsRevision(rev_d2e3f4a5b6c7)
  BY <1>2, OpsAreKnown, ShortScripts DEF rev_d2e3f4a5b6c7
<1>23. IsRevision(rev_1a2b3c4d5e6f)
  BY <1>2, OpsAreKnown, ShortScripts DEF rev_1a2b3c4d5e6f
<1>24. IsRevision(rev_f2a1b0c9d8e7)
  BY <1>2, OpsAreKnown, ShortScripts DEF rev_f2a1b0c9d8e7
<1>25. IsRevision(rev_eea2e957ec48)
  BY <1>2, OpsAreKnown, ShortScripts DEF rev_eea2e957ec48
<1>26. IsRevision(rev_b9ee2fa53721)
  BY <1>2, OpsAreKnown, ShortScripts DEF rev_b9ee2fa53721
<1>27. IsRevision(rev_22c153382454)
  BY <1>2, OpsAreKnown, ShortScripts DEF rev_22c153382454
<1>28. IsRevision(rev_a4b5c6d7e8f9)
  BY <1>2, OpsAreKnown, ShortScripts DEF rev_a4b5c6d7e8f9
<1>29. IsRevision(rev_b5c6d7e8f9a0)
  BY <1>2, OpsAreKnown, ShortScripts DEF rev_b5c6d7e8f9a0
<1>30. ASSUME NEW r \in 1..27 PROVE IsRevision(Revisions[r])
  <2>1. /\ Revisions[1] = rev_fed9f2ac9d04
        /\ Revisions[2] = rev_c680843e1e0a
        /\ Revisions[3] = rev_4c4cd5d33301
        /\ Revisions[4] = rev_a580567ea83a
        /\ Revisions[5] = rev_1aca44166335
        /\ Revisions[6] = rev_ba64d112828d
        /\ Revisions[7] = rev_f3a4b2c1d0e9
        /\ Revisions[8] = rev_fb4423db1c92
        /\ Revisions[9] = rev_02cf10ba6ab7
        /\ Revisions[10] = rev_fc233850563a
        /\ Revisions[11] = rev_a1b2c3d4e5f6
        /\ Revisions[12] = rev_b2c3d4e5f6a7
        /\ Revisions[13] = rev_c3d4e5f6a7b8
        /\ Revisions[14] = rev_d4e5f6a7b8c9
        /\ Revisions[15] = rev_e5f6a7b8c9d0
        /\ Revisions[16] = rev_f6a7b8c9d0e1
        /\ Revisions[17] = rev_a7b8c9d0e1f2
        /\ Revisions[18] = rev_b8c9d0e1f2a3
        /\ Revisions[19] = rev_c1d2e3f4a5b6
        /\ Revisions[20] = rev_d2e3f4a5b6c7
        /\ Revisions[21] = rev_1a2b3c4d5e6f
        /\ Revisions[22] = rev_f2a1b0c9d8e7
        /\ Revisions[23] = rev_eea2e957ec48
        /\ Revisions[24] = rev_b9ee2fa53721
        /\ Revisions[25] = rev_22c153382454
        /\ Revisions[26] = rev_a4b5c6d7e8f9
        /\ Revisions[27] = rev_b5c6d7e8f9a0
    BY DEF Revisions
  <2>2. \/ r = 1 \/ r = 2 \/ r = 3 \/ r = 4 \/ r = 5 \/ r = 6 \/ r = 7 \/ r = 8 \/ r = 9
        \/ r = 10 \/ r = 11 \/ r = 12 \/ r = 13 \/ r = 14 \/ r = 15 \/ r = 16 \/ r = 17 \/ r = 18
        \/ r = 19 \/ r = 20 \/ r = 21 \/ r = 22 \/ r = 23 \/ r = 24 \/ r = 25 \/ r = 26 \/ r = 27
    OBVIOUS
  <2>. QED
    BY <1>3, <1>4, <1>5, <1>6, <1>7, <1>8, <1>9, <1>10, <1>11, <1>12, <1>13, <1>14, <1>15, <1>16,
       <1>17, <1>18, <1>19, <1>20, <1>21, <1>22, <1>23, <1>24, <1>25, <1>26, <1>27, <1>28, <1>29,
       <2>1, <2>2
<1>. QED
  BY <1>1, <1>30

----------------------------------------------------------------------------
(* The migrations: the steps                                               *)

MigrationTypeOK == IsDatabase(database) /\ revision \in 0..HeadRevision

LEMMA UpsAndDowns ==
    ASSUME NEW from \in 0..HeadRevision, NEW to \in 0..HeadRevision
    PROVE  /\ from <= to => /\ Len(Ups(from, to)) \in Nat
                            /\ \A i \in 1..Len(Ups(from, to)) : ScriptOf(Ups(from, to)[i], TRUE)
           /\ to <= from => /\ Len(Downs(from, to)) \in Nat
                            /\ \A i \in 1..Len(Downs(from, to)) : ScriptOf(Downs(from, to)[i], FALSE)
<1>1. HeadRevision = 27 /\ \A r \in 1..27 : ScriptOf(Revisions[r].up, TRUE)
        /\ ScriptOf(Revisions[r].down, FALSE)
  BY RevisionsAreScripts DEF IsRevision
<1>2. ASSUME from <= to
      PROVE  /\ Len(Ups(from, to)) \in Nat
             /\ \A i \in 1..Len(Ups(from, to)) : ScriptOf(Ups(from, to)[i], TRUE)
  <2>1. Len(Ups(from, to)) = to - from
    BY <1>1, <1>2 DEF Ups
  <2>2. ASSUME NEW i \in 1..(to - from) PROVE ScriptOf(Ups(from, to)[i], TRUE)
    <3>1. Ups(from, to)[i] = Revisions[from + i].up /\ from + i \in 1..27
      BY <1>1, <1>2 DEF Ups
    <3>. QED
      BY <1>1, <3>1
  <2>3. to - from \in Nat
    BY <1>1, <1>2
  <2>. QED
    BY <2>1, <2>2, <2>3, Zenon
<1>3. ASSUME to <= from
      PROVE  /\ Len(Downs(from, to)) \in Nat
             /\ \A i \in 1..Len(Downs(from, to)) : ScriptOf(Downs(from, to)[i], FALSE)
  <2>1. Len(Downs(from, to)) = from - to
    BY <1>1, <1>3 DEF Downs
  <2>2. ASSUME NEW i \in 1..(from - to) PROVE ScriptOf(Downs(from, to)[i], FALSE)
    <3>1. Downs(from, to)[i] = Revisions[from + 1 - i].down /\ from + 1 - i \in 1..27
      BY <1>1, <1>3 DEF Downs
    <3>. QED
      BY <1>1, <3>1
  <2>3. from - to \in Nat
    BY <1>1, <1>3
  <2>. QED
    BY <2>1, <2>2, <2>3, Zenon
<1>. QED
  BY <1>2, <1>3

LEMMA UpgradeStep ==
    ASSUME MigrationTypeOK, Upgrade
    PROVE  MigrationTypeOK' /\ (revision' > revision => Keeps(database, database'))
<1>0. HeadRevision = 27
  BY RevisionsAreScripts
<1>1. PICK to \in {revision + 1, HeadRevision} : Command("upgrade", to)
  BY DEF Upgrade
<1>2. revision \in 0..HeadRevision /\ to \in 0..HeadRevision /\ revision <= to
  BY <1>0, <1>1 DEF Upgrade, MigrationTypeOK
<1>. DEFINE run == RunScripts(database, Ups(revision, to))
<1>3. InOrder(run, database, TRUE)
  BY <1>2, UpsAndDowns, RunScriptsInOrder DEF MigrationTypeOK
<1>4. IF run.ok THEN database' = run.db /\ revision' = to
      ELSE UNCHANGED <<database, revision>>
  BY <1>1 DEF Command
<1>. HIDE DEF run
<1>5. CASE run.ok
  BY <1>2, <1>3, <1>4, <1>5 DEF InOrder, MigrationTypeOK, HeadRevision
<1>6. CASE ~run.ok
  BY <1>0, <1>2, <1>4, <1>6 DEF MigrationTypeOK, HeadRevision
<1>. QED
  BY <1>5, <1>6

LEMMA DowngradeStep ==
    ASSUME MigrationTypeOK, Downgrade
    PROVE  MigrationTypeOK' /\ ~(revision' > revision)
<1>0. HeadRevision = 27
  BY RevisionsAreScripts
<1>1. PICK to \in {revision - 1, 0} : Command("downgrade", to)
  BY DEF Downgrade
<1>2. revision \in 0..HeadRevision /\ to \in 0..HeadRevision /\ to <= revision
  BY <1>0, <1>1 DEF Downgrade, MigrationTypeOK
<1>. DEFINE run == RunScripts(database, Downs(revision, to))
<1>3. InOrder(run, database, FALSE)
  BY <1>2, UpsAndDowns, RunScriptsInOrder DEF MigrationTypeOK
<1>4. IF run.ok THEN database' = run.db /\ revision' = to
      ELSE UNCHANGED <<database, revision>>
  BY <1>1 DEF Command
<1>. HIDE DEF run
<1>5. CASE run.ok
  BY <1>0, <1>2, <1>3, <1>4, <1>5 DEF InOrder, MigrationTypeOK, HeadRevision
<1>6. CASE ~run.ok
  BY <1>0, <1>2, <1>4, <1>6 DEF MigrationTypeOK, HeadRevision
<1>. QED
  BY <1>5, <1>6

LEMMA WriteStep ==
    ASSUME MigrationTypeOK, SessionWrites \/ ActivationWrites \/ AccountWrites \/ ClaimWrites
    PROVE  MigrationTypeOK' /\ ~(revision' > revision)
<1>0. revision \in Int /\ IsDatabase(database)
  BY RevisionsAreScripts DEF MigrationTypeOK
<1>1. ASSUME NEW db, Write(db), IsDatabase(db) PROVE MigrationTypeOK' /\ ~(revision' > revision)
  BY <1>0, <1>1 DEF Write, MigrationTypeOK, HeadRevision
<1>2. \A set \in SUBSET SessionRow : IsDatabase([database EXCEPT !.sessions = set])
  BY <1>0 DEF IsDatabase
<1>3. \A set \in SUBSET Ids : IsDatabase([database EXCEPT !.activations = set])
  BY <1>0 DEF IsDatabase
<1>4. \A set \in SUBSET Spellings : IsDatabase([database EXCEPT !.accounts = set])
  BY <1>0 DEF IsDatabase
<1>5. \A claim : IsDatabase([database EXCEPT !.claim = claim])
  BY <1>0 DEF IsDatabase
<1>6. database.sessions \in SUBSET SessionRow /\ database.activations \in SUBSET Ids
      /\ database.accounts \in SUBSET Spellings
  BY <1>0 DEF IsDatabase
<1>7. ASSUME NEW id \in Ids, NEW started \in 1..MaxStart, OpenSession(id, started)
      PROVE  MigrationTypeOK' /\ ~(revision' > revision)
  <2>. DEFINE set == database.sessions \cup {[id |-> id, started |-> started, open |-> TRUE]}
  <2>1. set \in SUBSET SessionRow
    <3>1. [id |-> id, started |-> started, open |-> TRUE] \in SessionRow
      BY <1>7 DEF SessionRow
    <3>. QED
      BY <1>6, <3>1
  <2>2. Write([database EXCEPT !.sessions = set])
    BY <1>7 DEF OpenSession
  <2>. HIDE DEF set
  <2>. QED
    BY <1>1, <1>2, <2>1, <2>2
<1>8. ASSUME NEW s \in database.sessions, EndSession(s)
      PROVE  MigrationTypeOK' /\ ~(revision' > revision)
  <2>. DEFINE set == (database.sessions \ {s}) \cup {[s EXCEPT !.open = FALSE]}
  <2>1. set \in SUBSET SessionRow
    <3>1. s \in SessionRow
      BY <1>6, <1>8
    <3>2. [s EXCEPT !.open = FALSE] \in SessionRow
      BY <3>1 DEF SessionRow
    <3>. QED
      BY <1>6, <3>2
  <2>2. Write([database EXCEPT !.sessions = set])
    BY <1>8 DEF EndSession
  <2>. HIDE DEF set
  <2>. QED
    BY <1>1, <1>2, <2>1, <2>2
<1>9. CASE EraseSessions
  <2>1. Write([database EXCEPT !.sessions = {}])
    BY <1>9 DEF EraseSessions
  <2>. QED
    BY <1>1, <1>2, <2>1
<1>10. ASSUME NEW id \in Ids, Activate(id) PROVE MigrationTypeOK' /\ ~(revision' > revision)
  <2>. DEFINE set == database.activations \cup {id}
  <2>1. set \in SUBSET Ids
    BY <1>6
  <2>2. Write([database EXCEPT !.activations = set])
    BY <1>10 DEF Activate
  <2>. HIDE DEF set
  <2>. QED
    BY <1>1, <1>3, <2>1, <2>2
<1>11. ASSUME NEW email \in Spellings, Register(email)
       PROVE  MigrationTypeOK' /\ ~(revision' > revision)
  <2>. DEFINE set == database.accounts \cup {email}
  <2>1. set \in SUBSET Spellings
    BY <1>6
  <2>2. Write([database EXCEPT !.accounts = set])
    BY <1>11 DEF Register
  <2>. HIDE DEF set
  <2>. QED
    BY <1>1, <1>4, <2>1, <2>2
<1>12. CASE MergeAccounts
  <2>1. Write([database EXCEPT !.accounts = {"jean"}]) /\ {"jean"} \in SUBSET Spellings
    BY <1>12 DEF MergeAccounts, Spellings
  <2>. QED
    BY <1>1, <1>4, <2>1
<1>13. CASE Claim \/ Complete
  <2>1. PICK claim : Write([database EXCEPT !.claim = claim])
    BY <1>13 DEF Claim, Complete
  <2>. QED
    BY <1>1, <1>5, <2>1
<1>. QED
  BY <1>7, <1>8, <1>9, <1>10, <1>11, <1>12, <1>13
     DEF SessionWrites, ActivationWrites, AccountWrites, ClaimWrites

(* For any number of sessions and activations, with any starts: no upgrade, of   *)
(* one revision or to the head, over a database at any revision and in any use,  *)
(* loses a session row, the session a learner is in, their first activation or   *)
(* an account (migrations/versions, run by env.py).                              *)
THEOREM UpgradesKeepLearners == MigrationSpec => UpgradeKeepsLearners
<1>1. MigrationInit => MigrationTypeOK
  <2>. SUFFICES ASSUME MigrationInit PROVE MigrationTypeOK
    OBVIOUS
  <2>1. IsDatabase(EmptyDatabase)
    BY DEF IsDatabase, EmptyDatabase
  <2>. QED
    BY <2>1, RevisionsAreScripts DEF MigrationInit, MigrationTypeOK
<1>. DEFINE Kept == revision' > revision => Keeps(database, database')
<1>2. ASSUME MigrationTypeOK, [MigrationNext]_migrationVars
      PROVE  MigrationTypeOK' /\ (MigrationNext => Kept)
  <2>1. CASE Upgrade
    BY <1>2, <2>1, UpgradeStep
  <2>2. CASE Downgrade
    BY <1>2, <2>2, DowngradeStep
  <2>3. CASE SessionWrites \/ ActivationWrites \/ AccountWrites \/ ClaimWrites
    BY <1>2, <2>3, WriteStep
  <2>4. CASE UNCHANGED migrationVars
    <3>1. ~(revision' > revision)
      BY <1>2, <2>4, RevisionsAreScripts DEF migrationVars, MigrationTypeOK
    <3>2. MigrationTypeOK'
      BY <1>2, <2>4 DEF migrationVars, MigrationTypeOK, HeadRevision
    <3>. QED
      BY <3>1, <3>2
  <2>. QED
    BY <1>2, <2>1, <2>2, <2>3, <2>4 DEF MigrationNext
<1>3. ASSUME MigrationTypeOK, MigrationNext, revision' > revision
      PROVE  /\ {s.id : s \in database'.sessions} = {s.id : s \in database.sessions}
             /\ OpenSessions(database) # {} => Newest(OpenSessions(database)) \in database'.sessions
             /\ \A a \in database.activations :
                    (\A b \in database.activations : a <= b) => a \in database'.activations
             /\ Cardinality(database'.accounts) = Cardinality(database.accounts)
             /\ database'.claim = database.claim
  <2>1. Keeps(database, database')
    BY <1>2, <1>3
  <2>. QED
    BY <2>1 DEF Keeps
<1>. QED
  BY <1>1, <1>2, <1>3, PTL DEF MigrationSpec, UpgradeKeepsLearners

----------------------------------------------------------------------------
(* The migrations: tables                                                  *)

\* A table: its required and optional columns, and what else is on them.
Table(t, required, optional, more) == Required(t, required) \cup Optional(t, optional) \cup more
NoneOf(rest, t) == \A x \in rest : x[1] # t
Extras(more, t) == \A x \in more : x[1] = t /\ ~IsColumn(x)
\* They stand on these columns, or point at a table of the rest.
StandsIn(x, columns, rest) ==
    IF IsForeignKey(x) THEN x[2][1] \in columns /\ <<x[2][2], <<"id">>, "required">> \in rest
    ELSE \A i \in DOMAIN x[2] : x[2][i] \in columns

\* What a command may need of the rows, and what an operation does not add to them.
OneAccount(db) == \A a, b \in db.accounts : a = b
Meets(db, need) == /\ need = "no sessions" => db.sessions = {}
                   /\ need = "one account" => OneAccount(db)
Calm(db, after) == /\ db.sessions = {} => after.sessions = {}
                   /\ OneAccount(db) => OneAccount(after)

\* An operation leads from one schema to another, and is accepted if the need is met.
Does(o, from, to, need) ==
    \A db : IsDatabase(db) /\ db.schema = from =>
        /\ Meets(db, need) => Accepts(db, o)
        /\ Accepts(db, o) => /\ IsDatabase(Applied(db, o)) /\ Applied(db, o).schema = to
                             /\ Calm(db, Applied(db, o))

LEMMA ColumnsOfTable ==
    ASSUME NEW t, NEW rest, NoneOf(rest, t), NEW req, NEW opt, NEW more, Extras(more, t)
    PROVE  /\ Columns(rest \cup Table(t, req, opt, more), t) = req \cup opt
           /\ \A x \in Table(t, req, opt, more) : x[1] = t
<1>. DEFINE S == rest \cup Table(t, req, opt, more)
<1>1. \A x : x \in Table(t, req, opt, more) <=>
         \/ \E c \in req : x = <<t, <<c>>, "required">>
         \/ \E c \in opt : x = <<t, <<c>>, "optional">>
         \/ x \in more
  BY DEF Table, Required, Optional
<1>2. \A x \in Table(t, req, opt, more) : x[1] = t
  BY <1>1 DEF Extras
<1>3. Columns(S, t) \subseteq req \cup opt
  <2>. SUFFICES ASSUME NEW x \in S, x[1] = t, IsColumn(x) PROVE x[2][1] \in req \cup opt
    BY DEF Columns
  <2>1. x \in Table(t, req, opt, more)
    BY DEF NoneOf
  <2>2. x \notin more
    BY DEF Extras
  <2>. QED
    BY <1>1, <2>1, <2>2
<1>4. req \cup opt \subseteq Columns(S, t)
  <2>1. ASSUME NEW c \in req PROVE c \in Columns(S, t)
    <3>. DEFINE x == <<t, <<c>>, "required">>
    <3>1. x \in S /\ x[1] = t /\ x[2][1] = c /\ IsColumn(x)
      BY <1>1 DEF IsColumn
    <3>. QED
      BY <3>1 DEF Columns
  <2>2. ASSUME NEW c \in opt PROVE c \in Columns(S, t)
    <3>. DEFINE x == <<t, <<c>>, "optional">>
    <3>1. x \in S /\ x[1] = t /\ x[2][1] = c /\ IsColumn(x)
      BY <1>1 DEF IsColumn
    <3>. QED
      BY <3>1 DEF Columns
  <2>. QED
    BY <2>1, <2>2
<1>. QED
  BY <1>2, <1>3, <1>4

LEMMA TablesAre ==
    ASSUME NEW S, NEW t, NEW c, <<t, <<c>>, "required">> \in S
    PROVE  t \in Tables(S)
<1>. DEFINE x == <<t, <<c>>, "required">>
<1>1. x \in S /\ IsColumn(x) /\ x[1] = t
  BY DEF IsColumn
<1>. QED
  BY <1>1 DEF Tables

\* What stands in a table is supported by the schema.
LEMMA StandingIsSupported ==
    ASSUME NEW t, NEW rest, NoneOf(rest, t), NEW req, NEW opt, NEW more, Extras(more, t),
           NEW what \in SUBSET Table(t, req, opt, more),
           \A x \in what : x \in more => StandsIn(x, req \cup opt, rest)
    PROVE  Supported(what, rest \cup Table(t, req, opt, more))
<1>. DEFINE S == rest \cup Table(t, req, opt, more)
<1>1. Columns(S, t) = req \cup opt /\ \A x \in what : x[1] = t
  BY ColumnsOfTable
<1>2. ASSUME NEW x \in what, x \in more
      PROVE  IF IsForeignKey(x) THEN x[2][1] \in Columns(S, x[1]) /\ x[2][2] \in Tables(S)
             ELSE ToSet(x[2]) \subseteq Columns(S, x[1])
  <2>1. StandsIn(x, req \cup opt, rest) /\ x[1] = t
    BY <1>1, <1>2
  <2>2. CASE IsForeignKey(x)
    <3>1. x[2][1] \in req \cup opt /\ <<x[2][2], <<"id">>, "required">> \in S
      BY <2>1, <2>2 DEF StandsIn
    <3>2. x[2][2] \in Tables(S)
      BY <3>1, TablesAre
    <3>. QED
      BY <1>1, <2>1, <2>2, <3>1, <3>2
  <2>3. CASE ~IsForeignKey(x)
    <3>1. \A i \in DOMAIN x[2] : x[2][i] \in req \cup opt
      BY <2>1, <2>3 DEF StandsIn
    <3>. QED
      BY <1>1, <2>1, <2>3, <3>1 DEF ToSet
  <2>. QED
    BY <2>2, <2>3
<1>3. ASSUME NEW x \in what, x \notin more
      PROVE  ~IsForeignKey(x) /\ ToSet(x[2]) \subseteq Columns(S, x[1])
  <2>1. PICK c \in req \cup opt : x = <<t, <<c>>, "required">> \/ x = <<t, <<c>>, "optional">>
    BY <1>3 DEF Table, Required, Optional
  <2>2. x[2] = <<c>> /\ ~IsForeignKey(x)
    <3>1. x[2] = <<c>> /\ (x[3] = "required" \/ x[3] = "optional")
      BY <2>1
    <3>. QED
      BY <3>1 DEF IsForeignKey
  <2>3. ToSet(x[2]) = {c}
    BY <2>2 DEF ToSet
  <2>. QED
    BY <1>1, <2>1, <2>2, <2>3
<1>. QED
  BY <1>2, <1>3 DEF Supported

LEMMA SchemaMoves ==
    ASSUME NEW db, IsDatabase(db), NEW s
    PROVE  LET after == [db EXCEPT !.schema = s]
           IN  IsDatabase(after) /\ after.schema = s /\ Calm(db, after)
<1>. DEFINE after == [db EXCEPT !.schema = s]
<1>1. after = [schema |-> s, sessions |-> db.sessions, activations |-> db.activations,
               accounts |-> db.accounts, claim |-> db.claim]
  BY DEF IsDatabase
<1>. HIDE DEF after
<1>2. /\ after.schema = s /\ after.sessions = db.sessions /\ after.activations = db.activations
      /\ after.accounts = db.accounts /\ after.claim = db.claim
  BY <1>1
<1>3. IsDatabase(after)
  BY <1>1, <1>2 DEF IsDatabase
<1>4. Calm(db, after)
  BY <1>2 DEF Calm, OneAccount
<1>. QED
  BY <1>2, <1>3, <1>4 DEF after

\* An operation that changes nothing but the schema.
LEMMA SchemaOpDoes ==
    ASSUME NEW o, NEW from, NEW to, NEW need,
           \A db : IsDatabase(db) /\ db.schema = from =>
               /\ Meets(db, need) => Accepts(db, o)
               /\ Applied(db, o) = [db EXCEPT !.schema = to]
    PROVE  Does(o, from, to, need)
<1>. SUFFICES ASSUME NEW db, IsDatabase(db), db.schema = from
              PROVE  /\ Meets(db, need) => Accepts(db, o)
                     /\ IsDatabase(Applied(db, o)) /\ Applied(db, o).schema = to
                     /\ Calm(db, Applied(db, o))
  BY DEF Does
<1>1. (Meets(db, need) => Accepts(db, o)) /\ Applied(db, o) = [db EXCEPT !.schema = to]
  OBVIOUS
<1>2. PICK after : after = [db EXCEPT !.schema = to]
  OBVIOUS
<1>3. IsDatabase(after) /\ after.schema = to /\ Calm(db, after)
  BY <1>2, SchemaMoves
<1>. QED
  BY <1>1, <1>2, <1>3

Ordinary(what) == \A x \in what : x[3] \notin {"unique while open", "unique activation", "unique lower"}

\* Creating what is new to a table.
LEMMA CreateDoes ==
    ASSUME NEW t, NEW rest, NoneOf(rest, t), NEW req, NEW opt, NEW more, Extras(more, t),
           NEW req2, NEW opt2, NEW more2, Extras(more2, t), Ordinary(more2),
           req \cap req2 = {}, opt \cap opt2 = {}, more \cap more2 = {},
           \A x \in more2 : StandsIn(x, req \cup req2 \cup opt \cup opt2, rest),
           NEW what, what = Table(t, req2, opt2, more2), NEW need
    PROVE  Does(Create(what), rest \cup Table(t, req, opt, more),
                rest \cup Table(t, req \cup req2, opt \cup opt2, more \cup more2), need)
<1>. DEFINE from == rest \cup Table(t, req, opt, more)
            to == rest \cup Table(t, req \cup req2, opt \cup opt2, more \cup more2)
<1>1. to = from \cup what
  BY DEF Table, Required, Optional
<1>2. Extras(more \cup more2, t)
  BY DEF Extras
<1>3. what \cap from = {}
  <2>1. \A x \in what : x[1] = t
    BY ColumnsOfTable
  <2>2. \A x \in what : x \notin rest
    BY <2>1 DEF NoneOf
  <2>3. ASSUME NEW x \in what, x \in Table(t, req, opt, more) PROVE FALSE
    <3>1. CASE x \in more
      <4>1. ~IsColumn(x)
        BY <3>1 DEF Extras
      <4>2. x \in more2
        BY <4>1 DEF Table, Required, Optional, IsColumn
      <4>. QED
        BY <3>1, <4>2
    <3>2. CASE x \in more2
      <4>1. ~IsColumn(x)
        BY <3>2 DEF Extras
      <4>2. x \in more
        BY <2>3, <4>1 DEF Table, Required, Optional, IsColumn
      <4>. QED
        BY <3>2, <4>2
    <3>3. CASE x \notin more /\ x \notin more2
      <4>1. (\E c \in req : x = <<t, <<c>>, "required">>)
              \/ (\E c \in opt : x = <<t, <<c>>, "optional">>)
        BY <2>3, <3>3 DEF Table, Required, Optional
      <4>2. (\E c \in req2 : x = <<t, <<c>>, "required">>)
              \/ (\E c \in opt2 : x = <<t, <<c>>, "optional">>)
        BY <2>3, <3>3 DEF Table, Required, Optional
      <4>3. (\E c \in req : c = x[2][1] /\ x[3] = "required") \/ (\E c \in opt : c = x[2][1]
              /\ x[3] = "optional")
        BY <4>1
      <4>4. (\E c \in req2 : c = x[2][1] /\ x[3] = "required") \/ (\E c \in opt2 : c = x[2][1]
              /\ x[3] = "optional")
        BY <4>2
      <4>. QED
        BY <4>3, <4>4
    <3>. QED
      BY <3>1, <3>2, <3>3
  <2>. QED
    BY <2>2, <2>3
<1>4. Supported(what, from \cup what)
  <2>1. what \in SUBSET Table(t, req \cup req2, opt \cup opt2, more \cup more2)
    BY DEF Table, Required, Optional
  <2>2. \A x \in what : x \in more \cup more2 => x \in more2
    <3>1. more \subseteq from
      BY DEF Table
    <3>. QED
      BY <1>3, <3>1
  <2>3. \A x \in what : x \in more \cup more2
                => StandsIn(x, (req \cup req2) \cup (opt \cup opt2), rest)
    <3>1. req \cup req2 \cup opt \cup opt2 = (req \cup req2) \cup (opt \cup opt2)
      OBVIOUS
    <3>. QED
      BY <2>2, <3>1
  <2>4. Supported(what, to)
    BY <1>2, <2>1, <2>3, StandingIsSupported
  <2>. QED
    BY <1>1, <2>4
<1>5. Ordinary(what)
  <2>1. \A x \in Required(t, req2) : x[3] = "required"
    BY DEF Required
  <2>2. \A x \in Optional(t, opt2) : x[3] = "optional"
    BY DEF Optional
  <2>. QED
    BY <2>1, <2>2 DEF Ordinary, Table
<1>6. ASSUME NEW db, db.schema = from
      PROVE  Accepts(db, Create(what)) /\ Applied(db, Create(what)) = [db EXCEPT !.schema = to]
  <2>1. \A x \in what : ~Duplicates(db, x)
    BY <1>5 DEF Ordinary, Duplicates
  <2>2. Create(what).does = "create" /\ Create(what).what = what
    BY DEF Create, Op
  <2>3. Accepts(db, Create(what))
    BY <1>3, <1>4, <1>6, <2>1, <2>2 DEF Accepts
  <2>4. Applied(db, Create(what)) = [db EXCEPT !.schema = @ \cup what]
    BY <2>2 DEF Applied
  <2>. QED
    BY <1>1, <1>6, <2>3, <2>4
<1>. QED
  BY <1>6, SchemaOpDoes
\* Dropping keys and indexes of a table.
LEMMA DropDoes ==
    ASSUME NEW t, NEW rest, NoneOf(rest, t), NEW req, NEW opt, NEW more, Extras(more, t),
           NEW what \in SUBSET more, NEW need
    PROVE  Does(Drop(what), rest \cup Table(t, req, opt, more),
                rest \cup Table(t, req, opt, more \ what), need)
<1>. DEFINE from == rest \cup Table(t, req, opt, more)
            to == rest \cup Table(t, req, opt, more \ what)
<1>1. to = from \ what
  <2>1. \A x \in what : x \notin rest
    BY DEF NoneOf, Extras
  <2>2. \A x \in what : x \notin Required(t, req) /\ x \notin Optional(t, opt)
    BY DEF Extras, Required, Optional, IsColumn
  <2>. QED
    BY <2>1, <2>2 DEF Table
<1>2. ASSUME NEW db, db.schema = from
      PROVE  Accepts(db, Drop(what)) /\ Applied(db, Drop(what)) = [db EXCEPT !.schema = to]
  <2>1. Drop(what).does = "drop" /\ Drop(what).what = what
    BY DEF Drop, Op
  <2>2. what \subseteq from
    BY DEF Table
  <2>3. Accepts(db, Drop(what))
    BY <1>2, <2>1, <2>2 DEF Accepts
  <2>4. Applied(db, Drop(what)) = [db EXCEPT !.schema = @ \ what]
    BY <2>1 DEF Applied
  <2>. QED
    BY <1>1, <1>2, <2>3, <2>4
<1>. QED
  BY <1>2, SchemaOpDoes

\* Dropping a column, and what stands on it.
LEMMA DropColumnDoes ==
    ASSUME NEW t, NEW rest, NoneOf(rest, t), NEW req, NEW opt, NEW more, Extras(more, t),
           NEW c \in req \cup opt, NEW need, NEW left,
           left = {x \in more : \A i \in DOMAIN x[2] : x[2][i] # c}
    PROVE  Does(DropColumn(t, c), rest \cup Table(t, req, opt, more),
                rest \cup Table(t, req \ {c}, opt \ {c}, left), need)
<1>. DEFINE from == rest \cup Table(t, req, opt, more)
            to == rest \cup Table(t, req \ {c}, opt \ {c}, left)
<1>1. \A x \in more : StandsOn(x, t, {c}) <=> x \notin left
  <2>. SUFFICES ASSUME NEW x \in more PROVE StandsOn(x, t, {c}) <=> \E i \in DOMAIN x[2] : x[2][i] = c
    OBVIOUS
  <2>1. StandsOn(x, t, {c}) <=> ToSet(x[2]) \cap {c} # {}
    BY DEF StandsOn, Extras
  <2>2. ToSet(x[2]) \cap {c} # {} <=> \E i \in DOMAIN x[2] : x[2][i] = c
    BY DEF ToSet
  <2>. QED
    BY <2>1, <2>2
<1>2. \A x \in rest : ~StandsOn(x, t, {c})
  BY DEF NoneOf, StandsOn
<1>3. \A d, k : StandsOn(<<t, <<d>>, k>>, t, {c}) <=> d = c
  <2>. SUFFICES ASSUME NEW d, NEW k PROVE StandsOn(<<t, <<d>>, k>>, t, {c}) <=> d = c
    OBVIOUS
  <2>1. ToSet(<<d>>) = {d}
    BY DEF ToSet
  <2>2. StandsOn(<<t, <<d>>, k>>, t, {c}) <=> ToSet(<<d>>) \cap {c} # {}
    BY DEF StandsOn
  <2>. QED
    BY <2>1, <2>2
<1>4. to = {x \in from : ~StandsOn(x, t, {c})}
  <2>1. \A x \in Required(t, req) : ~StandsOn(x, t, {c}) <=> x \in Required(t, req \ {c})
    <3>. SUFFICES ASSUME NEW d \in req
                  PROVE  ~StandsOn(<<t, <<d>>, "required">>, t, {c})
                             <=> <<t, <<d>>, "required">> \in Required(t, req \ {c})
      BY DEF Required
    <3>. QED
      BY <1>3 DEF Required
  <2>2. \A x \in Optional(t, opt) : ~StandsOn(x, t, {c}) <=> x \in Optional(t, opt \ {c})
    <3>. SUFFICES ASSUME NEW d \in opt
                  PROVE  ~StandsOn(<<t, <<d>>, "optional">>, t, {c})
                             <=> <<t, <<d>>, "optional">> \in Optional(t, opt \ {c})
      BY DEF Optional
    <3>. QED
      BY <1>3 DEF Optional
  <2>3. Required(t, req \ {c}) \subseteq Required(t, req) /\ Optional(t,
          opt \ {c}) \subseteq Optional(t, opt)
    BY DEF Required, Optional
  <2>4. left \subseteq more
    OBVIOUS
  <2>. QED
    BY <1>1, <1>2, <2>1, <2>2, <2>3, <2>4 DEF Table
<1>5. ASSUME NEW db, db.schema = from
      PROVE  Accepts(db, DropColumn(t, c)) /\ Applied(db, DropColumn(t, c)) = [db EXCEPT !.schema = to]
  <2>1. /\ DropColumn(t, c).does = "drop column" /\ DropColumn(t, c).what = {c}
        /\ DropColumn(t, c).table = t
    BY DEF DropColumn, Op
  <2>2. {c} \subseteq Columns(from, t)
    BY ColumnsOfTable
  <2>3. Accepts(db, DropColumn(t, c))
    BY <1>5, <2>1, <2>2 DEF Accepts
  <2>4. Applied(db, DropColumn(t, c)) = [db EXCEPT !.schema = {x \in @ : ~StandsOn(x, t, {c})}]
    BY <2>1 DEF Applied
  <2>. QED
    BY <1>4, <1>5, <2>3, <2>4
<1>. QED
  BY <1>5, SchemaOpDoes
\* Emptying a table adds no rows.
LEMMA EmptiedIsCalm ==
    ASSUME NEW db, IsDatabase(db), NEW t
    PROVE  /\ IsDatabase(Emptied(db, t)) /\ Emptied(db, t).schema = db.schema
           /\ Calm(db, Emptied(db, t))
<1>. DEFINE Record(a, b, c, d) == [schema |-> db.schema, sessions |-> a, activations |-> b,
                                   accounts |-> c, claim |-> d]
            Good(after) == IsDatabase(after) /\ after.schema = db.schema /\ Calm(db, after)
<1>1. db = Record(db.sessions, db.activations, db.accounts, db.claim)
  BY DEF IsDatabase
<1>2. ASSUME NEW a \in {{}, db.sessions}, NEW b \in {{}, db.activations}, NEW c \in {{},
        db.accounts}, NEW d
      PROVE  Good(Record(a, b, c, d))
  <2>1. PICK after : after = Record(a, b, c, d)
    OBVIOUS
  <2>2. /\ after.schema = db.schema /\ after.sessions = a /\ after.activations = b
        /\ after.accounts = c /\ after.claim = d
    BY <2>1
  <2>3. IsDatabase(after)
    BY <2>1, <2>2 DEF IsDatabase
  <2>4. Calm(db, after)
    BY <2>2 DEF Calm, OneAccount
  <2>. QED
    BY <2>1, <2>2, <2>3, <2>4
<1>3. CASE t = "sessions"
  <2>1. Emptied(db, t) = [db EXCEPT !.sessions = {}]
    BY <1>3 DEF Emptied
  <2>2. Emptied(db, t) = Record({}, db.activations, db.accounts, db.claim)
    BY <1>1, <2>1
  <2>. HIDE DEF Record
  <2>. QED
    BY <1>2, <2>2
<1>4. CASE t = "analytics_events"
  <2>1. Emptied(db, t) = [db EXCEPT !.activations = {}]
    BY <1>4 DEF Emptied
  <2>2. Emptied(db, t) = Record(db.sessions, {}, db.accounts, db.claim)
    BY <1>1, <2>1
  <2>. HIDE DEF Record
  <2>. QED
    BY <1>2, <2>2
<1>5. CASE t = "users"
  <2>1. Emptied(db, t) = [db EXCEPT !.accounts = {}]
    BY <1>5 DEF Emptied
  <2>2. Emptied(db, t) = Record(db.sessions, db.activations, {}, db.claim)
    BY <1>1, <2>1
  <2>. HIDE DEF Record
  <2>. QED
    BY <1>2, <2>2
<1>6. CASE t = "idempotency_keys"
  <2>1. Emptied(db, t) = [db EXCEPT !.claim = "absent"]
    BY <1>6 DEF Emptied
  <2>2. Emptied(db, t) = Record(db.sessions, db.activations, db.accounts, "absent")
    BY <1>1, <2>1
  <2>. HIDE DEF Record
  <2>. QED
    BY <1>2, <2>2
<1>7. CASE t \notin {"sessions", "analytics_events", "users", "idempotency_keys"}
  <2>1. Emptied(db, t) = db
    BY <1>7 DEF Emptied
  <2>2. Emptied(db, t) = Record(db.sessions, db.activations, db.accounts, db.claim)
    BY <1>1, <2>1
  <2>. HIDE DEF Record
  <2>. QED
    BY <1>2, <2>2
<1>. QED
  BY <1>3, <1>4, <1>5, <1>6, <1>7

LEMMA CalmFurther ==
    ASSUME NEW a, NEW b, NEW c, Calm(a, b), Calm(b, c)
    PROVE  Calm(a, c)
  BY DEF Calm

\* Dropping a table that no other table points at.
LEMMA DropTableDoes ==
    ASSUME NEW t, NEW rest, NoneOf(rest, t), NEW req, NEW opt, NEW more, Extras(more, t),
           req # {}, \A x \in rest : IsForeignKey(x) => x[2][2] # t, NEW need
    PROVE  Does(DropTable(t), rest \cup Table(t, req, opt, more), rest, need)
<1>. DEFINE from == rest \cup Table(t, req, opt, more)
<1>1. rest = {x \in from : x[1] # t}
  <2>1. \A x \in Table(t, req, opt, more) : x[1] = t
    BY ColumnsOfTable
  <2>. QED
    BY <2>1 DEF NoneOf
<1>2. DropTable(t).does = "drop table" /\ DropTable(t).table = t
  BY DEF DropTable, Op
<1>. SUFFICES ASSUME NEW db, IsDatabase(db), db.schema = from
              PROVE  LET after == Applied(db, DropTable(t))
                     IN  /\ Accepts(db, DropTable(t))
                         /\ IsDatabase(after) /\ after.schema = rest /\ Calm(db, after)
  BY DEF Does
<1>3. Accepts(db, DropTable(t))
  <2>1. t \in Tables(from)
    <3>1. PICK c : c \in req
      OBVIOUS
    <3>2. <<t, <<c>>, "required">> \in from
      BY <3>1 DEF Table, Required
    <3>. QED
      BY <3>2, TablesAre
  <2>2. \A x \in from : IsForeignKey(x) /\ x[2][2] = t => x[1] = t
    BY <1>1
  <2>. QED
    BY <1>2, <2>1, <2>2 DEF Accepts
<1>4. PICK bare : bare = [db EXCEPT !.schema = rest]
  OBVIOUS
<1>5. IsDatabase(bare) /\ bare.schema = rest /\ Calm(db, bare)
  BY <1>4, SchemaMoves
<1>6. Applied(db, DropTable(t)) = Emptied(bare, t)
  <2>1. Applied(db, DropTable(t)) = Emptied([db EXCEPT !.schema = {x \in @ : x[1] # t}], t)
    BY <1>2 DEF Applied
  <2>. QED
    BY <1>1, <1>4, <2>1
<1>7. /\ IsDatabase(Emptied(bare, t)) /\ Emptied(bare, t).schema = rest
      /\ Calm(db, Emptied(bare, t))
  BY <1>5, EmptiedIsCalm, CalmFurther
<1>. QED
  BY <1>3, <1>6, <1>7

\* Columns that change from required to optional and back.
LEMMA RelaxDoes ==
    ASSUME NEW t, NEW rest, NoneOf(rest, t), NEW req, NEW opt, NEW more, Extras(more, t),
           NEW c \in req, c \notin opt, NEW need
    PROVE  Does(Relax(t, c), rest \cup Table(t, req, opt, more),
                rest \cup Table(t, req \ {c}, opt \cup {c}, more), need)
<1>. DEFINE from == rest \cup Table(t, req, opt, more)
            to == rest \cup Table(t, req \ {c}, opt \cup {c}, more)
<1>1. to = (from \ Required(t, {c})) \cup Optional(t, {c})
  <2>1. \A x \in Required(t, {c}) : x[1] = t /\ IsColumn(x)
    BY DEF Required, IsColumn
  <2>2. rest \cap Required(t, {c}) = {} /\ more \cap Required(t, {c}) = {}
    BY <2>1 DEF NoneOf, Extras
  <2>3. Required(t, req) \ Required(t, {c}) = Required(t, req \ {c})
    <3>1. \A d \in req : <<t, <<d>>, "required">> \in Required(t, {c}) <=> d = c
      BY DEF Required
    <3>. QED
      BY <3>1 DEF Required
  <2>4. Optional(t, opt) \cap Required(t, {c}) = {}
    BY DEF Required, Optional
  <2>5. Optional(t, opt \cup {c}) = Optional(t, opt) \cup Optional(t, {c})
    BY DEF Optional
  <2>. QED
    BY <2>2, <2>3, <2>4, <2>5 DEF Table
<1>2. ASSUME NEW db, db.schema = from
      PROVE  Accepts(db, Relax(t, c)) /\ Applied(db, Relax(t, c)) = [db EXCEPT !.schema = to]
  <2>1. Relax(t, c).does = "relax" /\ Relax(t, c).what = {c} /\ Relax(t, c).table = t
    BY DEF Relax, Op
  <2>2. {c} \subseteq Columns(from, t)
    BY ColumnsOfTable
  <2>3. Accepts(db, Relax(t, c))
    BY <1>2, <2>1, <2>2 DEF Accepts
  <2>4. Applied(db, Relax(t, c))
            = [db EXCEPT !.schema = (@ \ Required(t, {c})) \cup Optional(t, {c})]
    BY <2>1 DEF Applied
  <2>. QED
    BY <1>1, <1>2, <2>3, <2>4
<1>. QED
  BY <1>2, SchemaOpDoes

\* A required column without a default, for a table of no rows.
LEMMA AddUndefaultedDoes ==
    ASSUME NEW t, NEW rest, NoneOf(rest, t), NEW req, NEW opt, NEW more, Extras(more, t),
           NEW c, c \notin req
    PROVE  Does(AddUndefaulted(t, c), rest \cup Table(t, req, opt, more),
                rest \cup Table(t, req \cup {c}, opt, more), "no sessions")
<1>. DEFINE from == rest \cup Table(t, req, opt, more)
            to == rest \cup Table(t, req \cup {c}, opt, more)
<1>1. to = from \cup Required(t, {c})
  BY DEF Required, Table
<1>2. Required(t, {c}) \cap from = {}
  <2>1. \A x \in Required(t, {c}) : x[1] = t /\ IsColumn(x)
    BY DEF Required, IsColumn
  <2>2. rest \cap Required(t, {c}) = {} /\ more \cap Required(t, {c}) = {}
    BY <2>1 DEF NoneOf, Extras
  <2>3. Required(t, req) \cap Required(t, {c}) = {}
    BY DEF Required
  <2>4. Optional(t, opt) \cap Required(t, {c}) = {}
    BY DEF Required, Optional
  <2>. QED
    BY <2>2, <2>3, <2>4 DEF Table
<1>3. ASSUME NEW db, db.schema = from
      PROVE  /\ Meets(db, "no sessions") => Accepts(db, AddUndefaulted(t, c))
             /\ Applied(db, AddUndefaulted(t, c)) = [db EXCEPT !.schema = to]
  <2>1. /\ AddUndefaulted(t, c).does = "add undefaulted"
        /\ AddUndefaulted(t, c).what = Required(t, {c}) /\ AddUndefaulted(t, c).table = t
    BY DEF AddUndefaulted, Op
  <2>3. Meets(db, "no sessions") => Accepts(db, AddUndefaulted(t, c))
    BY <1>2, <1>3, <2>1 DEF Accepts, Meets
  <2>4. Applied(db, AddUndefaulted(t, c)) = [db EXCEPT !.schema = @ \cup Required(t, {c})]
    BY <2>1 DEF Applied
  <2>. QED
    BY <1>1, <1>3, <2>3, <2>4
<1>. QED
  BY <1>3, SchemaOpDoes

----------------------------------------------------------------------------
(* The migrations: scripts                                                 *)

\* A script of one operation more.
LEMMA RunOpsFurther ==
    ASSUME NEW start, NEW ops, Len(ops) \in Nat, NEW ops2, Len(ops2) = Len(ops) + 1,
           \A i \in 1..Len(ops) : ops2[i] = ops[i]
    PROVE  RunOps(start, ops2) = RunOp(RunOps(start, ops), ops2[Len(ops2)])
<1>. DEFINE n == Len(ops)
<1>1. PICK r : RunOf(r, start, ops, n) /\ RunOps(start, ops) = r[n]
  BY RunOpsIs
<1>2. PICK q : RunOf(q, start, ops2, n + 1) /\ RunOps(start, ops2) = q[n + 1]
  BY RunOpsIs
<1>. HIDE DEF n
<1>0. n \in Nat
  BY DEF n
<1>3. \A i \in 0..n : r[i] = IF i = 0 THEN start ELSE RunOp(r[i - 1], ops[i])
  BY <1>1 DEF RunOf
<1>4. \A i \in 0..(n + 1) : q[i] = IF i = 0 THEN start ELSE RunOp(q[i - 1], ops2[i])
  BY <1>2 DEF RunOf
<1>. DEFINE T == {i \in 0..n : q[i] = r[i]}
<1>5. 0 \in T
  BY <1>0, <1>3, <1>4
<1>6. ASSUME NEW m \in 0..n, m + 1 \in 0..n, m \in T PROVE m + 1 \in T
  <2>1. (m + 1) - 1 = m /\ m + 1 # 0 /\ m + 1 \in 1..n /\ m + 1 \in 0..(n + 1)
    BY <1>0, <1>6
  <2>2. q[m + 1] = RunOp(q[m], ops2[m + 1])
    BY <1>4, <2>1
  <2>3. r[m + 1] = RunOp(r[m], ops[m + 1])
    BY <1>3, <1>6, <2>1
  <2>4. ops2[m + 1] = ops[m + 1]
    BY <2>1 DEF n
  <2>. QED
    BY <1>6, <2>2, <2>3, <2>4
<1>7. T = 0..n
  <2>1. T \in SUBSET (0..n)
    OBVIOUS
  <2>. HIDE DEF T
  <2>. QED
    BY <1>0, <1>5, <1>6, <2>1, UpTo
<1>8. q[n] = r[n]
  BY <1>0, <1>7
<1>9. q[n + 1] = RunOp(q[n], ops2[n + 1])
  <2>1. n + 1 \in 0..(n + 1) /\ n + 1 # 0 /\ (n + 1) - 1 = n
    BY <1>0
  <2>. QED
    BY <1>4, <2>1
<1>. QED
  BY <1>1, <1>2, <1>8, <1>9 DEF n

\* What a run that came this far has come to.
Reaches(run, before, to, need) ==
    /\ run = [ok |-> run.ok, db |-> run.db] /\ run.ok \in BOOLEAN
    /\ Meets(before, need) => run.ok
    /\ run.ok => IsDatabase(run.db) /\ run.db.schema = to /\ Calm(before, run.db)

\* A script leads from one schema to another, and is not refused if the need is met.
Leads(ops, from, to, need) ==
    /\ Len(ops) \in Nat
    /\ \A db : IsDatabase(db) /\ db.schema = from
                 => Reaches(RunOps(Begun(db), ops), db, to, need)

LEMMA MeetsFurther ==
    ASSUME NEW a, NEW b, Calm(a, b), NEW need, Meets(a, need)
    PROVE  Meets(b, need)
  BY DEF Calm, Meets

LEMMA LeadsNowhere ==
    ASSUME NEW from, NEW need
    PROVE  Leads(<<>>, from, from, need)
<1>1. Len(<<>>) = 0
  OBVIOUS
<1>2. ASSUME NEW db, IsDatabase(db), db.schema = from
      PROVE  Reaches(RunOps(Begun(db), <<>>), db, from, need)
  <2>1. PICK r : RunOf(r, Begun(db), <<>>, 0) /\ RunOps(Begun(db), <<>>) = r[0]
    BY <1>1, RunOpsIs
  <2>2. r[0] = Begun(db)
    BY <2>1 DEF RunOf
  <2>3. Reaches(Begun(db), db, from, need)
    BY <1>2 DEF Reaches, Begun, Calm
  <2>. QED
    BY <2>1, <2>2, <2>3
<1>. QED
  BY <1>1, <1>2 DEF Leads

LEMMA RunOpReaches ==
    ASSUME NEW before, NEW run, NEW from, NEW need, Reaches(run, before, from, need),
           NEW o, NEW to, Does(o, from, to, need)
    PROVE  Reaches(RunOp(run, o), before, to, need)
<1>0. run = [ok |-> run.ok, db |-> run.db] /\ run.ok \in BOOLEAN
  BY DEF Reaches
<1>1. CASE run.ok /\ Accepts(run.db, o)
  <2>1. RunOp(run, o) = [run EXCEPT !.db = Applied(run.db, o)]
    BY <1>1 DEF RunOp
  <2>2. RunOp(run, o) = [ok |-> TRUE, db |-> Applied(run.db, o)]
    BY <1>0, <1>1, <2>1
  <2>3. IsDatabase(run.db) /\ run.db.schema = from /\ Calm(before, run.db)
    BY <1>1 DEF Reaches
  <2>4. /\ IsDatabase(Applied(run.db, o)) /\ Applied(run.db, o).schema = to
        /\ Calm(run.db, Applied(run.db, o))
    BY <1>1, <2>3 DEF Does
  <2>5. Calm(before, Applied(run.db, o))
    BY <2>3, <2>4, CalmFurther
  <2>. QED
    BY <2>2, <2>4, <2>5 DEF Reaches
<1>2. CASE ~(run.ok /\ Accepts(run.db, o))
  <2>1. RunOp(run, o) = [run EXCEPT !.ok = FALSE]
    BY <1>2 DEF RunOp
  <2>2. RunOp(run, o) = [ok |-> FALSE, db |-> run.db]
    BY <1>0, <2>1
  <2>3. ~Meets(before, need)
    <3>. SUFFICES ASSUME Meets(before, need) PROVE FALSE
      OBVIOUS
    <3>1. run.ok
      BY DEF Reaches
    <3>2. IsDatabase(run.db) /\ run.db.schema = from /\ Calm(before, run.db)
      BY <3>1 DEF Reaches
    <3>3. Meets(run.db, need)
      BY <3>2, MeetsFurther
    <3>4. Accepts(run.db, o)
      BY <3>2, <3>3 DEF Does
    <3>. QED
      BY <1>2, <3>1, <3>4
  <2>. QED
    BY <2>2, <2>3 DEF Reaches
<1>. QED
  BY <1>1, <1>2

LEMMA LeadsFurther ==
    ASSUME NEW ops, NEW from, NEW mid, NEW need, Leads(ops, from, mid, need),
           NEW o, NEW to, Does(o, mid, to, need),
           NEW ops2, Len(ops2) = Len(ops) + 1, \A i \in 1..Len(ops) : ops2[i] = ops[i],
           ops2[Len(ops2)] = o
    PROVE  Leads(ops2, from, to, need)
<1>1. Len(ops) \in Nat /\ Len(ops2) \in Nat
  BY DEF Leads
<1>2. ASSUME NEW db, IsDatabase(db), db.schema = from
      PROVE  Reaches(RunOps(Begun(db), ops2), db, to, need)
  <2>1. RunOps(Begun(db), ops2) = RunOp(RunOps(Begun(db), ops), o)
    BY <1>1, RunOpsFurther
  <2>2. Reaches(RunOps(Begun(db), ops), db, mid, need)
    BY <1>2 DEF Leads
  <2>. QED
    BY <2>1, <2>2, RunOpReaches
<1>. QED
  BY <1>1, <1>2 DEF Leads

LEMMA Leads1 ==
    ASSUME NEW need, NEW s0, NEW s1, NEW a,
           Does(a, s0, s1, need)
    PROVE  Leads(<<a>>, s0, s1, need)
<1>. DEFINE short == <<>>
            long == <<a>>
<1>1. Len(long) = Len(short) + 1 /\ (\A i \in 1..Len(short) : long[i] = short[i]) /\ long[Len(long)] = a
  OBVIOUS
<1>2. Leads(short, s0, s0, need)
  BY LeadsNowhere
<1>. HIDE DEF short, long
<1>3. Leads(long, s0, s1, need)
  BY <1>1, <1>2, LeadsFurther
<1>. QED
  BY <1>3 DEF long

LEMMA Leads2 ==
    ASSUME NEW need, NEW s0, NEW s1, NEW s2, NEW a, NEW b,
           Does(a, s0, s1, need), Does(b, s1, s2, need)
    PROVE  Leads(<<a, b>>, s0, s2, need)
<1>. DEFINE short == <<a>>
            long == <<a, b>>
<1>1. Len(long) = Len(short) + 1 /\ (\A i \in 1..Len(short) : long[i] = short[i]) /\ long[Len(long)] = b
  OBVIOUS
<1>2. Leads(short, s0, s1, need)
  BY Leads1
<1>. HIDE DEF short, long
<1>3. Leads(long, s0, s2, need)
  BY <1>1, <1>2, LeadsFurther
<1>. QED
  BY <1>3 DEF long

LEMMA Leads3 ==
    ASSUME NEW need, NEW s0, NEW s1, NEW s2, NEW s3, NEW a, NEW b, NEW c,
           Does(a, s0, s1, need), Does(b, s1, s2, need), Does(c, s2, s3, need)
    PROVE  Leads(<<a, b, c>>, s0, s3, need)
<1>. DEFINE short == <<a, b>>
            long == <<a, b, c>>
<1>1. Len(long) = Len(short) + 1 /\ (\A i \in 1..Len(short) : long[i] = short[i]) /\ long[Len(long)] = c
  OBVIOUS
<1>2. Leads(short, s0, s2, need)
  BY Leads2
<1>. HIDE DEF short, long
<1>3. Leads(long, s0, s3, need)
  BY <1>1, <1>2, LeadsFurther
<1>. QED
  BY <1>3 DEF long

LEMMA Leads4 ==
    ASSUME NEW need, NEW s0, NEW s1, NEW s2, NEW s3, NEW s4, NEW a, NEW b, NEW c, NEW d,
           Does(a, s0, s1, need), Does(b, s1, s2, need), Does(c, s2, s3, need), Does(d, s3, s4, need)
    PROVE  Leads(<<a, b, c, d>>, s0, s4, need)
<1>. DEFINE short == <<a, b, c>>
            long == <<a, b, c, d>>
<1>1. Len(long) = Len(short) + 1 /\ (\A i \in 1..Len(short) : long[i] = short[i]) /\ long[Len(long)] = d
  OBVIOUS
<1>2. Leads(short, s0, s3, need)
  BY Leads3
<1>. HIDE DEF short, long
<1>3. Leads(long, s0, s4, need)
  BY <1>1, <1>2, LeadsFurther
<1>. QED
  BY <1>3 DEF long

LEMMA Leads5 ==
    ASSUME NEW need, NEW s0, NEW s1, NEW s2, NEW s3, NEW s4, NEW s5, NEW a, NEW b, NEW c, NEW d, NEW e,
           Does(a, s0, s1, need), Does(b, s1, s2, need), Does(c, s2, s3, need), Does(d, s3, s4,
             need), Does(e, s4, s5, need)
    PROVE  Leads(<<a, b, c, d, e>>, s0, s5, need)
<1>. DEFINE short == <<a, b, c, d>>
            long == <<a, b, c, d, e>>
<1>1. Len(long) = Len(short) + 1 /\ (\A i \in 1..Len(short) : long[i] = short[i]) /\ long[Len(long)] = e
  OBVIOUS
<1>2. Leads(short, s0, s4, need)
  BY Leads4
<1>. HIDE DEF short, long
<1>3. Leads(long, s0, s5, need)
  BY <1>1, <1>2, LeadsFurther
<1>. QED
  BY <1>3 DEF long

----------------------------------------------------------------------------
(* The migrations: scripts that put rows right before a change             *)

\* The change finds the rows of m as it needs them.
Ready(db, m, from, o, to) ==
    /\ IsDatabase(m) /\ m.schema = from /\ Calm(db, m)
    /\ Accepts(m, o) /\ Applied(m, o) = [m EXCEPT !.schema = to]

LEMMA RunOpsOfTwo ==
    ASSUME NEW start, NEW first, NEW second
    PROVE  RunOps(start, <<first, second>>) = RunOp(RunOp(start, first), second)
<1>. DEFINE none == <<>>
            one == <<first>>
            two == <<first, second>>
<1>1. Len(none) \in Nat /\ Len(one) = Len(none) + 1 /\ (\A i \in 1..Len(none) : one[i] = none[i])
  OBVIOUS
<1>2. Len(one) \in Nat /\ Len(two) = Len(one) + 1 /\ (\A i \in 1..Len(one) : two[i] = one[i])
  OBVIOUS
<1>3. Len(none) = 0 /\ one[Len(one)] = first /\ two[Len(two)] = second
  OBVIOUS
<1>. HIDE DEF none, one, two
<1>4. RunOps(start, none) = start
  <2>1. PICK r : RunOf(r, start, none, 0) /\ RunOps(start, none) = r[0]
    BY <1>1, <1>3, RunOpsIs
  <2>2. r[0] = start
    BY <2>1 DEF RunOf
  <2>. QED
    BY <2>1, <2>2
<1>5. RunOps(start, one) = RunOp(RunOps(start, none), one[Len(one)])
  BY <1>1, RunOpsFurther
<1>6. RunOps(start, two) = RunOp(RunOps(start, one), two[Len(two)])
  BY <1>2, RunOpsFurther
<1>7. RunOps(start, two) = RunOp(RunOp(start, first), second)
  BY <1>3, <1>4, <1>5, <1>6
<1>. QED
  BY <1>7 DEF two

LEMMA LeadsReadied ==
    ASSUME NEW first, NEW second, NEW from, NEW to, NEW need,
           \A db : IsDatabase(db) /\ db.schema = from =>
               /\ Meets(db, need) => Accepts(db, first)
               /\ Accepts(db, first) => Ready(db, Applied(db, first), from, second, to)
    PROVE  Leads(<<first, second>>, from, to, need)
<1>. SUFFICES ASSUME NEW db, IsDatabase(db), db.schema = from
              PROVE  Reaches(RunOps(Begun(db), <<first, second>>), db, to, need)
  BY DEF Leads
<1>1. RunOps(Begun(db), <<first, second>>) = RunOp(RunOp(Begun(db), first), second)
  BY RunOpsOfTwo
<1>2. Begun(db) = [ok |-> TRUE, db |-> db] /\ Begun(db).ok /\ Begun(db).db = db
  BY DEF Begun
<1>3. CASE Accepts(db, first)
  <2>. DEFINE m == Applied(db, first)
              after == [m EXCEPT !.schema = to]
  <2>1. Ready(db, m, from, second, to)
    BY <1>3
  <2>2. RunOp(Begun(db), first) = [ok |-> TRUE, db |-> m]
    BY <1>2, <1>3 DEF RunOp
  <2>. HIDE DEF m
  <2>3. IsDatabase(after) /\ after.schema = to /\ Calm(m, after)
    BY <2>1, SchemaMoves DEF Ready
  <2>4. Accepts(m, second) /\ Applied(m, second) = after
    BY <2>1 DEF Ready
  <2>. HIDE DEF after
  <2>5. RunOp([ok |-> TRUE, db |-> m], second) = [ok |-> TRUE, db |-> after]
    BY <2>4 DEF RunOp
  <2>6. Calm(db, after)
    BY <2>1, <2>3, CalmFurther DEF Ready
  <2>7. PICK run : run = [ok |-> TRUE, db |-> after]
    OBVIOUS
  <2>8. Reaches(run, db, to, need)
    BY <2>3, <2>6, <2>7 DEF Reaches
  <2>. QED
    BY <1>1, <2>2, <2>5, <2>7, <2>8
<1>4. CASE ~Accepts(db, first)
  <2>1. RunOp(Begun(db), first) = [ok |-> FALSE, db |-> db]
    BY <1>2, <1>4 DEF RunOp
  <2>2. RunOp([ok |-> FALSE, db |-> db], second) = [ok |-> FALSE, db |-> db]
    BY DEF RunOp
  <2>3. ~Meets(db, need)
    BY <1>4
  <2>4. PICK run : run = [ok |-> FALSE, db |-> db]
    OBVIOUS
  <2>5. Reaches(run, db, to, need)
    BY <2>3, <2>4 DEF Reaches
  <2>. QED
    BY <1>1, <2>1, <2>2, <2>4, <2>5
<1>. QED
  BY <1>3, <1>4

\* One object that is new to a table and stands in it fits.
Fits(x, from, to) ==
    to = from \cup {x} /\ x \notin from /\ Supported({x}, to)

LEMMA FitsWhereItStands ==
    ASSUME NEW t, NEW rest, NoneOf(rest, t), NEW req, NEW opt, NEW more, Extras(more, t),
           NEW x, x[1] = t, ~IsColumn(x), x \notin more, StandsIn(x, req \cup opt, rest)
    PROVE  Fits(x, rest \cup Table(t, req, opt, more), rest \cup Table(t, req, opt, more \cup {x}))
<1>1. x \notin rest /\ x \notin Required(t, req) /\ x \notin Optional(t, opt)
  BY DEF NoneOf, Required, Optional, IsColumn
<1>2. Extras(more \cup {x}, t)
  BY DEF Extras
<1>3. {x} \in SUBSET Table(t, req, opt, more \cup {x})
  BY DEF Table
<1>4. Supported({x}, rest \cup Table(t, req, opt, more \cup {x}))
  BY <1>2, <1>3, StandingIsSupported
<1>. QED
  BY <1>1, <1>4 DEF Fits, Table

LEMMA FittingIsCreated ==
    ASSUME NEW x, NEW from, NEW to, Fits(x, from, to), NEW db, NEW m,
           IsDatabase(m), m.schema = from, Calm(db, m), ~Duplicates(m, x)
    PROVE  Ready(db, m, from, Create({x}), to)
<1>1. Create({x}).does = "create" /\ Create({x}).what = {x}
  BY DEF Create, Op
<1>2. Accepts(m, Create({x}))
  BY <1>1 DEF Accepts, Fits
<1>3. Applied(m, Create({x})) = [m EXCEPT !.schema = @ \cup {x}]
  BY <1>1 DEF Applied
<1>4. from \cup {x} = to
  BY DEF Fits
<1>5. Applied(m, Create({x})) = [m EXCEPT !.schema = to]
  BY <1>3, <1>4
<1>. QED
  BY <1>2, <1>5 DEF Ready

LEMMA AtMostOne ==
    ASSUME NEW S, \A a, b \in S : a = b
    PROVE  ~(Cardinality(S) > 1)
<1>1. CASE S = {}
  <2>1. Cardinality(S) = 0
    BY <1>1, FS_EmptySet
  <2>. QED
    BY <2>1
<1>2. CASE S # {}
  <2>1. PICK a : a \in S
    BY <1>2
  <2>2. S = {a}
    BY <2>1
  <2>3. Cardinality(S) = 1
    BY <2>2, FS_Singleton
  <2>. QED
    BY <2>3
<1>. QED
  BY <1>1, <1>2

\* One number is the least; one session is the newest.
LEMMA OneLeast ==
    ASSUME NEW S \in SUBSET Ids, NEW a \in S, NEW b \in S, ~ \E c \in S : a > c, ~ \E c \in S : b > c
    PROVE  a = b
<1>1. a \in Int /\ b \in Int
  BY MigrationAssumption DEF Ids
<1>. QED
  BY <1>1

LEMMA OneNewest ==
    ASSUME NEW a \in SessionRow, NEW b \in SessionRow,
           ~(a.started < b.started \/ (a.started = b.started /\ a.id < b.id)),
           ~(b.started < a.started \/ (b.started = a.started /\ b.id < a.id))
    PROVE  a.started = b.started /\ a.id = b.id
<1>1. a.started \in Int /\ b.started \in Int /\ a.id \in Int /\ b.id \in Int
  BY MigrationAssumption DEF SessionRow, Ids
<1>. QED
  BY <1>1

\* After the extra active sessions are closed, one is active at most.
LEMMA OneActiveIsReady ==
    ASSUME NEW from, NEW to, NEW need, NEW x, x = <<"sessions", <<"user_id">>, "unique while open">>,
           Fits(x, from, to)
    PROVE  Leads(<<Execute("close extras"), Create(OneActive)>>, from, to, need)
<1>. DEFINE first == Execute("close extras")
<1>0. OneActive = {x}
  BY DEF OneActive, UniqueWhere
<1>1. first.does = "close extras"
  BY DEF Execute, Op
<1>2. ASSUME NEW db, IsDatabase(db), db.schema = from
      PROVE  Accepts(db, first) /\ Ready(db, Applied(db, first), from, Create({x}), to)
  <2>1. Accepts(db, first) /\ Applied(db, first) = CloseExtras(db)
    BY <1>1 DEF Accepts, Applied
  <2>2. IsDatabase(CloseExtras(db))
    BY <1>2, CloseExtrasKeeps
  <2>. DEFINE Extra(s) == \E k \in OpenSessions(db) : \/ s.started < k.started
                                                      \/ s.started = k.started /\ s.id < k.id
              Left(s) == IF s.open /\ Extra(s) THEN [s EXCEPT !.open = FALSE] ELSE s
              left == {Left(s) : s \in db.sessions}
  <2>3. CloseExtras(db) = [db EXCEPT !.sessions = left]
    BY DEF CloseExtras
  <2>4. \A s \in db.sessions : s \in SessionRow /\ (Left(s).open => Left(s) = s /\ s.open /\ ~Extra(s))
    <3>. SUFFICES ASSUME NEW s \in db.sessions
                  PROVE  s \in SessionRow /\ (Left(s).open => Left(s) = s /\ s.open /\ ~Extra(s))
      OBVIOUS
    <3>1. s \in SessionRow
      BY <1>2 DEF IsDatabase
    <3>2. CASE s.open /\ Extra(s)
      <4>1. Left(s) = [s EXCEPT !.open = FALSE]
        BY <3>2
      <4>2. ~Left(s).open
        <5>. HIDE DEF Left
        <5>. QED
          BY <3>1, <4>1 DEF SessionRow
      <4>. QED
        BY <3>1, <4>2
    <3>3. CASE ~(s.open /\ Extra(s))
      <4>1. Left(s) = s
        BY <3>3
      <4>. HIDE DEF Left, Extra
      <4>. QED
        BY <3>1, <3>3, <4>1
    <3>. QED
      BY <3>2, <3>3
  <2>. HIDE DEF Left
  <2>5. PICK after : after = CloseExtras(db)
    OBVIOUS
  <2>6. after = [schema |-> from, sessions |-> left, activations |-> db.activations,
                 accounts |-> db.accounts, claim |-> db.claim]
    <3>. HIDE DEF left
    <3>. QED
      BY <1>2, <2>3, <2>5 DEF IsDatabase
  <2>7. after.schema = from /\ after.sessions = left /\ after.accounts = db.accounts
    BY <2>6
  <2>8. Calm(db, after)
    <3>1. db.sessions = {} => left = {}
      OBVIOUS
    <3>. HIDE DEF left
    <3>. QED
      BY <2>7, <3>1 DEF Calm, OneAccount
  <2>9. \A a, b \in OpenSessions(after) : a = b
    <3>. SUFFICES ASSUME NEW a \in OpenSessions(after), NEW b \in OpenSessions(after) PROVE a = b
      OBVIOUS
    <3>1. a \in left /\ a.open /\ b \in left /\ b.open
      <4>. HIDE DEF left
      <4>. QED
        BY <2>7 DEF OpenSessions
    <3>2. a \in db.sessions /\ ~Extra(a) /\ b \in db.sessions /\ ~Extra(b)
      <4>1. PICK s \in db.sessions : a = Left(s)
        BY <3>1
      <4>2. PICK r \in db.sessions : b = Left(r)
        BY <3>1
      <4>. HIDE DEF Extra
      <4>. QED
        BY <2>4, <3>1, <4>1, <4>2
    <3>3. a \in OpenSessions(db) /\ b \in OpenSessions(db)
      BY <3>1, <3>2 DEF OpenSessions
    <3>4. a \in SessionRow /\ b \in SessionRow
      BY <2>4, <3>2
    <3>6. /\ ~(a.started < b.started \/ (a.started = b.started /\ a.id < b.id))
          /\ ~(b.started < a.started \/ (b.started = a.started /\ b.id < a.id))
      BY <3>2, <3>3
    <3>7. a.started = b.started /\ a.id = b.id
      BY <3>4, <3>6, OneNewest
    <3>8. /\ a = [id |-> a.id, started |-> a.started, open |-> TRUE]
          /\ b = [id |-> b.id, started |-> b.started, open |-> TRUE]
      BY <3>1, <3>4 DEF SessionRow
    <3>. QED
      BY <3>7, <3>8, Zenon
  <2>10. ~Duplicates(after, x)
    BY <2>9, AtMostOne DEF Duplicates
  <2>11. Ready(db, after, from, Create({x}), to)
    BY <2>2, <2>5, <2>7, <2>8, <2>10, FittingIsCreated
  <2>. QED
    BY <2>1, <2>5, <2>11
<1>. HIDE DEF first
<1>3. Leads(<<first, Create({x})>>, from, to, need)
  BY <1>2, LeadsReadied
<1>. QED
  BY <1>0, <1>3 DEF first

\* After the duplicate activations are dropped, one is left at most.
LEMMA ActivationOnceIsReady ==
    ASSUME NEW from, NEW to, NEW need,
           NEW x, x = <<"analytics_events", <<"user_id">>, "unique activation">>, Fits(x, from, to)
    PROVE  Leads(<<Execute("drop duplicate activations"), Create(ActivationOnce)>>, from, to, need)
<1>. DEFINE first == Execute("drop duplicate activations")
<1>0. ActivationOnce = {x}
  BY DEF ActivationOnce, UniqueWhere
<1>1. first.does = "drop duplicate activations"
  BY DEF Execute, Op
<1>2. ASSUME NEW db, IsDatabase(db), db.schema = from
      PROVE  Accepts(db, first) /\ Ready(db, Applied(db, first), from, Create({x}), to)
  <2>1. Accepts(db, first) /\ Applied(db, first) = DropDuplicateActivations(db)
    BY <1>1 DEF Accepts, Applied
  <2>2. IsDatabase(DropDuplicateActivations(db))
    BY <1>2, DropDuplicateActivationsKeeps
  <2>. DEFINE left == {a \in db.activations : ~ \E b \in db.activations : a > b}
  <2>3. DropDuplicateActivations(db) = [db EXCEPT !.activations = left]
    BY DEF DropDuplicateActivations
  <2>4. PICK after : after = DropDuplicateActivations(db)
    OBVIOUS
  <2>5. after = [schema |-> from, sessions |-> db.sessions, activations |-> left,
                 accounts |-> db.accounts, claim |-> db.claim]
    <3>. HIDE DEF left
    <3>. QED
      BY <1>2, <2>3, <2>4 DEF IsDatabase
  <2>6. /\ after.schema = from /\ after.sessions = db.sessions /\ after.activations = left
        /\ after.accounts = db.accounts
    BY <2>5
  <2>7. Calm(db, after)
    <3>. HIDE DEF left
    <3>. QED
      BY <2>6 DEF Calm, OneAccount
  <2>8. \A a, b \in left : a = b
    <3>1. db.activations \in SUBSET Ids
      BY <1>2 DEF IsDatabase
    <3>. QED
      BY <3>1, OneLeast, Zenon
  <2>9. ~Duplicates(after, x)
    <3>. HIDE DEF left
    <3>1. ~(Cardinality(left) > 1)
      BY <2>8, AtMostOne
    <3>. QED
      BY <2>6, <3>1 DEF Duplicates
  <2>10. Ready(db, after, from, Create({x}), to)
    BY <2>2, <2>4, <2>6, <2>7, <2>9, FittingIsCreated
  <2>. QED
    BY <2>1, <2>4, <2>10
<1>. HIDE DEF first
<1>3. Leads(<<first, Create({x})>>, from, to, need)
  BY <1>2, LeadsReadied
<1>. QED
  BY <1>0, <1>3 DEF first

\* E-mails in lower case differ, where there is one account.
LEMMA EmailLowerIsReady ==
    ASSUME NEW from, NEW to, NEW x, x = <<"users", <<"email">>, "unique lower">>, Fits(x, from, to)
    PROVE  Leads(<<Execute("lowercase emails"), Create(EmailLower)>>, from, to, "one account")
<1>. DEFINE first == Execute("lowercase emails")
<1>0. EmailLower = {x}
  BY DEF EmailLower, UniqueWhere
<1>1. first.does = "lowercase emails"
  BY DEF Execute, Op
<1>2. ASSUME NEW db, IsDatabase(db), db.schema = from
      PROVE  /\ Meets(db, "one account") => Accepts(db, first)
             /\ Accepts(db, first) => Ready(db, Applied(db, first), from, Create({x}), to)
  <2>1. Meets(db, "one account") => Accepts(db, first)
    BY <1>1 DEF Accepts, Meets, OneAccount
  <2>2. ASSUME Accepts(db, first) PROVE Ready(db, Applied(db, first), from, Create({x}), to)
    <3>1. \A a, b \in db.accounts : a # b => Lower(a) # Lower(b)
      BY <1>1, <2>2 DEF Accepts
    <3>2. Applied(db, first) = LowercaseEmails(db)
      BY <1>1 DEF Applied
    <3>3. IsDatabase(LowercaseEmails(db))
      BY <1>2, <3>1, LowercaseEmailsKeeps
    <3>. DEFINE left == {Lower(a) : a \in db.accounts}
    <3>4. LowercaseEmails(db) = [db EXCEPT !.accounts = left]
      BY DEF LowercaseEmails
    <3>5. PICK after : after = LowercaseEmails(db)
      OBVIOUS
    <3>6. after = [schema |-> from, sessions |-> db.sessions, activations |-> db.activations,
                   accounts |-> left, claim |-> db.claim]
      <4>. HIDE DEF left
      <4>. QED
        BY <1>2, <3>4, <3>5 DEF IsDatabase
    <3>7. after.schema = from /\ after.sessions = db.sessions /\ after.accounts = left
      BY <3>6
    <3>8. \A a, b \in left : a = b
      BY DEF Lower
    <3>9. Calm(db, after)
      <4>. HIDE DEF left
      <4>. QED
        BY <3>7, <3>8 DEF Calm, OneAccount
    <3>10. ~Duplicates(after, x)
      <4>. HIDE DEF left
      <4>. QED
        BY <3>7, <3>8 DEF Duplicates
    <3>11. Ready(db, after, from, Create({x}), to)
      BY <3>3, <3>5, <3>7, <3>9, <3>10, FittingIsCreated
    <3>. QED
      BY <3>2, <3>5, <3>11
  <2>. QED
    BY <2>1, <2>2
<1>. HIDE DEF first
<1>3. Leads(<<first, Create({x})>>, from, to, "one account")
  BY <1>2, LeadsReadied
<1>. QED
  BY <1>0, <1>3 DEF first

\* After the responses are filled in, the column may be required again.
LEMMA TightenIsReady ==
    ASSUME NEW t, NEW rest, NoneOf(rest, t), NEW req, NEW opt, NEW more, Extras(more, t),
           NEW c \in opt, c \notin req, NEW need
    PROVE  Leads(<<Execute("backfill responses"), Tighten(t, c)>>, rest \cup Table(t, req, opt, more),
                 rest \cup Table(t, req \cup {c}, opt \ {c}, more), need)
<1>. DEFINE first == Execute("backfill responses")
            from == rest \cup Table(t, req, opt, more)
            to == rest \cup Table(t, req \cup {c}, opt \ {c}, more)
<1>0. to = (from \ Optional(t, {c})) \cup Required(t, {c})
  <2>1. \A x \in Optional(t, {c}) : x[1] = t /\ IsColumn(x)
    BY DEF Optional, IsColumn
  <2>2. rest \cap Optional(t, {c}) = {} /\ more \cap Optional(t, {c}) = {}
    BY <2>1 DEF NoneOf, Extras
  <2>3. Optional(t, opt) \ Optional(t, {c}) = Optional(t, opt \ {c})
    <3>1. \A d \in opt : <<t, <<d>>, "optional">> \in Optional(t, {c}) <=> d = c
      BY DEF Optional
    <3>. QED
      BY <3>1 DEF Optional
  <2>4. Required(t, req) \cap Optional(t, {c}) = {}
    BY DEF Required, Optional
  <2>5. Required(t, req \cup {c}) = Required(t, req) \cup Required(t, {c})
    BY DEF Required
  <2>. QED
    BY <2>2, <2>3, <2>4, <2>5 DEF Table
<1>1. first.does = "backfill responses"
  BY DEF Execute, Op
<1>2. /\ Tighten(t, c).does = "tighten" /\ Tighten(t, c).what = {c} /\ Tighten(t, c).table = t
  BY DEF Tighten, Op
<1>3. ASSUME NEW db, IsDatabase(db), db.schema = from
      PROVE  Accepts(db, first) /\ Ready(db, Applied(db, first), from, Tighten(t, c), to)
  <2>1. Accepts(db, first) /\ Applied(db, first) = BackfillResponses(db)
    BY <1>1 DEF Accepts, Applied
  <2>2. IsDatabase(BackfillResponses(db))
    BY <1>3, DowngradeOpsType
  <2>. DEFINE filled == IF db.claim = "null" THEN "empty" ELSE db.claim
  <2>3. BackfillResponses(db) = [db EXCEPT !.claim = filled]
    BY DEF BackfillResponses
  <2>4. PICK after : after = BackfillResponses(db)
    OBVIOUS
  <2>5. filled # "null"
    OBVIOUS
  <2>. HIDE DEF from, to, filled, first
  <2>6. after = [schema |-> from, sessions |-> db.sessions, activations |-> db.activations,
                 accounts |-> db.accounts, claim |-> filled]
    BY <1>3, <2>3, <2>4 DEF IsDatabase
  <2>7. /\ after.schema = from /\ after.sessions = db.sessions /\ after.accounts = db.accounts
        /\ after.claim # "null"
    BY <2>5, <2>6
  <2>8. Calm(db, after)
    BY <2>7 DEF Calm, OneAccount
  <2>9. Accepts(after, Tighten(t, c))
    BY <1>2, <2>7 DEF Accepts
  <2>10. Applied(after, Tighten(t, c))
             = [after EXCEPT !.schema = (@ \ Optional(t, {c})) \cup Required(t, {c})]
    BY <1>2 DEF Applied
  <2>11. Applied(after, Tighten(t, c)) = [after EXCEPT !.schema = to]
    BY <1>0, <2>7, <2>10
  <2>12. Ready(db, after, from, Tighten(t, c), to)
    BY <2>2, <2>4, <2>7, <2>8, <2>9, <2>11 DEF Ready
  <2>. QED
    BY <2>1, <2>4, <2>12
<1>. HIDE DEF first, from, to
<1>4. Leads(<<first, Tighten(t, c)>>, from, to, need)
  BY <1>3, LeadsReadied
<1>. QED
  BY <1>4 DEF first, from, to

----------------------------------------------------------------------------
(* The migrations: changes of a table, and back                            *)

\* Nothing in a table stands on the column.
Free(more, c) == \A x \in more : \A i \in DOMAIN x[2] : x[2][i] # c

\* Everything in a set stands in these columns.
Standing(more, columns, rest) == \A x \in more : StandsIn(x, columns, rest)

\* Two operations that undo each other.
Undoes(down, up, from, to, need) == Does(up, from, to, need) /\ Does(down, to, from, need)

LEMMA NoColumns ==
    ASSUME NEW t
    PROVE  Required(t, {}) = {} /\ Optional(t, {}) = {} /\ Table(t, {}, {}, {}) = {}
  BY DEF Required, Optional, Table

LEMMA RequiredColumn ==
    ASSUME NEW t, NEW rest, NoneOf(rest, t), NEW req, NEW opt, NEW more, Extras(more, t),
           NEW c, c \notin req, c \notin opt, Free(more, c), NEW need
    PROVE  Undoes(DropColumn(t, c), Create(Required(t, {c})), rest \cup Table(t, req, opt, more),
                  rest \cup Table(t, req \cup {c}, opt, more), need)
<1>. DEFINE what == Required(t, {c})
            none == {}
            new == {c}
<1>1. what = Table(t, new, none, none)
  BY NoColumns DEF Table
<1>2. Extras(none, t) /\ Ordinary(none) /\ req \cap new = {} /\ opt \cap none = {}
        /\ more \cap none = {}
      /\ \A x \in none : StandsIn(x, req \cup new \cup opt \cup none, rest)
  BY DEF Extras, Ordinary
<1>3. new \subseteq req \cup new
  OBVIOUS
<1>. HIDE DEF what, none, new
<1>4. Does(Create(what), rest \cup Table(t, req, opt, more),
           rest \cup Table(t, req \cup new, opt \cup none, more \cup none), need)
  BY <1>1, <1>2, CreateDoes
<1>5. opt \cup none = opt /\ more \cup none = more
  BY DEF none
<1>6. Does(Create(what), rest \cup Table(t, req, opt, more), rest \cup Table(t, req \cup new, opt,
        more), need)
  BY <1>4, <1>5
<1>7. more = {x \in more : \A i \in DOMAIN x[2] : x[2][i] # c}
  BY DEF Free
<1>8. Does(DropColumn(t, c), rest \cup Table(t, req \cup new, opt, more),
           rest \cup Table(t, (req \cup new) \ {c}, opt \ {c}, more), need)
  <2>1. c \in (req \cup new) \cup opt
    BY DEF new
  <2>. DEFINE wide == req \cup new
  <2>. HIDE DEF wide
  <2>2. Does(DropColumn(t, c), rest \cup Table(t, wide, opt, more), rest \cup Table(t, wide \ {c},
          opt \ {c}, more), need)
    BY <1>7, <2>1, DropColumnDoes DEF wide
  <2>. QED
    BY <2>2 DEF wide
<1>9. (req \cup new) \ {c} = req /\ opt \ {c} = opt
  BY DEF new
<1>10. Does(DropColumn(t, c), rest \cup Table(t, req \cup new, opt, more), rest \cup Table(t, req,
        opt, more), need)
  BY <1>8, <1>9
<1>. QED
  BY <1>6, <1>10 DEF what, new, Undoes

LEMMA OptionalColumn ==
    ASSUME NEW t, NEW rest, NoneOf(rest, t), NEW req, NEW opt, NEW more, Extras(more, t),
           NEW c, c \notin req, c \notin opt, Free(more, c), NEW need
    PROVE  Undoes(DropColumn(t, c), Create(Optional(t, {c})), rest \cup Table(t, req, opt, more),
                  rest \cup Table(t, req, opt \cup {c}, more), need)
<1>. DEFINE what == Optional(t, {c})
            none == {}
            new == {c}
<1>1. what = Table(t, none, new, none)
  BY NoColumns DEF Table
<1>2. Extras(none, t) /\ Ordinary(none) /\ req \cap none = {} /\ opt \cap new = {}
        /\ more \cap none = {}
      /\ \A x \in none : StandsIn(x, req \cup none \cup opt \cup new, rest)
  BY DEF Extras, Ordinary
<1>. HIDE DEF what, none, new
<1>4. Does(Create(what), rest \cup Table(t, req, opt, more),
           rest \cup Table(t, req \cup none, opt \cup new, more \cup none), need)
  BY <1>1, <1>2, CreateDoes
<1>5. req \cup none = req /\ more \cup none = more
  BY DEF none
<1>6. Does(Create(what), rest \cup Table(t, req, opt, more), rest \cup Table(t, req, opt \cup new,
        more), need)
  BY <1>4, <1>5
<1>7. more = {x \in more : \A i \in DOMAIN x[2] : x[2][i] # c}
  BY DEF Free
<1>8. Does(DropColumn(t, c), rest \cup Table(t, req, opt \cup new, more),
           rest \cup Table(t, req \ {c}, (opt \cup new) \ {c}, more), need)
  <2>1. c \in req \cup (opt \cup new)
    BY DEF new
  <2>. DEFINE wide == opt \cup new
  <2>. HIDE DEF wide
  <2>2. Does(DropColumn(t, c), rest \cup Table(t, req, wide, more), rest \cup Table(t, req \ {c},
          wide \ {c}, more), need)
    BY <1>7, <2>1, DropColumnDoes DEF wide
  <2>. QED
    BY <2>2 DEF wide
<1>9. (opt \cup new) \ {c} = opt /\ req \ {c} = req
  BY DEF new
<1>10. Does(DropColumn(t, c), rest \cup Table(t, req, opt \cup new, more), rest \cup Table(t, req,
        opt, more), need)
  BY <1>8, <1>9
<1>. QED
  BY <1>6, <1>10 DEF what, new, Undoes

\* An index, a constraint or a key.
LEMMA Thing ==
    ASSUME NEW t, NEW rest, NoneOf(rest, t), NEW req, NEW opt, NEW more, Extras(more, t),
           NEW new, Extras(new, t), Ordinary(new), more \cap new = {},
           Standing(new, req \cup opt, rest), NEW need
    PROVE  Undoes(Drop(new), Create(new), rest \cup Table(t, req, opt, more),
                  rest \cup Table(t, req, opt, more \cup new), need)
<1>. DEFINE none == {}
<1>1. new = Table(t, none, none, new)
  BY NoColumns DEF Table
<1>2. req \cup none \cup opt \cup none = req \cup opt /\ req \cap none = {} /\ opt \cap none = {}
      /\ req \cup none = req /\ opt \cup none = opt
  OBVIOUS
<1>3. \A x \in new : StandsIn(x, req \cup none \cup opt \cup none, rest)
  BY <1>2 DEF Standing
<1>. HIDE DEF none
<1>4. Does(Create(new), rest \cup Table(t, req, opt, more),
           rest \cup Table(t, req \cup none, opt \cup none, more \cup new), need)
  BY <1>1, <1>2, <1>3, CreateDoes
<1>5. Does(Create(new), rest \cup Table(t, req, opt, more),
           rest \cup Table(t, req, opt, more \cup new), need)
  BY <1>2, <1>4
<1>. DEFINE wide == more \cup new
<1>6. Extras(wide, t) /\ new \in SUBSET wide /\ wide \ new = more
  BY DEF Extras
<1>. HIDE DEF wide
<1>7. Does(Drop(new), rest \cup Table(t, req, opt, wide), rest \cup Table(t, req, opt, wide \ new),
        need)
  BY <1>6, DropDoes
<1>8. Does(Drop(new), rest \cup Table(t, req, opt, more \cup new), rest \cup Table(t, req, opt,
        more), need)
  BY <1>6, <1>7 DEF wide
<1>. QED
  BY <1>5, <1>8 DEF Undoes

\* A new table.
LEMMA NewTable ==
    ASSUME NEW t, NEW rest, NoneOf(rest, t), NEW req, NEW opt, NEW more, Extras(more, t),
           Ordinary(more), Standing(more, req \cup opt, rest),
           NEW what, what = Table(t, req, opt, more), NEW need
    PROVE  Does(Create(what), rest, rest \cup Table(t, req, opt, more), need)
<1>. DEFINE none == {}
<1>1. Extras(none, t) /\ none \cap req = {} /\ none \cap opt = {} /\ none \cap more = {}
  BY DEF Extras
<1>2. \A x \in more : StandsIn(x, none \cup req \cup none \cup opt, rest)
  <2>1. none \cup req \cup none \cup opt = req \cup opt
    OBVIOUS
  <2>. QED
    BY <2>1 DEF Standing
<1>3. rest \cup Table(t, none, none, none) = rest
  BY NoColumns
<1>4. none \cup req = req /\ none \cup opt = opt /\ none \cup more = more
  OBVIOUS
<1>. HIDE DEF none
<1>5. Does(Create(what), rest \cup Table(t, none, none, none),
           rest \cup Table(t, none \cup req, none \cup opt, none \cup more), need)
  BY <1>1, <1>2, CreateDoes
<1>. QED
  BY <1>3, <1>4, <1>5

\* What stands on one column or two, and a key to a table that is there.
LEMMA StandsOnOne ==
    ASSUME NEW t, NEW c, NEW columns, c \in columns, NEW rest
    PROVE  /\ Standing(Index(t, <<c>>), columns, rest)
           /\ Standing(Unique(t, <<c>>), columns, rest)
<1>1. \A k \in {"index", "unique"} : StandsIn(<<t, <<c>>, k>>, columns, rest)
  <2>. SUFFICES ASSUME NEW k \in {"index", "unique"} PROVE StandsIn(<<t, <<c>>, k>>, columns, rest)
    OBVIOUS
  <2>. DEFINE x == <<t, <<c>>, k>>
  <2>1. ~IsForeignKey(x)
    BY DEF IsForeignKey
  <2>2. x[2] = <<c>>
    OBVIOUS
  <2>3. \A i \in DOMAIN x[2] : x[2][i] \in columns
    BY <2>2
  <2>. HIDE DEF x
  <2>4. StandsIn(x, columns, rest)
    BY <2>1, <2>3 DEF StandsIn
  <2>. QED
    BY <2>4 DEF x
<1>. QED
  BY <1>1 DEF Standing, Index, Unique

LEMMA StandsOnTwo ==
    ASSUME NEW t, NEW c, NEW d, NEW columns, c \in columns, d \in columns, NEW rest
    PROVE  /\ Standing(Index(t, <<c, d>>), columns, rest)
           /\ Standing(Unique(t, <<c, d>>), columns, rest)
<1>1. \A k \in {"index", "unique"} : StandsIn(<<t, <<c, d>>, k>>, columns, rest)
  <2>. SUFFICES ASSUME NEW k \in {"index", "unique"} PROVE StandsIn(<<t, <<c, d>>, k>>, columns, rest)
    OBVIOUS
  <2>. DEFINE x == <<t, <<c, d>>, k>>
  <2>1. ~IsForeignKey(x)
    BY DEF IsForeignKey
  <2>2. x[2] = <<c, d>>
    OBVIOUS
  <2>3. \A i \in DOMAIN x[2] : x[2][i] \in columns
    BY <2>2
  <2>. HIDE DEF x
  <2>4. StandsIn(x, columns, rest)
    BY <2>1, <2>3 DEF StandsIn
  <2>. QED
    BY <2>4 DEF x
<1>. QED
  BY <1>1 DEF Standing, Index, Unique

LEMMA KeyStands ==
    ASSUME NEW t, NEW c, NEW to, NEW columns, c \in columns,
           NEW rest, <<to, <<"id">>, "required">> \in rest
    PROVE  /\ Standing(Refers(t, c, to), columns, rest)
           /\ Standing(RefersOrNull(t, c, to), columns, rest)
<1>1. \A k \in {"cascade", "set null"} : StandsIn(<<t, <<c, to>>, k>>, columns, rest)
  <2>. SUFFICES ASSUME NEW k \in {"cascade", "set null"} PROVE StandsIn(<<t, <<c, to>>, k>>,
         columns, rest)
    OBVIOUS
  <2>. DEFINE x == <<t, <<c, to>>, k>>
  <2>1. IsForeignKey(x)
    BY DEF IsForeignKey
  <2>2. x[2] = <<c, to>>
    OBVIOUS
  <2>3. x[2][1] = c /\ x[2][2] = to
    BY <2>2
  <2>. HIDE DEF x
  <2>4. StandsIn(x, columns, rest)
    BY <2>1, <2>3 DEF StandsIn
  <2>. QED
    BY <2>4 DEF x
<1>. QED
  BY <1>1 DEF Standing, Refers, RefersOrNull

LEMMA StandingTogether ==
    ASSUME NEW a, NEW b, NEW columns, NEW rest, Standing(a, columns, rest), Standing(b, columns, rest)
    PROVE  Standing(a \cup b, columns, rest)
  BY DEF Standing

\* What the objects of each kind are.
LEMMA ExtraKinds ==
    ASSUME NEW t, NEW c, NEW to
    PROVE  /\ Extras(Refers(t, c, to), t) /\ Extras(RefersOrNull(t, c, to), t)
           /\ Extras(Unique(t, c), t) /\ Extras(Index(t, c), t)
           /\ \A k \in {"unique lower", "unique while open",
                "unique activation"} : Extras(UniqueWhere(t, c, k), t)
<1>1. ASSUME NEW a, NEW k \in {"cascade", "set null", "unique", "index", "unique lower",
        "unique while open",
                               "unique activation"}
      PROVE  Extras({<<t, a, k>>}, t)
  <2>. DEFINE x == <<t, a, k>>
  <2>1. x[1] = t /\ x[3] = k
    OBVIOUS
  <2>. HIDE DEF x
  <2>2. Extras({x}, t)
    BY <2>1 DEF Extras, IsColumn
  <2>. QED
    BY <2>2 DEF x
<1>. QED
  BY <1>1 DEF Refers, RefersOrNull, Unique, Index, UniqueWhere

LEMMA ExtrasTogether == ASSUME NEW t, NEW a, NEW b, Extras(a, t), Extras(b, t) PROVE Extras(a \cup b, t)
  BY DEF Extras

LEMMA FreeOfOne ==
    ASSUME NEW t, NEW c, NEW d, c # d
    PROVE  /\ Free(Unique(t, <<c>>), d) /\ Free(Index(t, <<c>>), d)
           /\ \A k : Free(UniqueWhere(t, c, k), d)
<1>1. ASSUME NEW k PROVE Free({<<t, <<c>>, k>>}, d)
  <2>. DEFINE x == <<t, <<c>>, k>>
  <2>1. x[2] = <<c>>
    OBVIOUS
  <2>2. \A i \in DOMAIN x[2] : x[2][i] # d
    BY <2>1
  <2>. HIDE DEF x
  <2>3. Free({x}, d)
    BY <2>2 DEF Free
  <2>. QED
    BY <2>3 DEF x
<1>. QED
  BY <1>1 DEF Unique, Index, UniqueWhere

LEMMA FreeOfTwo ==
    ASSUME NEW t, NEW c, NEW e, NEW d, c # d, e # d
    PROVE  /\ Free(Unique(t, <<c, e>>), d) /\ Free(Index(t, <<c, e>>), d)
<1>1. ASSUME NEW k PROVE Free({<<t, <<c, e>>, k>>}, d)
  <2>. DEFINE x == <<t, <<c, e>>, k>>
  <2>1. x[2] = <<c, e>>
    OBVIOUS
  <2>2. \A i \in DOMAIN x[2] : x[2][i] # d
    BY <2>1
  <2>. HIDE DEF x
  <2>3. Free({x}, d)
    BY <2>2 DEF Free
  <2>. QED
    BY <2>3 DEF x
<1>. QED
  BY <1>1 DEF Unique, Index

LEMMA FreeOfKey ==
    ASSUME NEW t, NEW c, NEW to, NEW d, c # d, to # d
    PROVE  Free(Refers(t, c, to), d) /\ Free(RefersOrNull(t, c, to), d)
<1>1. \A x \in Refers(t, c, to) \cup RefersOrNull(t, c, to) : x[2] = <<c, to>>
  <2>. DEFINE x == <<t, <<c, to>>, "cascade">>
              y == <<t, <<c, to>>, "set null">>
  <2>1. x[2] = <<c, to>> /\ y[2] = <<c, to>> /\ Refers(t, c, to) = {x} /\ RefersOrNull(t, c, to) = {y}
    BY DEF Refers, RefersOrNull
  <2>. HIDE DEF x, y
  <2>. QED
    BY <2>1
<1>2. \A i \in DOMAIN <<c, to>> : <<c, to>>[i] # d
  OBVIOUS
<1>. QED
  BY <1>1, <1>2 DEF Free

LEMMA FreeTogether == ASSUME NEW d, NEW a, NEW b, Free(a, d), Free(b, d) PROVE Free(a \cup b, d)
  BY DEF Free

LEMMA OrdinaryTogether == ASSUME NEW a, NEW b, Ordinary(a), Ordinary(b) PROVE Ordinary(a \cup b)
  BY DEF Ordinary

LEMMA OrdinaryKinds ==
    ASSUME NEW t, NEW c, NEW to
    PROVE  /\ Ordinary(Refers(t, c, to)) /\ Ordinary(RefersOrNull(t, c, to))
           /\ Ordinary(Unique(t, c)) /\ Ordinary(Index(t, c))
<1>1. Ordinary(Refers(t, c, to))
  <2>1. \A x \in Refers(t, c, to) : x[3] = "cascade"
    BY DEF Refers
  <2>. QED
    BY <2>1 DEF Ordinary
<1>2. Ordinary(RefersOrNull(t, c, to))
  <2>. DEFINE y == <<t, <<c, to>>, "set null">>
  <2>0. RefersOrNull(t, c, to) = {y} /\ y[3] = "set null"
    BY DEF RefersOrNull
  <2>. HIDE DEF y
  <2>1. \A x \in RefersOrNull(t, c, to) : x[3] = "set null"
    BY <2>0
  <2>. QED
    BY <2>1 DEF Ordinary
<1>3. Ordinary(Unique(t, c)) /\ Ordinary(Index(t, c))
  BY DEF Ordinary, Unique, Index
<1>. QED
  BY <1>1, <1>2, <1>3

----------------------------------------------------------------------------
(* The migrations: the tables, revision by revision                        *)

\* The columns of each table when it is created.
UsersColumns == {"id", "email", "hashed_password", "native_language", "cefr_level", "tier",
    "minutes_used_today", "created_at"}
ProfilesColumns == {"user_id", "interests", "correction_intensity", "accent"}
SessionsColumns == {"id", "user_id", "mode", "room_name", "voice_engine", "started_at"}
RefreshesColumns == {"id", "user_id", "token_hash", "expires_at", "created_at"}
TranscriptsColumns == {"id", "session_id", "turns", "created_at"}
DebriefsColumns == {"id", "session_id", "cefr_estimate", "summary", "errors", "created_at"}
MissionsColumns == {"id", "user_id", "source_type", "persona", "goal", "likely_questions",
    "system_prompt", "created_at"}
VocabularyColumns == {"id", "user_id", "word", "phonetic", "translation", "example", "status",
    "created_at"}
ReviewsColumns == {"id", "user_id", "error_type", "latest_correction", "stage", "clean_streak",
    "status", "updated_at"}
ConsentsColumns == {"id", "user_id", "transcription", "scoring", "b2b_share", "model_training",
    "updated_at"}
KeysColumns == {"id", "user_id", "key", "response", "created_at"}
EventsColumns == {"id", "name", "user_id", "properties", "created_at"}

\* The tables as the revisions leave them, by the place of the revision.
Users1 ==
    Table("users", UsersColumns,
        {"quota_date"},
        Unique("users", <<"email">>))
Users9 ==
    Table("users", UsersColumns \cup {"is_admin"},
        {"quota_date"},
        Unique("users", <<"email">>))
Users13 ==
    Table("users", UsersColumns \cup {"is_admin"} \cup {"current_streak"}
      \cup {"longest_streak"} \cup {"weekly_goal_minutes"},
        {"quota_date"} \cup {"last_active_date"},
        Unique("users", <<"email">>))
Users19 ==
    Table("users", UsersColumns \cup {"is_admin"} \cup {"current_streak"}
      \cup {"longest_streak"} \cup {"weekly_goal_minutes"},
        {"quota_date"} \cup {"last_active_date"},
        Unique("users", <<"email">>) \cup EmailLower)
Users20 ==
    Table("users", UsersColumns \cup {"is_admin"} \cup {"current_streak"}
      \cup {"longest_streak"} \cup {"weekly_goal_minutes"} \cup {"is_active"},
        {"quota_date"} \cup {"last_active_date"},
        Unique("users", <<"email">>) \cup EmailLower)
Users27 ==
    Table("users", UsersColumns \cup {"is_admin"} \cup {"current_streak"}
      \cup {"longest_streak"} \cup {"weekly_goal_minutes"} \cup {"is_active"},
        {"quota_date"} \cup {"last_active_date"} \cup {"reset_token_hash"}
          \cup {"reset_token_expires_at"},
        Unique("users", <<"email">>) \cup EmailLower \cup Unique("users", <<"reset_token_hash">>))
Profiles2 ==
    Table("learner_profiles", ProfilesColumns,
        {"goal"},
        Refers("learner_profiles", "user_id", "users"))
Profiles7 ==
    Table("learner_profiles", ProfilesColumns \cup {"memory_summary"},
        {"goal"},
        Refers("learner_profiles", "user_id", "users"))
Sessions3 ==
    Table("sessions", SessionsColumns,
        {"scenario_id", "ended_at", "duration_minutes"},
        Refers("sessions", "user_id", "users") \cup Unique("sessions", <<"room_name">>)
          \cup Index("sessions", <<"user_id">>))
Sessions8 ==
    Table("sessions", SessionsColumns,
        {"scenario_id", "ended_at", "duration_minutes"} \cup {"mission_id"},
        Refers("sessions", "user_id", "users") \cup Unique("sessions", <<"room_name">>)
          \cup Index("sessions", <<"user_id">>) \cup Index("sessions", <<"mission_id">>)
          \cup RefersOrNull("sessions", "mission_id", "missions"))
Sessions10 ==
    Table("sessions", SessionsColumns \cup {"last_activity_at"},
        {"scenario_id", "ended_at", "duration_minutes"} \cup {"mission_id"},
        Refers("sessions", "user_id", "users") \cup Unique("sessions", <<"room_name">>)
          \cup Index("sessions", <<"user_id">>) \cup Index("sessions", <<"mission_id">>)
          \cup RefersOrNull("sessions", "mission_id", "missions"))
Sessions22 ==
    Table("sessions", (SessionsColumns \cup {"last_activity_at"}) \ {"room_name"},
        {"scenario_id", "ended_at", "duration_minutes"} \cup {"mission_id"},
        Refers("sessions", "user_id", "users") \cup Index("sessions", <<"user_id">>)
          \cup Index("sessions", <<"mission_id">>) \cup RefersOrNull("sessions", "mission_id",
          "missions"))
Sessions25 ==
    Table("sessions", (SessionsColumns \cup {"last_activity_at"}) \ {"room_name"},
        {"scenario_id", "ended_at", "duration_minutes"} \cup {"mission_id"},
        Refers("sessions", "user_id", "users") \cup Index("sessions", <<"mission_id">>)
          \cup RefersOrNull("sessions", "mission_id", "missions") \cup Index("sessions",
          <<"user_id", "started_at">>))
Sessions26 ==
    Table("sessions", (SessionsColumns \cup {"last_activity_at"}) \ {"room_name"},
        {"scenario_id", "ended_at", "duration_minutes"} \cup {"mission_id"},
        Refers("sessions", "user_id", "users") \cup Index("sessions", <<"mission_id">>)
          \cup RefersOrNull("sessions", "mission_id", "missions") \cup Index("sessions",
          <<"user_id", "started_at">>) \cup OneActive)
Refreshes4 ==
    Table("refresh_tokens", RefreshesColumns,
        {"revoked_at"},
        Refers("refresh_tokens", "user_id", "users") \cup Unique("refresh_tokens",
          <<"token_hash">>) \cup Index("refresh_tokens", <<"user_id">>))
Refreshes21 ==
    Table("refresh_tokens", RefreshesColumns,
        {"revoked_at"},
        Refers("refresh_tokens", "user_id", "users") \cup Unique("refresh_tokens",
          <<"token_hash">>) \cup Index("refresh_tokens", <<"user_id">>)
          \cup Index("refresh_tokens", <<"expires_at">>))
Transcripts5 ==
    Table("transcripts", TranscriptsColumns,
        {},
        Refers("transcripts", "session_id", "sessions") \cup Unique("transcripts", <<"session_id">>))
Debriefs6 ==
    Table("debriefs", DebriefsColumns,
        {},
        Refers("debriefs", "session_id", "sessions") \cup Unique("debriefs", <<"session_id">>))
Missions8 ==
    Table("missions", MissionsColumns,
        {},
        Refers("missions", "user_id", "users") \cup Index("missions", <<"user_id">>))
Vocabulary11 ==
    Table("vocabulary_entries", VocabularyColumns,
        {"session_id"},
        Refers("vocabulary_entries", "user_id", "users") \cup RefersOrNull("vocabulary_entries",
          "session_id", "sessions") \cup Unique("vocabulary_entries", <<"user_id", "word">>)
          \cup Index("vocabulary_entries", <<"user_id">>))
Vocabulary24 ==
    Table("vocabulary_entries", VocabularyColumns,
        {"session_id"},
        Refers("vocabulary_entries", "user_id", "users") \cup RefersOrNull("vocabulary_entries",
          "session_id", "sessions") \cup Unique("vocabulary_entries", <<"user_id", "word">>)
          \cup Index("vocabulary_entries", <<"user_id">>) \cup Index("vocabulary_entries",
          <<"session_id">>))
Reviews12 ==
    Table("review_items", ReviewsColumns,
        {"next_review_at"},
        Refers("review_items", "user_id", "users") \cup Unique("review_items",
          <<"user_id", "error_type">>) \cup Index("review_items", <<"user_id">>))
Reviews23 ==
    Table("review_items", ReviewsColumns,
        {"next_review_at"},
        Refers("review_items", "user_id", "users") \cup Unique("review_items",
          <<"user_id", "error_type">>) \cup Index("review_items", <<"user_id", "next_review_at">>))
Consents14 ==
    Table("voice_consents", ConsentsColumns,
        {},
        Refers("voice_consents", "user_id", "users") \cup Unique("voice_consents",
          <<"user_id">>) \cup Index("voice_consents", <<"user_id">>))
Keys15 ==
    Table("idempotency_keys", KeysColumns,
        {},
        Refers("idempotency_keys", "user_id", "users") \cup Unique("idempotency_keys",
          <<"user_id", "key">>) \cup Index("idempotency_keys", <<"user_id">>))
Keys17 ==
    Table("idempotency_keys", KeysColumns \ {"response"},
        {} \cup {"response"},
        Refers("idempotency_keys", "user_id", "users") \cup Unique("idempotency_keys",
          <<"user_id", "key">>) \cup Index("idempotency_keys", <<"user_id">>))
Keys21 ==
    Table("idempotency_keys", KeysColumns \ {"response"},
        {} \cup {"response"},
        Refers("idempotency_keys", "user_id", "users") \cup Unique("idempotency_keys",
          <<"user_id", "key">>) \cup Index("idempotency_keys", <<"user_id">>)
          \cup Index("idempotency_keys", <<"created_at">>))
Events16 ==
    Table("analytics_events", EventsColumns,
        {},
        Refers("analytics_events", "user_id", "users") \cup Index("analytics_events",
          <<"name">>) \cup Index("analytics_events", <<"user_id">>) \cup Index("analytics_events",
          <<"created_at">>))
Events18 ==
    Table("analytics_events", EventsColumns,
        {},
        Refers("analytics_events", "user_id", "users") \cup Index("analytics_events",
          <<"name">>) \cup Index("analytics_events", <<"user_id">>) \cup Index("analytics_events",
          <<"created_at">>) \cup ActivationOnce)

\* No table points at this one.
Unpointed(rest, t) == \A x \in rest : IsForeignKey(x) => x[2][2] # t

\* A revision leads up from one schema to another, and down back.
Turns(r, from, to, up, down) == Leads(r.up, from, to, up) /\ Leads(r.down, to, from, down)

LEMMA TurnsAre ==
    ASSUME NEW ups, NEW downs, NEW from, NEW to, NEW up, NEW down,
           Leads(ups, from, to, up), Leads(downs, to, from, down),
           NEW r, r = Script(ups, downs), NEW end, end = to
    PROVE  Turns(r, from, end, up, down)
  BY DEF Turns, Script

LEMMA Turns_fed9f2ac9d04 ==
    ASSUME NEW rest, NoneOf(rest, "users"),
           Unpointed(rest, "users")
    PROVE  Turns(rev_fed9f2ac9d04, rest, rest \cup Users1, "none", "none")
<1>. DEFINE req == UsersColumns
            opt == {"quota_date"}
            m0 == {}
            x1 == Unique("users", <<"email">>)
            m1 == m0 \cup x1
            what == Required("users", UsersColumns) \cup Optional("users", {"quota_date"})
<1>1. Extras(m0, "users") /\ Extras(m1, "users") /\ Extras(x1, "users")
  BY ExtraKinds, ExtrasTogether DEF Extras
<1>2. Ordinary(m0) /\ Ordinary(x1)
  BY OrdinaryKinds, OrdinaryTogether DEF Ordinary
<1>3. m0 \cap x1 = {}
  BY DEF Refers, RefersOrNull, Unique, UniqueWhere, Index
<1>4. "email" \in req \cup opt
  BY DEF UsersColumns
<1>5. Standing(Unique("users", <<"email">>), req \cup opt, rest)
  BY <1>4, StandsOnOne
<1>6. Standing(m0, req \cup opt, rest)
  BY DEF Standing
<1>7. what = Table("users", req, opt, m0)
  BY NoColumns DEF Table
<1>8. req # {}
  BY DEF UsersColumns
<1>9. Standing(x1, req \cup opt, rest)
  BY <1>5
<1>. HIDE DEF req, opt, what, m0, m1, x1
<1>10. Does(Create(what), rest, rest \cup Table("users", req, opt, m0), "none")
  BY <1>1, <1>2, <1>6, <1>7, NewTable
<1>11. Undoes(Drop(x1), Create(x1), rest \cup Table("users", req, opt, m0), rest
        \cup Table("users", req, opt, m1), "none")
  BY <1>1, <1>2, <1>3, <1>9, Thing DEF m1
<1>12. Does(DropTable("users"), rest \cup Table("users", req, opt, m0), rest, "none")
  BY <1>1, <1>8, DropTableDoes DEF Unpointed
<1>13. Leads(<<Create(what), Create(x1)>>, rest, rest \cup Table("users", req, opt, m1), "none")
  BY <1>10, <1>11, Leads2 DEF Undoes
<1>14. Leads(<<Drop(x1), DropTable("users")>>, rest \cup Table("users", req, opt, m1), rest, "none")
  BY <1>12, <1>11, Leads2 DEF Undoes
<1>15. rest \cup Table("users", req, opt, m1) = rest \cup Users1
  BY DEF Users1, req, opt, m0, m1, x1
<1>16. rev_fed9f2ac9d04 = Script(<<Create(what), Create(x1)>>, <<Drop(x1), DropTable("users")>>)
  BY DEF rev_fed9f2ac9d04, UsersColumns, what, req, opt, m0, x1
<1>. QED
  BY <1>13, <1>14, <1>15, <1>16, TurnsAre

LEMMA Turns_c680843e1e0a ==
    ASSUME NEW rest, NoneOf(rest, "learner_profiles"),
           Unpointed(rest, "learner_profiles"),
           <<"users", <<"id">>, "required">> \in rest
    PROVE  Turns(rev_c680843e1e0a, rest, rest \cup Profiles2, "none", "none")
<1>. DEFINE req == ProfilesColumns
            opt == {"goal"}
            m0 == Refers("learner_profiles", "user_id", "users")
            what == Required("learner_profiles", ProfilesColumns) \cup Optional("learner_profiles",
              {"goal"}) \cup Refers("learner_profiles", "user_id", "users")
<1>1. Extras(m0, "learner_profiles")
  BY ExtraKinds, ExtrasTogether
<1>2. Ordinary(m0)
  BY OrdinaryKinds, OrdinaryTogether
<1>3. "user_id" \in req \cup opt
  BY DEF ProfilesColumns
<1>4. Standing(Refers("learner_profiles", "user_id", "users"), req \cup opt, rest)
  BY <1>3, KeyStands
<1>5. Standing(m0, req \cup opt, rest)
  BY <1>4, StandingTogether
<1>6. what = Table("learner_profiles", req, opt, m0)
  BY NoColumns DEF Table
<1>7. req # {}
  BY DEF ProfilesColumns
<1>. HIDE DEF req, opt, what, m0
<1>8. Does(Create(what), rest, rest \cup Table("learner_profiles", req, opt, m0), "none")
  BY <1>1, <1>2, <1>5, <1>6, NewTable
<1>9. Does(DropTable("learner_profiles"), rest \cup Table("learner_profiles", req, opt, m0), rest,
        "none")
  BY <1>1, <1>7, DropTableDoes DEF Unpointed
<1>10. Leads(<<Create(what)>>, rest, rest \cup Table("learner_profiles", req, opt, m0), "none")
  BY <1>8, Leads1 DEF Undoes
<1>11. Leads(<<DropTable("learner_profiles")>>, rest \cup Table("learner_profiles", req, opt, m0),
        rest, "none")
  BY <1>9, Leads1 DEF Undoes
<1>12. rest \cup Table("learner_profiles", req, opt, m0) = rest \cup Profiles2
  BY DEF Profiles2, req, opt, m0
<1>13. rev_c680843e1e0a = Script(<<Create(what)>>, <<DropTable("learner_profiles")>>)
  BY DEF rev_c680843e1e0a, ProfilesColumns, what, req, opt, m0
<1>. QED
  BY <1>10, <1>11, <1>12, <1>13, TurnsAre

LEMMA Turns_4c4cd5d33301 ==
    ASSUME NEW rest, NoneOf(rest, "sessions"),
           Unpointed(rest, "sessions"),
           <<"users", <<"id">>, "required">> \in rest
    PROVE  Turns(rev_4c4cd5d33301, rest, rest \cup Sessions3, "none", "none")
<1>. DEFINE req == SessionsColumns
            opt == {"scenario_id", "ended_at", "duration_minutes"}
            m0 == Refers("sessions", "user_id", "users") \cup Unique("sessions", <<"room_name">>)
            x1 == Index("sessions", <<"user_id">>)
            m1 == m0 \cup x1
            what == Required("sessions", SessionsColumns) \cup Optional("sessions", {"scenario_id",
              "ended_at", "duration_minutes"}) \cup Refers("sessions", "user_id", "users")
              \cup Unique("sessions", <<"room_name">>)
<1>1. Extras(m0, "sessions") /\ Extras(m1, "sessions") /\ Extras(x1, "sessions")
  BY ExtraKinds, ExtrasTogether
<1>2. Ordinary(m0) /\ Ordinary(x1)
  BY OrdinaryKinds, OrdinaryTogether
<1>3. m0 \cap x1 = {}
  BY DEF Refers, RefersOrNull, Unique, UniqueWhere, Index
<1>4. "user_id" \in req \cup opt
  BY DEF SessionsColumns
<1>5. Standing(Refers("sessions", "user_id", "users"), req \cup opt, rest)
  BY <1>4, KeyStands
<1>6. "room_name" \in req \cup opt
  BY DEF SessionsColumns
<1>7. Standing(Unique("sessions", <<"room_name">>), req \cup opt, rest)
  BY <1>6, StandsOnOne
<1>8. "user_id" \in req \cup opt
  BY DEF SessionsColumns
<1>9. Standing(Index("sessions", <<"user_id">>), req \cup opt, rest)
  BY <1>8, StandsOnOne
<1>10. Standing(m0, req \cup opt, rest)
  BY <1>5, <1>7, StandingTogether
<1>11. what = Table("sessions", req, opt, m0)
  BY NoColumns DEF Table
<1>12. req # {}
  BY DEF SessionsColumns
<1>13. Standing(x1, req \cup opt, rest)
  BY <1>9
<1>. HIDE DEF req, opt, what, m0, m1, x1
<1>14. Does(Create(what), rest, rest \cup Table("sessions", req, opt, m0), "none")
  BY <1>1, <1>2, <1>10, <1>11, NewTable
<1>15. Undoes(Drop(x1), Create(x1), rest \cup Table("sessions", req, opt, m0), rest
        \cup Table("sessions", req, opt, m1), "none")
  BY <1>1, <1>2, <1>3, <1>13, Thing DEF m1
<1>16. Does(DropTable("sessions"), rest \cup Table("sessions", req, opt, m0), rest, "none")
  BY <1>1, <1>12, DropTableDoes DEF Unpointed
<1>17. Leads(<<Create(what), Create(x1)>>, rest, rest \cup Table("sessions", req, opt, m1), "none")
  BY <1>14, <1>15, Leads2 DEF Undoes
<1>18. Leads(<<Drop(x1), DropTable("sessions")>>, rest \cup Table("sessions", req, opt, m1), rest,
        "none")
  BY <1>16, <1>15, Leads2 DEF Undoes
<1>19. rest \cup Table("sessions", req, opt, m1) = rest \cup Sessions3
  BY DEF Sessions3, req, opt, m0, m1, x1
<1>20. rev_4c4cd5d33301 = Script(<<Create(what), Create(x1)>>, <<Drop(x1), DropTable("sessions")>>)
  BY DEF rev_4c4cd5d33301, SessionsColumns, what, req, opt, m0, x1
<1>. QED
  BY <1>17, <1>18, <1>19, <1>20, TurnsAre

LEMMA Turns_a580567ea83a ==
    ASSUME NEW rest, NoneOf(rest, "refresh_tokens"),
           Unpointed(rest, "refresh_tokens"),
           <<"users", <<"id">>, "required">> \in rest
    PROVE  Turns(rev_a580567ea83a, rest, rest \cup Refreshes4, "none", "none")
<1>. DEFINE req == RefreshesColumns
            opt == {"revoked_at"}
            m0 == Refers("refresh_tokens", "user_id", "users")
            x1 == Unique("refresh_tokens", <<"token_hash">>)
            m1 == m0 \cup x1
            x2 == Index("refresh_tokens", <<"user_id">>)
            m2 == m1 \cup x2
            what == Required("refresh_tokens", RefreshesColumns) \cup Optional("refresh_tokens",
              {"revoked_at"}) \cup Refers("refresh_tokens", "user_id", "users")
<1>1. Extras(m0, "refresh_tokens") /\ Extras(m1, "refresh_tokens") /\ Extras(m2,
        "refresh_tokens") /\ Extras(x1, "refresh_tokens") /\ Extras(x2, "refresh_tokens")
  BY ExtraKinds, ExtrasTogether
<1>2. Ordinary(m0) /\ Ordinary(x1) /\ Ordinary(x2)
  BY OrdinaryKinds, OrdinaryTogether
<1>3. m0 \cap x1 = {} /\ m1 \cap x2 = {}
  BY DEF Refers, RefersOrNull, Unique, UniqueWhere, Index
<1>4. "user_id" \in req \cup opt
  BY DEF RefreshesColumns
<1>5. Standing(Refers("refresh_tokens", "user_id", "users"), req \cup opt, rest)
  BY <1>4, KeyStands
<1>6. "token_hash" \in req \cup opt
  BY DEF RefreshesColumns
<1>7. Standing(Unique("refresh_tokens", <<"token_hash">>), req \cup opt, rest)
  BY <1>6, StandsOnOne
<1>8. "user_id" \in req \cup opt
  BY DEF RefreshesColumns
<1>9. Standing(Index("refresh_tokens", <<"user_id">>), req \cup opt, rest)
  BY <1>8, StandsOnOne
<1>10. Standing(m0, req \cup opt, rest)
  BY <1>5, StandingTogether
<1>11. what = Table("refresh_tokens", req, opt, m0)
  BY NoColumns DEF Table
<1>12. req # {}
  BY DEF RefreshesColumns
<1>13. Standing(x1, req \cup opt, rest) /\ Standing(x2, req \cup opt, rest)
  BY <1>7, <1>9
<1>. HIDE DEF req, opt, what, m0, m1, m2, x1, x2
<1>14. Does(Create(what), rest, rest \cup Table("refresh_tokens", req, opt, m0), "none")
  BY <1>1, <1>2, <1>10, <1>11, NewTable
<1>15. Undoes(Drop(x1), Create(x1), rest \cup Table("refresh_tokens", req, opt, m0), rest
        \cup Table("refresh_tokens", req, opt, m1), "none")
  BY <1>1, <1>2, <1>3, <1>13, Thing DEF m1
<1>16. Undoes(Drop(x2), Create(x2), rest \cup Table("refresh_tokens", req, opt, m1), rest
        \cup Table("refresh_tokens", req, opt, m2), "none")
  BY <1>1, <1>2, <1>3, <1>13, Thing DEF m2
<1>17. Does(DropTable("refresh_tokens"), rest \cup Table("refresh_tokens", req, opt, m0), rest, "none")
  BY <1>1, <1>12, DropTableDoes DEF Unpointed
<1>18. Leads(<<Create(what), Create(x1), Create(x2)>>, rest, rest \cup Table("refresh_tokens", req,
        opt, m2), "none")
  BY <1>14, <1>15, <1>16, Leads3 DEF Undoes
<1>19. Leads(<<Drop(x2), Drop(x1), DropTable("refresh_tokens")>>, rest \cup Table("refresh_tokens",
        req, opt, m2), rest, "none")
  BY <1>17, <1>15, <1>16, Leads3 DEF Undoes
<1>20. rest \cup Table("refresh_tokens", req, opt, m2) = rest \cup Refreshes4
  BY DEF Refreshes4, req, opt, m0, m1, m2, x1, x2
<1>21. rev_a580567ea83a = Script(<<Create(what), Create(x1), Create(x2)>>,
        <<Drop(x2), Drop(x1), DropTable("refresh_tokens")>>)
  BY DEF rev_a580567ea83a, RefreshesColumns, what, req, opt, m0, x1, x2
<1>. QED
  BY <1>18, <1>19, <1>20, <1>21, TurnsAre

LEMMA Turns_1aca44166335 ==
    ASSUME NEW rest, NoneOf(rest, "transcripts"),
           Unpointed(rest, "transcripts"),
           <<"sessions", <<"id">>, "required">> \in rest
    PROVE  Turns(rev_1aca44166335, rest, rest \cup Transcripts5, "none", "none")
<1>. DEFINE req == TranscriptsColumns
            opt == {}
            m0 == Refers("transcripts", "session_id", "sessions")
            x1 == Unique("transcripts", <<"session_id">>)
            m1 == m0 \cup x1
            what == Required("transcripts", TranscriptsColumns) \cup Refers("transcripts",
              "session_id", "sessions")
<1>1. Extras(m0, "transcripts") /\ Extras(m1, "transcripts") /\ Extras(x1, "transcripts")
  BY ExtraKinds, ExtrasTogether
<1>2. Ordinary(m0) /\ Ordinary(x1)
  BY OrdinaryKinds, OrdinaryTogether
<1>3. m0 \cap x1 = {}
  BY DEF Refers, RefersOrNull, Unique, UniqueWhere, Index
<1>4. "session_id" \in req \cup opt
  BY DEF TranscriptsColumns
<1>5. Standing(Refers("transcripts", "session_id", "sessions"), req \cup opt, rest)
  BY <1>4, KeyStands
<1>6. "session_id" \in req \cup opt
  BY DEF TranscriptsColumns
<1>7. Standing(Unique("transcripts", <<"session_id">>), req \cup opt, rest)
  BY <1>6, StandsOnOne
<1>8. Standing(m0, req \cup opt, rest)
  BY <1>5, StandingTogether
<1>9. what = Table("transcripts", req, opt, m0)
  BY NoColumns DEF Table
<1>10. req # {}
  BY DEF TranscriptsColumns
<1>11. Standing(x1, req \cup opt, rest)
  BY <1>7
<1>. HIDE DEF req, opt, what, m0, m1, x1
<1>12. Does(Create(what), rest, rest \cup Table("transcripts", req, opt, m0), "none")
  BY <1>1, <1>2, <1>8, <1>9, NewTable
<1>13. Undoes(Drop(x1), Create(x1), rest \cup Table("transcripts", req, opt, m0), rest
        \cup Table("transcripts", req, opt, m1), "none")
  BY <1>1, <1>2, <1>3, <1>11, Thing DEF m1
<1>14. Does(DropTable("transcripts"), rest \cup Table("transcripts", req, opt, m0), rest, "none")
  BY <1>1, <1>10, DropTableDoes DEF Unpointed
<1>15. Leads(<<Create(what), Create(x1)>>, rest, rest \cup Table("transcripts", req, opt, m1), "none")
  BY <1>12, <1>13, Leads2 DEF Undoes
<1>16. Leads(<<Drop(x1), DropTable("transcripts")>>, rest \cup Table("transcripts", req, opt, m1),
        rest, "none")
  BY <1>14, <1>13, Leads2 DEF Undoes
<1>17. rest \cup Table("transcripts", req, opt, m1) = rest \cup Transcripts5
  BY DEF Transcripts5, req, opt, m0, m1, x1
<1>18. rev_1aca44166335 = Script(<<Create(what), Create(x1)>>, <<Drop(x1), DropTable("transcripts")>>)
  BY DEF rev_1aca44166335, TranscriptsColumns, what, req, opt, m0, x1
<1>. QED
  BY <1>15, <1>16, <1>17, <1>18, TurnsAre

LEMMA Turns_ba64d112828d ==
    ASSUME NEW rest, NoneOf(rest, "debriefs"),
           Unpointed(rest, "debriefs"),
           <<"sessions", <<"id">>, "required">> \in rest
    PROVE  Turns(rev_ba64d112828d, rest, rest \cup Debriefs6, "none", "none")
<1>. DEFINE req == DebriefsColumns
            opt == {}
            m0 == Refers("debriefs", "session_id", "sessions")
            x1 == Unique("debriefs", <<"session_id">>)
            m1 == m0 \cup x1
            what == Required("debriefs", DebriefsColumns) \cup Refers("debriefs", "session_id",
              "sessions")
<1>1. Extras(m0, "debriefs") /\ Extras(m1, "debriefs") /\ Extras(x1, "debriefs")
  BY ExtraKinds, ExtrasTogether
<1>2. Ordinary(m0) /\ Ordinary(x1)
  BY OrdinaryKinds, OrdinaryTogether
<1>3. m0 \cap x1 = {}
  BY DEF Refers, RefersOrNull, Unique, UniqueWhere, Index
<1>4. "session_id" \in req \cup opt
  BY DEF DebriefsColumns
<1>5. Standing(Refers("debriefs", "session_id", "sessions"), req \cup opt, rest)
  BY <1>4, KeyStands
<1>6. "session_id" \in req \cup opt
  BY DEF DebriefsColumns
<1>7. Standing(Unique("debriefs", <<"session_id">>), req \cup opt, rest)
  BY <1>6, StandsOnOne
<1>8. Standing(m0, req \cup opt, rest)
  BY <1>5, StandingTogether
<1>9. what = Table("debriefs", req, opt, m0)
  BY NoColumns DEF Table
<1>10. req # {}
  BY DEF DebriefsColumns
<1>11. Standing(x1, req \cup opt, rest)
  BY <1>7
<1>. HIDE DEF req, opt, what, m0, m1, x1
<1>12. Does(Create(what), rest, rest \cup Table("debriefs", req, opt, m0), "none")
  BY <1>1, <1>2, <1>8, <1>9, NewTable
<1>13. Undoes(Drop(x1), Create(x1), rest \cup Table("debriefs", req, opt, m0), rest
        \cup Table("debriefs", req, opt, m1), "none")
  BY <1>1, <1>2, <1>3, <1>11, Thing DEF m1
<1>14. Does(DropTable("debriefs"), rest \cup Table("debriefs", req, opt, m0), rest, "none")
  BY <1>1, <1>10, DropTableDoes DEF Unpointed
<1>15. Leads(<<Create(what), Create(x1)>>, rest, rest \cup Table("debriefs", req, opt, m1), "none")
  BY <1>12, <1>13, Leads2 DEF Undoes
<1>16. Leads(<<Drop(x1), DropTable("debriefs")>>, rest \cup Table("debriefs", req, opt, m1), rest,
        "none")
  BY <1>14, <1>13, Leads2 DEF Undoes
<1>17. rest \cup Table("debriefs", req, opt, m1) = rest \cup Debriefs6
  BY DEF Debriefs6, req, opt, m0, m1, x1
<1>18. rev_ba64d112828d = Script(<<Create(what), Create(x1)>>, <<Drop(x1), DropTable("debriefs")>>)
  BY DEF rev_ba64d112828d, DebriefsColumns, what, req, opt, m0, x1
<1>. QED
  BY <1>15, <1>16, <1>17, <1>18, TurnsAre

LEMMA Turns_a1b2c3d4e5f6 ==
    ASSUME NEW rest, NoneOf(rest, "vocabulary_entries"),
           Unpointed(rest, "vocabulary_entries"),
           <<"sessions", <<"id">>, "required">> \in rest,
           <<"users", <<"id">>, "required">> \in rest
    PROVE  Turns(rev_a1b2c3d4e5f6, rest, rest \cup Vocabulary11, "none", "none")
<1>. DEFINE req == VocabularyColumns
            opt == {"session_id"}
            m0 == Refers("vocabulary_entries", "user_id", "users")
              \cup RefersOrNull("vocabulary_entries", "session_id", "sessions")
              \cup Unique("vocabulary_entries", <<"user_id", "word">>)
            x1 == Index("vocabulary_entries", <<"user_id">>)
            m1 == m0 \cup x1
            what == Required("vocabulary_entries", VocabularyColumns)
              \cup Optional("vocabulary_entries", {"session_id"}) \cup Refers("vocabulary_entries",
              "user_id", "users") \cup RefersOrNull("vocabulary_entries", "session_id",
              "sessions") \cup Unique("vocabulary_entries", <<"user_id", "word">>)
<1>1. Extras(m0, "vocabulary_entries") /\ Extras(m1, "vocabulary_entries") /\ Extras(x1,
        "vocabulary_entries")
  BY ExtraKinds, ExtrasTogether
<1>2. Ordinary(m0) /\ Ordinary(x1)
  BY OrdinaryKinds, OrdinaryTogether
<1>3. m0 \cap x1 = {}
  BY DEF Refers, RefersOrNull, Unique, UniqueWhere, Index
<1>4. "user_id" \in req \cup opt
  BY DEF VocabularyColumns
<1>5. Standing(Refers("vocabulary_entries", "user_id", "users"), req \cup opt, rest)
  BY <1>4, KeyStands
<1>6. "session_id" \in req \cup opt
  BY DEF VocabularyColumns
<1>7. Standing(RefersOrNull("vocabulary_entries", "session_id", "sessions"), req \cup opt, rest)
  BY <1>6, KeyStands
<1>8. "user_id" \in req \cup opt /\ "word" \in req \cup opt
  BY DEF VocabularyColumns
<1>9. Standing(Unique("vocabulary_entries", <<"user_id", "word">>), req \cup opt, rest)
  BY <1>8, StandsOnTwo
<1>10. "user_id" \in req \cup opt
  BY DEF VocabularyColumns
<1>11. Standing(Index("vocabulary_entries", <<"user_id">>), req \cup opt, rest)
  BY <1>10, StandsOnOne
<1>12. Standing(m0, req \cup opt, rest)
  BY <1>5, <1>7, <1>9, StandingTogether
<1>13. what = Table("vocabulary_entries", req, opt, m0)
  BY NoColumns DEF Table
<1>14. req # {}
  BY DEF VocabularyColumns
<1>15. Standing(x1, req \cup opt, rest)
  BY <1>11
<1>. HIDE DEF req, opt, what, m0, m1, x1
<1>16. Does(Create(what), rest, rest \cup Table("vocabulary_entries", req, opt, m0), "none")
  BY <1>1, <1>2, <1>12, <1>13, NewTable
<1>17. Undoes(Drop(x1), Create(x1), rest \cup Table("vocabulary_entries", req, opt, m0), rest
        \cup Table("vocabulary_entries", req, opt, m1), "none")
  BY <1>1, <1>2, <1>3, <1>15, Thing DEF m1
<1>18. Does(DropTable("vocabulary_entries"), rest \cup Table("vocabulary_entries", req, opt, m0),
        rest, "none")
  BY <1>1, <1>14, DropTableDoes DEF Unpointed
<1>19. Leads(<<Create(what), Create(x1)>>, rest, rest \cup Table("vocabulary_entries", req, opt,
        m1), "none")
  BY <1>16, <1>17, Leads2 DEF Undoes
<1>20. Leads(<<Drop(x1), DropTable("vocabulary_entries")>>, rest \cup Table("vocabulary_entries",
        req, opt, m1), rest, "none")
  BY <1>18, <1>17, Leads2 DEF Undoes
<1>21. rest \cup Table("vocabulary_entries", req, opt, m1) = rest \cup Vocabulary11
  BY DEF Vocabulary11, req, opt, m0, m1, x1
<1>22. rev_a1b2c3d4e5f6 = Script(<<Create(what), Create(x1)>>,
        <<Drop(x1), DropTable("vocabulary_entries")>>)
  BY DEF rev_a1b2c3d4e5f6, VocabularyColumns, what, req, opt, m0, x1
<1>. QED
  BY <1>19, <1>20, <1>21, <1>22, TurnsAre

LEMMA Turns_b2c3d4e5f6a7 ==
    ASSUME NEW rest, NoneOf(rest, "review_items"),
           Unpointed(rest, "review_items"),
           <<"users", <<"id">>, "required">> \in rest
    PROVE  Turns(rev_b2c3d4e5f6a7, rest, rest \cup Reviews12, "none", "none")
<1>. DEFINE req == ReviewsColumns
            opt == {"next_review_at"}
            m0 == Refers("review_items", "user_id", "users") \cup Unique("review_items",
              <<"user_id", "error_type">>)
            x1 == Index("review_items", <<"user_id">>)
            m1 == m0 \cup x1
            what == Required("review_items", ReviewsColumns) \cup Optional("review_items",
              {"next_review_at"}) \cup Refers("review_items", "user_id", "users")
              \cup Unique("review_items", <<"user_id", "error_type">>)
<1>1. Extras(m0, "review_items") /\ Extras(m1, "review_items") /\ Extras(x1, "review_items")
  BY ExtraKinds, ExtrasTogether
<1>2. Ordinary(m0) /\ Ordinary(x1)
  BY OrdinaryKinds, OrdinaryTogether
<1>3. m0 \cap x1 = {}
  BY DEF Refers, RefersOrNull, Unique, UniqueWhere, Index
<1>4. "user_id" \in req \cup opt
  BY DEF ReviewsColumns
<1>5. Standing(Refers("review_items", "user_id", "users"), req \cup opt, rest)
  BY <1>4, KeyStands
<1>6. "user_id" \in req \cup opt /\ "error_type" \in req \cup opt
  BY DEF ReviewsColumns
<1>7. Standing(Unique("review_items", <<"user_id", "error_type">>), req \cup opt, rest)
  BY <1>6, StandsOnTwo
<1>8. "user_id" \in req \cup opt
  BY DEF ReviewsColumns
<1>9. Standing(Index("review_items", <<"user_id">>), req \cup opt, rest)
  BY <1>8, StandsOnOne
<1>10. Standing(m0, req \cup opt, rest)
  BY <1>5, <1>7, StandingTogether
<1>11. what = Table("review_items", req, opt, m0)
  BY NoColumns DEF Table
<1>12. req # {}
  BY DEF ReviewsColumns
<1>13. Standing(x1, req \cup opt, rest)
  BY <1>9
<1>. HIDE DEF req, opt, what, m0, m1, x1
<1>14. Does(Create(what), rest, rest \cup Table("review_items", req, opt, m0), "none")
  BY <1>1, <1>2, <1>10, <1>11, NewTable
<1>15. Undoes(Drop(x1), Create(x1), rest \cup Table("review_items", req, opt, m0), rest
        \cup Table("review_items", req, opt, m1), "none")
  BY <1>1, <1>2, <1>3, <1>13, Thing DEF m1
<1>16. Does(DropTable("review_items"), rest \cup Table("review_items", req, opt, m0), rest, "none")
  BY <1>1, <1>12, DropTableDoes DEF Unpointed
<1>17. Leads(<<Create(what), Create(x1)>>, rest, rest \cup Table("review_items", req, opt, m1), "none")
  BY <1>14, <1>15, Leads2 DEF Undoes
<1>18. Leads(<<Drop(x1), DropTable("review_items")>>, rest \cup Table("review_items", req, opt,
        m1), rest, "none")
  BY <1>16, <1>15, Leads2 DEF Undoes
<1>19. rest \cup Table("review_items", req, opt, m1) = rest \cup Reviews12
  BY DEF Reviews12, req, opt, m0, m1, x1
<1>20. rev_b2c3d4e5f6a7 = Script(<<Create(what), Create(x1)>>, <<Drop(x1), DropTable("review_items")>>)
  BY DEF rev_b2c3d4e5f6a7, ReviewsColumns, what, req, opt, m0, x1
<1>. QED
  BY <1>17, <1>18, <1>19, <1>20, TurnsAre

LEMMA Turns_d4e5f6a7b8c9 ==
    ASSUME NEW rest, NoneOf(rest, "voice_consents"),
           Unpointed(rest, "voice_consents"),
           <<"users", <<"id">>, "required">> \in rest
    PROVE  Turns(rev_d4e5f6a7b8c9, rest, rest \cup Consents14, "none", "none")
<1>. DEFINE req == ConsentsColumns
            opt == {}
            m0 == Refers("voice_consents", "user_id", "users") \cup Unique("voice_consents",
              <<"user_id">>)
            x1 == Index("voice_consents", <<"user_id">>)
            m1 == m0 \cup x1
            what == Required("voice_consents", ConsentsColumns) \cup Refers("voice_consents",
              "user_id", "users") \cup Unique("voice_consents", <<"user_id">>)
<1>1. Extras(m0, "voice_consents") /\ Extras(m1, "voice_consents") /\ Extras(x1, "voice_consents")
  BY ExtraKinds, ExtrasTogether
<1>2. Ordinary(m0) /\ Ordinary(x1)
  BY OrdinaryKinds, OrdinaryTogether
<1>3. m0 \cap x1 = {}
  BY DEF Refers, RefersOrNull, Unique, UniqueWhere, Index
<1>4. "user_id" \in req \cup opt
  BY DEF ConsentsColumns
<1>5. Standing(Refers("voice_consents", "user_id", "users"), req \cup opt, rest)
  BY <1>4, KeyStands
<1>6. "user_id" \in req \cup opt
  BY DEF ConsentsColumns
<1>7. Standing(Unique("voice_consents", <<"user_id">>), req \cup opt, rest)
  BY <1>6, StandsOnOne
<1>8. "user_id" \in req \cup opt
  BY DEF ConsentsColumns
<1>9. Standing(Index("voice_consents", <<"user_id">>), req \cup opt, rest)
  BY <1>8, StandsOnOne
<1>10. Standing(m0, req \cup opt, rest)
  BY <1>5, <1>7, StandingTogether
<1>11. what = Table("voice_consents", req, opt, m0)
  BY NoColumns DEF Table
<1>12. req # {}
  BY DEF ConsentsColumns
<1>13. Standing(x1, req \cup opt, rest)
  BY <1>9
<1>. HIDE DEF req, opt, what, m0, m1, x1
<1>14. Does(Create(what), rest, rest \cup Table("voice_consents", req, opt, m0), "none")
  BY <1>1, <1>2, <1>10, <1>11, NewTable
<1>15. Undoes(Drop(x1), Create(x1), rest \cup Table("voice_consents", req, opt, m0), rest
        \cup Table("voice_consents", req, opt, m1), "none")
  BY <1>1, <1>2, <1>3, <1>13, Thing DEF m1
<1>16. Does(DropTable("voice_consents"), rest \cup Table("voice_consents", req, opt, m0), rest, "none")
  BY <1>1, <1>12, DropTableDoes DEF Unpointed
<1>17. Leads(<<Create(what), Create(x1)>>, rest, rest \cup Table("voice_consents", req, opt, m1),
        "none")
  BY <1>14, <1>15, Leads2 DEF Undoes
<1>18. Leads(<<Drop(x1), DropTable("voice_consents")>>, rest \cup Table("voice_consents", req, opt,
        m1), rest, "none")
  BY <1>16, <1>15, Leads2 DEF Undoes
<1>19. rest \cup Table("voice_consents", req, opt, m1) = rest \cup Consents14
  BY DEF Consents14, req, opt, m0, m1, x1
<1>20. rev_d4e5f6a7b8c9 = Script(<<Create(what), Create(x1)>>,
        <<Drop(x1), DropTable("voice_consents")>>)
  BY DEF rev_d4e5f6a7b8c9, ConsentsColumns, what, req, opt, m0, x1
<1>. QED
  BY <1>17, <1>18, <1>19, <1>20, TurnsAre

LEMMA Turns_e5f6a7b8c9d0 ==
    ASSUME NEW rest, NoneOf(rest, "idempotency_keys"),
           Unpointed(rest, "idempotency_keys"),
           <<"users", <<"id">>, "required">> \in rest
    PROVE  Turns(rev_e5f6a7b8c9d0, rest, rest \cup Keys15, "none", "none")
<1>. DEFINE req == KeysColumns
            opt == {}
            m0 == Refers("idempotency_keys", "user_id", "users") \cup Unique("idempotency_keys",
              <<"user_id", "key">>)
            x1 == Index("idempotency_keys", <<"user_id">>)
            m1 == m0 \cup x1
            what == Required("idempotency_keys", KeysColumns) \cup Refers("idempotency_keys",
              "user_id", "users") \cup Unique("idempotency_keys", <<"user_id", "key">>)
<1>1. Extras(m0, "idempotency_keys") /\ Extras(m1, "idempotency_keys") /\ Extras(x1, "idempotency_keys")
  BY ExtraKinds, ExtrasTogether
<1>2. Ordinary(m0) /\ Ordinary(x1)
  BY OrdinaryKinds, OrdinaryTogether
<1>3. m0 \cap x1 = {}
  BY DEF Refers, RefersOrNull, Unique, UniqueWhere, Index
<1>4. "user_id" \in req \cup opt
  BY DEF KeysColumns
<1>5. Standing(Refers("idempotency_keys", "user_id", "users"), req \cup opt, rest)
  BY <1>4, KeyStands
<1>6. "user_id" \in req \cup opt /\ "key" \in req \cup opt
  BY DEF KeysColumns
<1>7. Standing(Unique("idempotency_keys", <<"user_id", "key">>), req \cup opt, rest)
  BY <1>6, StandsOnTwo
<1>8. "user_id" \in req \cup opt
  BY DEF KeysColumns
<1>9. Standing(Index("idempotency_keys", <<"user_id">>), req \cup opt, rest)
  BY <1>8, StandsOnOne
<1>10. Standing(m0, req \cup opt, rest)
  BY <1>5, <1>7, StandingTogether
<1>11. what = Table("idempotency_keys", req, opt, m0)
  BY NoColumns DEF Table
<1>12. req # {}
  BY DEF KeysColumns
<1>13. Standing(x1, req \cup opt, rest)
  BY <1>9
<1>. HIDE DEF req, opt, what, m0, m1, x1
<1>14. Does(Create(what), rest, rest \cup Table("idempotency_keys", req, opt, m0), "none")
  BY <1>1, <1>2, <1>10, <1>11, NewTable
<1>15. Undoes(Drop(x1), Create(x1), rest \cup Table("idempotency_keys", req, opt, m0), rest
        \cup Table("idempotency_keys", req, opt, m1), "none")
  BY <1>1, <1>2, <1>3, <1>13, Thing DEF m1
<1>16. Does(DropTable("idempotency_keys"), rest \cup Table("idempotency_keys", req, opt, m0), rest,
        "none")
  BY <1>1, <1>12, DropTableDoes DEF Unpointed
<1>17. Leads(<<Create(what), Create(x1)>>, rest, rest \cup Table("idempotency_keys", req, opt, m1),
        "none")
  BY <1>14, <1>15, Leads2 DEF Undoes
<1>18. Leads(<<Drop(x1), DropTable("idempotency_keys")>>, rest \cup Table("idempotency_keys", req,
        opt, m1), rest, "none")
  BY <1>16, <1>15, Leads2 DEF Undoes
<1>19. rest \cup Table("idempotency_keys", req, opt, m1) = rest \cup Keys15
  BY DEF Keys15, req, opt, m0, m1, x1
<1>20. rev_e5f6a7b8c9d0 = Script(<<Create(what), Create(x1)>>,
        <<Drop(x1), DropTable("idempotency_keys")>>)
  BY DEF rev_e5f6a7b8c9d0, KeysColumns, what, req, opt, m0, x1
<1>. QED
  BY <1>17, <1>18, <1>19, <1>20, TurnsAre

LEMMA Turns_f6a7b8c9d0e1 ==
    ASSUME NEW rest, NoneOf(rest, "analytics_events"),
           Unpointed(rest, "analytics_events"),
           <<"users", <<"id">>, "required">> \in rest
    PROVE  Turns(rev_f6a7b8c9d0e1, rest, rest \cup Events16, "none", "none")
<1>. DEFINE req == EventsColumns
            opt == {}
            m0 == Refers("analytics_events", "user_id", "users")
            x1 == Index("analytics_events", <<"name">>)
            m1 == m0 \cup x1
            x2 == Index("analytics_events", <<"user_id">>)
            m2 == m1 \cup x2
            x3 == Index("analytics_events", <<"created_at">>)
            m3 == m2 \cup x3
            what == Required("analytics_events", EventsColumns) \cup Refers("analytics_events",
              "user_id", "users")
<1>1. Extras(m0, "analytics_events") /\ Extras(m1, "analytics_events") /\ Extras(m2,
        "analytics_events") /\ Extras(m3, "analytics_events") /\ Extras(x1, "analytics_events")
        /\ Extras(x2, "analytics_events") /\ Extras(x3, "analytics_events")
  BY ExtraKinds, ExtrasTogether
<1>2. Ordinary(m0) /\ Ordinary(x1) /\ Ordinary(x2) /\ Ordinary(x3)
  BY OrdinaryKinds, OrdinaryTogether
<1>3. m0 \cap x1 = {} /\ m1 \cap x2 = {} /\ m2 \cap x3 = {}
  BY DEF Refers, RefersOrNull, Unique, UniqueWhere, Index
<1>4. "user_id" \in req \cup opt
  BY DEF EventsColumns
<1>5. Standing(Refers("analytics_events", "user_id", "users"), req \cup opt, rest)
  BY <1>4, KeyStands
<1>6. "name" \in req \cup opt
  BY DEF EventsColumns
<1>7. Standing(Index("analytics_events", <<"name">>), req \cup opt, rest)
  BY <1>6, StandsOnOne
<1>8. "user_id" \in req \cup opt
  BY DEF EventsColumns
<1>9. Standing(Index("analytics_events", <<"user_id">>), req \cup opt, rest)
  BY <1>8, StandsOnOne
<1>10. "created_at" \in req \cup opt
  BY DEF EventsColumns
<1>11. Standing(Index("analytics_events", <<"created_at">>), req \cup opt, rest)
  BY <1>10, StandsOnOne
<1>12. Standing(m0, req \cup opt, rest)
  BY <1>5, StandingTogether
<1>13. what = Table("analytics_events", req, opt, m0)
  BY NoColumns DEF Table
<1>14. req # {}
  BY DEF EventsColumns
<1>15. Standing(x1, req \cup opt, rest) /\ Standing(x2, req \cup opt, rest) /\ Standing(x3,
        req \cup opt, rest)
  BY <1>7, <1>9, <1>11
<1>. HIDE DEF req, opt, what, m0, m1, m2, m3, x1, x2, x3
<1>16. Does(Create(what), rest, rest \cup Table("analytics_events", req, opt, m0), "none")
  BY <1>1, <1>2, <1>12, <1>13, NewTable
<1>17. Undoes(Drop(x1), Create(x1), rest \cup Table("analytics_events", req, opt, m0), rest
        \cup Table("analytics_events", req, opt, m1), "none")
  BY <1>1, <1>2, <1>3, <1>15, Thing DEF m1
<1>18. Undoes(Drop(x2), Create(x2), rest \cup Table("analytics_events", req, opt, m1), rest
        \cup Table("analytics_events", req, opt, m2), "none")
  BY <1>1, <1>2, <1>3, <1>15, Thing DEF m2
<1>19. Undoes(Drop(x3), Create(x3), rest \cup Table("analytics_events", req, opt, m2), rest
        \cup Table("analytics_events", req, opt, m3), "none")
  BY <1>1, <1>2, <1>3, <1>15, Thing DEF m3
<1>20. Does(DropTable("analytics_events"), rest \cup Table("analytics_events", req, opt, m0), rest,
        "none")
  BY <1>1, <1>14, DropTableDoes DEF Unpointed
<1>21. Leads(<<Create(what), Create(x1), Create(x2), Create(x3)>>, rest, rest
        \cup Table("analytics_events", req, opt, m3), "none")
  BY <1>16, <1>17, <1>18, <1>19, Leads4 DEF Undoes
<1>22. Leads(<<Drop(x3), Drop(x2), Drop(x1), DropTable("analytics_events")>>, rest
        \cup Table("analytics_events", req, opt, m3), rest, "none")
  BY <1>20, <1>17, <1>18, <1>19, Leads4 DEF Undoes
<1>23. rest \cup Table("analytics_events", req, opt, m3) = rest \cup Events16
  BY DEF Events16, req, opt, m0, m1, m2, m3, x1, x2, x3
<1>24. rev_f6a7b8c9d0e1 = Script(<<Create(what), Create(x1), Create(x2), Create(x3)>>,
        <<Drop(x3), Drop(x2), Drop(x1), DropTable("analytics_events")>>)
  BY DEF rev_f6a7b8c9d0e1, EventsColumns, what, req, opt, m0, x1, x2, x3
<1>. QED
  BY <1>21, <1>22, <1>23, <1>24, TurnsAre

LEMMA Turns_f3a4b2c1d0e9 ==
    ASSUME NEW rest, NoneOf(rest, "learner_profiles")
    PROVE  Turns(rev_f3a4b2c1d0e9, rest \cup Profiles2, rest \cup Profiles7, "none", "none")
<1>. DEFINE r0 == ProfilesColumns
            o0 == {"goal"}
            m0 == Refers("learner_profiles", "user_id", "users")
            r1 == r0 \cup {"memory_summary"}
<1>1. Extras(m0, "learner_profiles")
  BY ExtraKinds, ExtrasTogether DEF EmailLower
<1>2. "memory_summary" \notin r0 /\ "memory_summary" \notin o0
  BY DEF ProfilesColumns
<1>3. Free(Refers("learner_profiles", "user_id", "users"), "memory_summary")
  BY FreeOfKey
<1>4. Free(m0, "memory_summary")
  BY <1>3, FreeTogether
<1>. HIDE DEF r0, o0, m0, r1
<1>5. Undoes(DropColumn("learner_profiles", "memory_summary"), Create(Required("learner_profiles",
        {"memory_summary"})), rest \cup Table("learner_profiles", r0, o0, m0), rest
        \cup Table("learner_profiles", r1, o0, m0), "none")
  BY <1>1, <1>2, <1>4, RequiredColumn DEF r1
<1>6. Leads(<<Create(Required("learner_profiles", {"memory_summary"}))>>, rest
        \cup Table("learner_profiles", r0, o0, m0), rest \cup Table("learner_profiles", r1, o0,
        m0), "none")
  BY <1>5, Leads1 DEF Undoes
<1>7. Leads(<<DropColumn("learner_profiles", "memory_summary")>>, rest
        \cup Table("learner_profiles", r1, o0, m0), rest \cup Table("learner_profiles", r0, o0,
        m0), "none")
  BY <1>5, Leads1 DEF Undoes
<1>8. rest \cup Table("learner_profiles", r0, o0, m0) = rest \cup Profiles2
  BY DEF Profiles2, r0, o0, m0
<1>9. rest \cup Table("learner_profiles", r1, o0, m0) = rest \cup Profiles7
  BY DEF Profiles7, r0, o0, m0, r1
<1>10. rev_f3a4b2c1d0e9 = Script(<<Create(Required("learner_profiles", {"memory_summary"}))>>,
        <<DropColumn("learner_profiles", "memory_summary")>>)
  BY DEF rev_f3a4b2c1d0e9
<1>. QED
  BY <1>6, <1>7, <1>8, <1>9, <1>10, TurnsAre

LEMMA Turns_02cf10ba6ab7 ==
    ASSUME NEW rest, NoneOf(rest, "users")
    PROVE  Turns(rev_02cf10ba6ab7, rest \cup Users1, rest \cup Users9, "none", "none")
<1>. DEFINE r0 == UsersColumns
            o0 == {"quota_date"}
            m0 == Unique("users", <<"email">>)
            r1 == r0 \cup {"is_admin"}
<1>1. Extras(m0, "users")
  BY ExtraKinds, ExtrasTogether DEF EmailLower
<1>2. "is_admin" \notin r0 /\ "is_admin" \notin o0
  BY DEF UsersColumns
<1>3. Free(Unique("users", <<"email">>), "is_admin")
  BY FreeOfOne
<1>4. Free(m0, "is_admin")
  BY <1>3, FreeTogether
<1>. HIDE DEF r0, o0, m0, r1
<1>5. Undoes(DropColumn("users", "is_admin"), Create(Required("users", {"is_admin"})), rest
        \cup Table("users", r0, o0, m0), rest \cup Table("users", r1, o0, m0), "none")
  BY <1>1, <1>2, <1>4, RequiredColumn DEF r1
<1>6. Leads(<<Create(Required("users", {"is_admin"}))>>, rest \cup Table("users", r0, o0, m0),
        rest \cup Table("users", r1, o0, m0), "none")
  BY <1>5, Leads1 DEF Undoes
<1>7. Leads(<<DropColumn("users", "is_admin")>>, rest \cup Table("users", r1, o0, m0), rest
        \cup Table("users", r0, o0, m0), "none")
  BY <1>5, Leads1 DEF Undoes
<1>8. rest \cup Table("users", r0, o0, m0) = rest \cup Users1
  BY DEF Users1, r0, o0, m0
<1>9. rest \cup Table("users", r1, o0, m0) = rest \cup Users9
  BY DEF Users9, r0, o0, m0, r1
<1>10. rev_02cf10ba6ab7 = Script(<<Create(Required("users", {"is_admin"}))>>,
        <<DropColumn("users", "is_admin")>>)
  BY DEF rev_02cf10ba6ab7
<1>. QED
  BY <1>6, <1>7, <1>8, <1>9, <1>10, TurnsAre

LEMMA Turns_fc233850563a ==
    ASSUME NEW rest, NoneOf(rest, "sessions")
    PROVE  Turns(rev_fc233850563a, rest \cup Sessions8, rest \cup Sessions10, "none", "none")
<1>. DEFINE r0 == SessionsColumns
            o0 == {"scenario_id", "ended_at", "duration_minutes"} \cup {"mission_id"}
            m0 == Refers("sessions", "user_id", "users") \cup Unique("sessions",
              <<"room_name">>) \cup Index("sessions", <<"user_id">>) \cup Index("sessions",
              <<"mission_id">>) \cup RefersOrNull("sessions", "mission_id", "missions")
            r1 == r0 \cup {"last_activity_at"}
<1>1. Extras(m0, "sessions")
  BY ExtraKinds, ExtrasTogether DEF EmailLower
<1>2. "last_activity_at" \notin r0 /\ "last_activity_at" \notin o0
  BY DEF SessionsColumns
<1>3. Free(Refers("sessions", "user_id", "users"), "last_activity_at")
  BY FreeOfKey
<1>4. Free(Unique("sessions", <<"room_name">>), "last_activity_at")
  BY FreeOfOne
<1>5. Free(Index("sessions", <<"user_id">>), "last_activity_at")
  BY FreeOfOne
<1>6. Free(Index("sessions", <<"mission_id">>), "last_activity_at")
  BY FreeOfOne
<1>7. Free(RefersOrNull("sessions", "mission_id", "missions"), "last_activity_at")
  BY FreeOfKey
<1>8. Free(m0, "last_activity_at")
  BY <1>3, <1>4, <1>5, <1>6, <1>7, FreeTogether
<1>. HIDE DEF r0, o0, m0, r1
<1>9. Undoes(DropColumn("sessions", "last_activity_at"), Create(Required("sessions",
        {"last_activity_at"})), rest \cup Table("sessions", r0, o0, m0), rest
        \cup Table("sessions", r1, o0, m0), "none")
  BY <1>1, <1>2, <1>8, RequiredColumn DEF r1
<1>10. Leads(<<Create(Required("sessions", {"last_activity_at"}))>>, rest \cup Table("sessions",
        r0, o0, m0), rest \cup Table("sessions", r1, o0, m0), "none")
  BY <1>9, Leads1 DEF Undoes
<1>11. Leads(<<DropColumn("sessions", "last_activity_at")>>, rest \cup Table("sessions", r1, o0,
        m0), rest \cup Table("sessions", r0, o0, m0), "none")
  BY <1>9, Leads1 DEF Undoes
<1>12. rest \cup Table("sessions", r0, o0, m0) = rest \cup Sessions8
  BY DEF Sessions8, r0, o0, m0
<1>13. rest \cup Table("sessions", r1, o0, m0) = rest \cup Sessions10
  BY DEF Sessions10, r0, o0, m0, r1
<1>14. rev_fc233850563a = Script(<<Create(Required("sessions", {"last_activity_at"}))>>,
        <<DropColumn("sessions", "last_activity_at")>>)
  BY DEF rev_fc233850563a
<1>. QED
  BY <1>10, <1>11, <1>12, <1>13, <1>14, TurnsAre

LEMMA Turns_c3d4e5f6a7b8 ==
    ASSUME NEW rest, NoneOf(rest, "users")
    PROVE  Turns(rev_c3d4e5f6a7b8, rest \cup Users9, rest \cup Users13, "none", "none")
<1>. DEFINE r0 == UsersColumns \cup {"is_admin"}
            o0 == {"quota_date"}
            m0 == Unique("users", <<"email">>)
            r1 == r0 \cup {"current_streak"}
            r2 == r1 \cup {"longest_streak"}
            o1 == o0 \cup {"last_active_date"}
            r3 == r2 \cup {"weekly_goal_minutes"}
<1>1. Extras(m0, "users")
  BY ExtraKinds, ExtrasTogether DEF EmailLower
<1>2. "current_streak" \notin r0 /\ "current_streak" \notin o0
  BY DEF UsersColumns
<1>3. Free(Unique("users", <<"email">>), "current_streak")
  BY FreeOfOne
<1>4. Free(m0, "current_streak")
  BY <1>3, FreeTogether
<1>5. "longest_streak" \notin r1 /\ "longest_streak" \notin o0
  BY DEF UsersColumns
<1>6. Free(Unique("users", <<"email">>), "longest_streak")
  BY FreeOfOne
<1>7. Free(m0, "longest_streak")
  BY <1>6, FreeTogether
<1>8. "last_active_date" \notin r2 /\ "last_active_date" \notin o0
  BY DEF UsersColumns
<1>9. Free(Unique("users", <<"email">>), "last_active_date")
  BY FreeOfOne
<1>10. Free(m0, "last_active_date")
  BY <1>9, FreeTogether
<1>11. "weekly_goal_minutes" \notin r2 /\ "weekly_goal_minutes" \notin o1
  BY DEF UsersColumns
<1>12. Free(Unique("users", <<"email">>), "weekly_goal_minutes")
  BY FreeOfOne
<1>13. Free(m0, "weekly_goal_minutes")
  BY <1>12, FreeTogether
<1>. HIDE DEF r0, o0, m0, r1, r2, o1, r3
<1>14. Undoes(DropColumn("users", "current_streak"), Create(Required("users", {"current_streak"})),
        rest \cup Table("users", r0, o0, m0), rest \cup Table("users", r1, o0, m0), "none")
  BY <1>1, <1>2, <1>4, RequiredColumn DEF r1
<1>15. Undoes(DropColumn("users", "longest_streak"), Create(Required("users", {"longest_streak"})),
        rest \cup Table("users", r1, o0, m0), rest \cup Table("users", r2, o0, m0), "none")
  BY <1>1, <1>5, <1>7, RequiredColumn DEF r2
<1>16. Undoes(DropColumn("users", "last_active_date"), Create(Optional("users",
        {"last_active_date"})), rest \cup Table("users", r2, o0, m0), rest \cup Table("users", r2,
        o1, m0), "none")
  BY <1>1, <1>8, <1>10, OptionalColumn DEF o1
<1>17. Undoes(DropColumn("users", "weekly_goal_minutes"), Create(Required("users",
        {"weekly_goal_minutes"})), rest \cup Table("users", r2, o1, m0), rest \cup Table("users",
        r3, o1, m0), "none")
  BY <1>1, <1>11, <1>13, RequiredColumn DEF r3
<1>18. Leads(<<Create(Required("users", {"current_streak"})), Create(Required("users",
        {"longest_streak"})), Create(Optional("users", {"last_active_date"})),
        Create(Required("users",
        {"weekly_goal_minutes"}))>>, rest \cup Table("users", r0, o0, m0), rest \cup Table("users",
        r3, o1, m0), "none")
  BY <1>14, <1>15, <1>16, <1>17, Leads4 DEF Undoes
<1>19. Leads(<<DropColumn("users", "weekly_goal_minutes"), DropColumn("users", "last_active_date"),
        DropColumn("users", "longest_streak"), DropColumn("users",
        "current_streak")>>, rest \cup Table("users", r3, o1, m0), rest \cup Table("users", r0, o0,
        m0), "none")
  BY <1>14, <1>15, <1>16, <1>17, Leads4 DEF Undoes
<1>20. rest \cup Table("users", r0, o0, m0) = rest \cup Users9
  BY DEF Users9, r0, o0, m0
<1>21. rest \cup Table("users", r3, o1, m0) = rest \cup Users13
  BY DEF Users13, r0, o0, m0, r1, r2, o1, r3
<1>22. rev_c3d4e5f6a7b8 = Script(<<Create(Required("users", {"current_streak"})),
        Create(Required("users", {"longest_streak"})), Create(Optional("users",
        {"last_active_date"})), Create(Required("users",
        {"weekly_goal_minutes"}))>>, <<DropColumn("users", "weekly_goal_minutes"),
        DropColumn("users", "last_active_date"), DropColumn("users", "longest_streak"),
        DropColumn("users", "current_streak")>>)
  BY DEF rev_c3d4e5f6a7b8
<1>. QED
  BY <1>18, <1>19, <1>20, <1>21, <1>22, TurnsAre

LEMMA Turns_d2e3f4a5b6c7 ==
    ASSUME NEW rest, NoneOf(rest, "users")
    PROVE  Turns(rev_d2e3f4a5b6c7, rest \cup Users19, rest \cup Users20, "none", "none")
<1>. DEFINE r0 == UsersColumns \cup {"is_admin"} \cup {"current_streak"}
        \cup {"longest_streak"} \cup {"weekly_goal_minutes"}
            o0 == {"quota_date"} \cup {"last_active_date"}
            m0 == Unique("users", <<"email">>) \cup EmailLower
            r1 == r0 \cup {"is_active"}
<1>1. Extras(m0, "users")
  BY ExtraKinds, ExtrasTogether DEF EmailLower
<1>2. "is_active" \notin r0 /\ "is_active" \notin o0
  BY DEF UsersColumns
<1>3. Free(Unique("users", <<"email">>), "is_active")
  BY FreeOfOne
<1>4. Free(EmailLower, "is_active")
  BY FreeOfOne DEF EmailLower
<1>5. Free(m0, "is_active")
  BY <1>3, <1>4, FreeTogether
<1>. HIDE DEF r0, o0, m0, r1
<1>6. Undoes(DropColumn("users", "is_active"), Create(Required("users", {"is_active"})), rest
        \cup Table("users", r0, o0, m0), rest \cup Table("users", r1, o0, m0), "none")
  BY <1>1, <1>2, <1>5, RequiredColumn DEF r1
<1>7. Leads(<<Create(Required("users", {"is_active"}))>>, rest \cup Table("users", r0, o0, m0),
        rest \cup Table("users", r1, o0, m0), "none")
  BY <1>6, Leads1 DEF Undoes
<1>8. Leads(<<DropColumn("users", "is_active")>>, rest \cup Table("users", r1, o0, m0), rest
        \cup Table("users", r0, o0, m0), "none")
  BY <1>6, Leads1 DEF Undoes
<1>9. rest \cup Table("users", r0, o0, m0) = rest \cup Users19
  BY DEF Users19, r0, o0, m0
<1>10. rest \cup Table("users", r1, o0, m0) = rest \cup Users20
  BY DEF Users20, r0, o0, m0, r1
<1>11. rev_d2e3f4a5b6c7 = Script(<<Create(Required("users", {"is_active"}))>>,
        <<DropColumn("users", "is_active")>>)
  BY DEF rev_d2e3f4a5b6c7
<1>. QED
  BY <1>7, <1>8, <1>9, <1>10, <1>11, TurnsAre

LEMMA Turns_b9ee2fa53721 ==
    ASSUME NEW rest, NoneOf(rest, "vocabulary_entries")
    PROVE  Turns(rev_b9ee2fa53721, rest \cup Vocabulary11, rest \cup Vocabulary24, "none", "none")
<1>. DEFINE r0 == VocabularyColumns
            o0 == {"session_id"}
            m0 == Refers("vocabulary_entries", "user_id", "users")
              \cup RefersOrNull("vocabulary_entries", "session_id", "sessions")
              \cup Unique("vocabulary_entries", <<"user_id", "word">>)
              \cup Index("vocabulary_entries", <<"user_id">>)
            x1 == Index("vocabulary_entries", <<"session_id">>)
            m1 == m0 \cup x1
<1>1. Extras(m0, "vocabulary_entries") /\ Extras(m1, "vocabulary_entries") /\ Extras(x1,
        "vocabulary_entries")
  BY ExtraKinds, ExtrasTogether DEF EmailLower
<1>2. m0 \cap x1 = {}
  BY DEF Refers, RefersOrNull, Unique, UniqueWhere, Index, EmailLower
<1>3. Ordinary(x1)
  BY OrdinaryKinds
<1>4. "session_id" \in r0 \cup o0
  BY DEF VocabularyColumns
<1>5. Standing(x1, r0 \cup o0, rest)
  BY <1>4, StandsOnOne
<1>. HIDE DEF r0, o0, m0, x1, m1
<1>6. Undoes(Drop(x1), Create(x1), rest \cup Table("vocabulary_entries", r0, o0, m0), rest
        \cup Table("vocabulary_entries", r0, o0, m1), "none")
  BY <1>1, <1>5, <1>2, <1>3, Thing DEF m1
<1>7. Leads(<<Create(x1)>>, rest \cup Table("vocabulary_entries", r0, o0, m0), rest
        \cup Table("vocabulary_entries", r0, o0, m1), "none")
  BY <1>6, Leads1 DEF Undoes
<1>8. Leads(<<Drop(x1)>>, rest \cup Table("vocabulary_entries", r0, o0, m1), rest
        \cup Table("vocabulary_entries", r0, o0, m0), "none")
  BY <1>6, Leads1 DEF Undoes
<1>9. rest \cup Table("vocabulary_entries", r0, o0, m0) = rest \cup Vocabulary11
  BY DEF Vocabulary11, r0, o0, m0
<1>10. rest \cup Table("vocabulary_entries", r0, o0, m1) = rest \cup Vocabulary24
  BY DEF Vocabulary24, r0, o0, m0, x1, m1
<1>11. rev_b9ee2fa53721 = Script(<<Create(x1)>>, <<Drop(x1)>>)
  BY DEF rev_b9ee2fa53721, x1
<1>. QED
  BY <1>7, <1>8, <1>9, <1>10, <1>11, TurnsAre

LEMMA Turns_b5c6d7e8f9a0 ==
    ASSUME NEW rest, NoneOf(rest, "users")
    PROVE  Turns(rev_b5c6d7e8f9a0, rest \cup Users20, rest \cup Users27, "none", "none")
<1>. DEFINE r0 == UsersColumns \cup {"is_admin"} \cup {"current_streak"}
        \cup {"longest_streak"} \cup {"weekly_goal_minutes"} \cup {"is_active"}
            o0 == {"quota_date"} \cup {"last_active_date"}
            m0 == Unique("users", <<"email">>) \cup EmailLower
            o1 == o0 \cup {"reset_token_hash"}
            o2 == o1 \cup {"reset_token_expires_at"}
            x1 == Unique("users", <<"reset_token_hash">>)
            m1 == m0 \cup x1
<1>1. Extras(m0, "users") /\ Extras(m1, "users") /\ Extras(x1, "users")
  BY ExtraKinds, ExtrasTogether DEF EmailLower
<1>2. m0 \cap x1 = {}
  BY DEF Refers, RefersOrNull, Unique, UniqueWhere, Index, EmailLower
<1>3. Ordinary(x1)
  BY OrdinaryKinds
<1>4. "reset_token_hash" \notin r0 /\ "reset_token_hash" \notin o0
  BY DEF UsersColumns
<1>5. Free(Unique("users", <<"email">>), "reset_token_hash")
  BY FreeOfOne
<1>6. Free(EmailLower, "reset_token_hash")
  BY FreeOfOne DEF EmailLower
<1>7. Free(m0, "reset_token_hash")
  BY <1>5, <1>6, FreeTogether
<1>8. "reset_token_expires_at" \notin r0 /\ "reset_token_expires_at" \notin o1
  BY DEF UsersColumns
<1>9. Free(Unique("users", <<"email">>), "reset_token_expires_at")
  BY FreeOfOne
<1>10. Free(EmailLower, "reset_token_expires_at")
  BY FreeOfOne DEF EmailLower
<1>11. Free(m0, "reset_token_expires_at")
  BY <1>9, <1>10, FreeTogether
<1>12. "reset_token_hash" \in r0 \cup o2
  BY DEF UsersColumns
<1>13. Standing(x1, r0 \cup o2, rest)
  BY <1>12, StandsOnOne
<1>. HIDE DEF r0, o0, m0, o1, o2, x1, m1
<1>14. Undoes(DropColumn("users", "reset_token_hash"), Create(Optional("users",
        {"reset_token_hash"})), rest \cup Table("users", r0, o0, m0), rest \cup Table("users", r0,
        o1, m0), "none")
  BY <1>1, <1>4, <1>7, OptionalColumn DEF o1
<1>15. Undoes(DropColumn("users", "reset_token_expires_at"), Create(Optional("users",
        {"reset_token_expires_at"})), rest \cup Table("users", r0, o1, m0), rest
        \cup Table("users", r0, o2, m0), "none")
  BY <1>1, <1>8, <1>11, OptionalColumn DEF o2
<1>16. Undoes(Drop(x1), Create(x1), rest \cup Table("users", r0, o2, m0), rest \cup Table("users",
        r0, o2, m1), "none")
  BY <1>1, <1>13, <1>2, <1>3, Thing DEF m1
<1>17. Leads(<<Create(Optional("users", {"reset_token_hash"})), Create(Optional("users",
        {"reset_token_expires_at"})),
        Create(x1)>>, rest \cup Table("users", r0, o0, m0), rest \cup Table("users", r0, o2, m1),
        "none")
  BY <1>14, <1>15, <1>16, Leads3 DEF Undoes
<1>18. Leads(<<Drop(x1), DropColumn("users", "reset_token_expires_at"), DropColumn("users",
        "reset_token_hash")>>, rest \cup Table("users", r0, o2, m1), rest \cup Table("users", r0,
        o0, m0), "none")
  BY <1>14, <1>15, <1>16, Leads3 DEF Undoes
<1>19. rest \cup Table("users", r0, o0, m0) = rest \cup Users20
  BY DEF Users20, r0, o0, m0
<1>20. rest \cup Table("users", r0, o2, m1) = rest \cup Users27
  BY DEF Users27, r0, o0, m0, o1, o2, x1, m1
<1>21. rev_b5c6d7e8f9a0 = Script(<<Create(Optional("users", {"reset_token_hash"})),
        Create(Optional("users", {"reset_token_expires_at"})), Create(x1)>>, <<Drop(x1),
        DropColumn("users", "reset_token_expires_at"), DropColumn("users", "reset_token_hash")>>)
  BY DEF rev_b5c6d7e8f9a0, x1
<1>. QED
  BY <1>17, <1>18, <1>19, <1>20, <1>21, TurnsAre

LEMMA OneColumn ==
    ASSUME NEW c, NEW columns, c \in columns
    PROVE  \A i \in DOMAIN <<c>> : <<c>>[i] \in columns
  OBVIOUS

\* A partial index that fits a table, and may be dropped again.
LEMMA Partial ==
    ASSUME NEW t, NEW rest, NoneOf(rest, t), NEW req, NEW opt, NEW more, Extras(more, t),
           NEW c \in req, NEW k \in {"unique while open", "unique activation", "unique lower"},
           NEW x, x = <<t, <<c>>, k>>, x \notin more, NEW need
    PROVE  /\ Fits(x, rest \cup Table(t, req, opt, more), rest \cup Table(t, req, opt, more \cup {x}))
           /\ Does(Drop({x}), rest \cup Table(t, req, opt, more \cup {x}), rest \cup Table(t, req,
                opt, more), need)
<1>1. x[1] = t /\ x[2] = <<c>> /\ x[3] = k
  OBVIOUS
<1>2. ~IsColumn(x) /\ ~IsForeignKey(x)
  BY <1>1 DEF IsColumn, IsForeignKey
<1>3. StandsIn(x, req \cup opt, rest)
  <2>. DEFINE columns == <<c>>
  <2>0. \A i \in DOMAIN columns : columns[i] \in req \cup opt
    BY OneColumn
  <2>2. x[2] = columns
    BY <1>1
  <2>. HIDE DEF columns
  <2>1. \A i \in DOMAIN x[2] : x[2][i] \in req \cup opt
    BY <2>0, <2>2
  <2>. QED
    BY <1>2, <2>1 DEF StandsIn
<1>4. Fits(x, rest \cup Table(t, req, opt, more), rest \cup Table(t, req, opt, more \cup {x}))
  BY <1>1, <1>2, <1>3, FitsWhereItStands
<1>. DEFINE wide == more \cup {x}
            what == {x}
<1>5. Extras(wide, t) /\ what \in SUBSET wide /\ wide \ what = more
  BY <1>1, <1>2 DEF Extras
<1>. HIDE DEF wide, what
<1>6. Does(Drop(what), rest \cup Table(t, req, opt, wide), rest \cup Table(t, req, opt,
        wide \ what), need)
  BY <1>5, DropDoes
<1>7. Does(Drop({x}), rest \cup Table(t, req, opt, more \cup {x}), rest \cup Table(t, req, opt,
        more), need)
  BY <1>5, <1>6 DEF wide, what
<1>. QED
  BY <1>4, <1>7

LEMMA Turns_b8c9d0e1f2a3 ==
    ASSUME NEW rest, NoneOf(rest, "analytics_events")
    PROVE  Turns(rev_b8c9d0e1f2a3, rest \cup Events16, rest \cup Events18, "none", "none")
<1>. DEFINE req == EventsColumns
            opt == {}
            more == Refers("analytics_events", "user_id", "users") \cup Index("analytics_events",
              <<"name">>) \cup Index("analytics_events", <<"user_id">>)
              \cup Index("analytics_events", <<"created_at">>)
            x == <<"analytics_events", <<"user_id">>, "unique activation">>
            from == rest \cup Table("analytics_events", req, opt, more)
            to == rest \cup Table("analytics_events", req, opt, more \cup {x})
<1>1. Extras(more, "analytics_events")
  BY ExtraKinds, ExtrasTogether
<1>2. x \notin more
  <2>1. Ordinary(more)
    BY OrdinaryKinds, OrdinaryTogether
  <2>. DEFINE y == x
  <2>2. y[3] = "unique activation"
    OBVIOUS
  <2>. HIDE DEF more, y
  <2>3. y \notin more
    BY <2>1, <2>2 DEF Ordinary
  <2>. QED
    BY <2>3 DEF y
<1>3. "user_id" \in req
  BY DEF EventsColumns
<1>4. ActivationOnce = {x}
  BY DEF ActivationOnce, UniqueWhere
<1>5. rest \cup Events16 = from /\ rest \cup Events18 = to
  BY <1>4 DEF Events16, Events18
<1>6. rev_b8c9d0e1f2a3 = Script(<<Execute("drop duplicate activations"), Create(ActivationOnce)>>,
        <<Drop(ActivationOnce)>>)
  BY DEF rev_b8c9d0e1f2a3
<1>7. PICK y : y = x
  OBVIOUS
<1>. HIDE DEF req, opt, more
<1>8. Fits(y, from, to) /\ Does(Drop({y}), to, from, "none")
  <2>1. y = <<"analytics_events", <<"user_id">>, "unique activation">> /\ y \notin more
    BY <1>2, <1>7
  <2>2. to = rest \cup Table("analytics_events", req, opt, more \cup {y})
    BY <1>7
  <2>3. /\ Fits(y, rest \cup Table("analytics_events", req, opt, more), rest
             \cup Table("analytics_events", req, opt, more \cup {y}))
        /\ Does(Drop({y}), rest \cup Table("analytics_events", req, opt, more \cup {y}), rest
             \cup Table("analytics_events", req, opt, more), "none")
    BY <1>1, <1>3, <2>1, Partial
  <2>. QED
    BY <2>2, <2>3
<1>. HIDE DEF from, to
<1>9. Leads(<<Execute("drop duplicate activations"), Create(ActivationOnce)>>, from, to, "none")
  BY <1>7, <1>8, ActivationOnceIsReady
<1>10. Leads(<<Drop(ActivationOnce)>>, to, from, "none")
  BY <1>4, <1>7, <1>8, Leads1
<1>. QED
  BY <1>5, <1>6, <1>9, <1>10, TurnsAre

LEMMA Turns_c1d2e3f4a5b6 ==
    ASSUME NEW rest, NoneOf(rest, "users")
    PROVE  Turns(rev_c1d2e3f4a5b6, rest \cup Users13, rest \cup Users19, "one account", "none")
<1>. DEFINE req == UsersColumns \cup {"is_admin"} \cup {"current_streak"}
        \cup {"longest_streak"} \cup {"weekly_goal_minutes"}
            opt == {"quota_date"} \cup {"last_active_date"}
            more == Unique("users", <<"email">>)
            x == <<"users", <<"email">>, "unique lower">>
            from == rest \cup Table("users", req, opt, more)
            to == rest \cup Table("users", req, opt, more \cup {x})
<1>1. Extras(more, "users")
  BY ExtraKinds, ExtrasTogether
<1>2. x \notin more
  <2>1. Ordinary(more)
    BY OrdinaryKinds, OrdinaryTogether
  <2>. DEFINE y == x
  <2>2. y[3] = "unique lower"
    OBVIOUS
  <2>. HIDE DEF more, y
  <2>3. y \notin more
    BY <2>1, <2>2 DEF Ordinary
  <2>. QED
    BY <2>3 DEF y
<1>3. "email" \in req
  BY DEF UsersColumns
<1>4. EmailLower = {x}
  BY DEF EmailLower, UniqueWhere
<1>5. rest \cup Users13 = from /\ rest \cup Users19 = to
  BY <1>4 DEF Users13, Users19
<1>6. rev_c1d2e3f4a5b6 = Script(<<Execute("lowercase emails"), Create(EmailLower)>>,
        <<Drop(EmailLower)>>)
  BY DEF rev_c1d2e3f4a5b6
<1>7. PICK y : y = x
  OBVIOUS
<1>. HIDE DEF req, opt, more
<1>8. Fits(y, from, to) /\ Does(Drop({y}), to, from, "none")
  <2>1. y = <<"users", <<"email">>, "unique lower">> /\ y \notin more
    BY <1>2, <1>7
  <2>2. to = rest \cup Table("users", req, opt, more \cup {y})
    BY <1>7
  <2>3. /\ Fits(y, rest \cup Table("users", req, opt, more), rest \cup Table("users", req, opt,
             more \cup {y}))
        /\ Does(Drop({y}), rest \cup Table("users", req, opt, more \cup {y}), rest
             \cup Table("users", req, opt, more), "none")
    BY <1>1, <1>3, <2>1, Partial
  <2>. QED
    BY <2>2, <2>3
<1>. HIDE DEF from, to
<1>9. Leads(<<Execute("lowercase emails"), Create(EmailLower)>>, from, to, "one account")
  BY <1>7, <1>8, EmailLowerIsReady
<1>10. Leads(<<Drop(EmailLower)>>, to, from, "none")
  BY <1>4, <1>7, <1>8, Leads1
<1>. QED
  BY <1>5, <1>6, <1>9, <1>10, TurnsAre

LEMMA Turns_a4b5c6d7e8f9 ==
    ASSUME NEW rest, NoneOf(rest, "sessions")
    PROVE  Turns(rev_a4b5c6d7e8f9, rest \cup Sessions25, rest \cup Sessions26, "none", "none")
<1>. DEFINE req == (SessionsColumns \cup {"last_activity_at"}) \ {"room_name"}
            opt == {"scenario_id", "ended_at", "duration_minutes"} \cup {"mission_id"}
            more == Refers("sessions", "user_id", "users") \cup Index("sessions",
              <<"mission_id">>) \cup RefersOrNull("sessions", "mission_id", "missions")
              \cup Index("sessions", <<"user_id", "started_at">>)
            x == <<"sessions", <<"user_id">>, "unique while open">>
            from == rest \cup Table("sessions", req, opt, more)
            to == rest \cup Table("sessions", req, opt, more \cup {x})
<1>1. Extras(more, "sessions")
  BY ExtraKinds, ExtrasTogether
<1>2. x \notin more
  <2>1. Ordinary(more)
    BY OrdinaryKinds, OrdinaryTogether
  <2>. DEFINE y == x
  <2>2. y[3] = "unique while open"
    OBVIOUS
  <2>. HIDE DEF more, y
  <2>3. y \notin more
    BY <2>1, <2>2 DEF Ordinary
  <2>. QED
    BY <2>3 DEF y
<1>3. "user_id" \in req
  BY DEF SessionsColumns
<1>4. OneActive = {x}
  BY DEF OneActive, UniqueWhere
<1>5. rest \cup Sessions25 = from /\ rest \cup Sessions26 = to
  BY <1>4 DEF Sessions25, Sessions26
<1>6. rev_a4b5c6d7e8f9 = Script(<<Execute("close extras"), Create(OneActive)>>, <<Drop(OneActive)>>)
  BY DEF rev_a4b5c6d7e8f9
<1>7. PICK y : y = x
  OBVIOUS
<1>. HIDE DEF req, opt, more
<1>8. Fits(y, from, to) /\ Does(Drop({y}), to, from, "none")
  <2>1. y = <<"sessions", <<"user_id">>, "unique while open">> /\ y \notin more
    BY <1>2, <1>7
  <2>2. to = rest \cup Table("sessions", req, opt, more \cup {y})
    BY <1>7
  <2>3. /\ Fits(y, rest \cup Table("sessions", req, opt, more), rest \cup Table("sessions", req,
             opt, more \cup {y}))
        /\ Does(Drop({y}), rest \cup Table("sessions", req, opt, more \cup {y}), rest
             \cup Table("sessions", req, opt, more), "none")
    BY <1>1, <1>3, <2>1, Partial
  <2>. QED
    BY <2>2, <2>3
<1>. HIDE DEF from, to
<1>9. Leads(<<Execute("close extras"), Create(OneActive)>>, from, to, "none")
  BY <1>7, <1>8, OneActiveIsReady
<1>10. Leads(<<Drop(OneActive)>>, to, from, "none")
  BY <1>4, <1>7, <1>8, Leads1
<1>. QED
  BY <1>5, <1>6, <1>9, <1>10, TurnsAre

LEMMA Turns_eea2e957ec48 ==
    ASSUME NEW rest, NoneOf(rest, "review_items")
    PROVE  Turns(rev_eea2e957ec48, rest \cup Reviews12, rest \cup Reviews23, "none", "none")
<1>. DEFINE req == ReviewsColumns
            opt == {"next_review_at"}
            base == Refers("review_items", "user_id", "users") \cup Unique("review_items",
              <<"user_id", "error_type">>)
            x == Index("review_items", <<"user_id">>)
            y == Index("review_items", <<"user_id", "next_review_at">>)
<1>1. Extras(base, "review_items") /\ Extras(x, "review_items") /\ Extras(y, "review_items")
  BY ExtraKinds, ExtrasTogether
<1>2. base \cap x = {} /\ base \cap y = {}
  BY DEF Refers, RefersOrNull, Unique, UniqueWhere, Index
<1>3. Ordinary(x) /\ Ordinary(y)
  BY OrdinaryKinds
<1>4. "user_id" \in req \cup opt
  BY DEF ReviewsColumns
<1>5. Standing(x, req \cup opt, rest)
  BY <1>4, StandsOnOne
<1>6. "user_id" \in req \cup opt /\ "next_review_at" \in req \cup opt
  BY DEF ReviewsColumns
<1>7. Standing(y, req \cup opt, rest)
  BY <1>6, StandsOnTwo
<1>8. rest \cup Reviews12 = rest \cup Table("review_items", req, opt, base \cup x)
  BY DEF Reviews12, Table
<1>9. rest \cup Reviews23 = rest \cup Table("review_items", req, opt, base \cup y)
  BY DEF Reviews23, Table
<1>10. rev_eea2e957ec48 = Script(<<Drop(x), Create(y)>>, <<Drop(y), Create(x)>>)
  BY DEF rev_eea2e957ec48
<1>. HIDE DEF req, opt, base, x, y
<1>11. Undoes(Drop(x), Create(x), rest \cup Table("review_items", req, opt, base), rest
        \cup Table("review_items", req, opt, base \cup x), "none")
  BY <1>1, <1>2, <1>3, <1>5, Thing
<1>12. Undoes(Drop(y), Create(y), rest \cup Table("review_items", req, opt, base), rest
        \cup Table("review_items", req, opt, base \cup y), "none")
  BY <1>1, <1>2, <1>3, <1>7, Thing
<1>13. Leads(<<Drop(x), Create(y)>>, rest \cup Table("review_items", req, opt, base \cup x),
        rest \cup Table("review_items", req, opt, base \cup y), "none")
  BY <1>11, <1>12, Leads2 DEF Undoes
<1>14. Leads(<<Drop(y), Create(x)>>, rest \cup Table("review_items", req, opt, base \cup y),
        rest \cup Table("review_items", req, opt, base \cup x), "none")
  BY <1>11, <1>12, Leads2 DEF Undoes
<1>. QED
  BY <1>8, <1>9, <1>10, <1>13, <1>14, TurnsAre

LEMMA Turns_22c153382454 ==
    ASSUME NEW rest, NoneOf(rest, "sessions")
    PROVE  Turns(rev_22c153382454, rest \cup Sessions22, rest \cup Sessions25, "none", "none")
<1>. DEFINE req == (SessionsColumns \cup {"last_activity_at"}) \ {"room_name"}
            opt == {"scenario_id", "ended_at", "duration_minutes"} \cup {"mission_id"}
            base == Refers("sessions", "user_id", "users") \cup Index("sessions",
              <<"mission_id">>) \cup RefersOrNull("sessions", "mission_id", "missions")
            x == Index("sessions", <<"user_id">>)
            y == Index("sessions", <<"user_id", "started_at">>)
<1>1. Extras(base, "sessions") /\ Extras(x, "sessions") /\ Extras(y, "sessions")
  BY ExtraKinds, ExtrasTogether
<1>2. base \cap x = {} /\ base \cap y = {}
  BY DEF Refers, RefersOrNull, Unique, UniqueWhere, Index
<1>3. Ordinary(x) /\ Ordinary(y)
  BY OrdinaryKinds
<1>4. "user_id" \in req \cup opt
  BY DEF SessionsColumns
<1>5. Standing(x, req \cup opt, rest)
  BY <1>4, StandsOnOne
<1>6. "user_id" \in req \cup opt /\ "started_at" \in req \cup opt
  BY DEF SessionsColumns
<1>7. Standing(y, req \cup opt, rest)
  BY <1>6, StandsOnTwo
<1>8. rest \cup Sessions22 = rest \cup Table("sessions", req, opt, base \cup x)
  BY DEF Sessions22, Table
<1>9. rest \cup Sessions25 = rest \cup Table("sessions", req, opt, base \cup y)
  BY DEF Sessions25, Table
<1>10. rev_22c153382454 = Script(<<Drop(x), Create(y)>>, <<Drop(y), Create(x)>>)
  BY DEF rev_22c153382454
<1>. HIDE DEF req, opt, base, x, y
<1>11. Undoes(Drop(x), Create(x), rest \cup Table("sessions", req, opt, base), rest
        \cup Table("sessions", req, opt, base \cup x), "none")
  BY <1>1, <1>2, <1>3, <1>5, Thing
<1>12. Undoes(Drop(y), Create(y), rest \cup Table("sessions", req, opt, base), rest
        \cup Table("sessions", req, opt, base \cup y), "none")
  BY <1>1, <1>2, <1>3, <1>7, Thing
<1>13. Leads(<<Drop(x), Create(y)>>, rest \cup Table("sessions", req, opt, base \cup x), rest
        \cup Table("sessions", req, opt, base \cup y), "none")
  BY <1>11, <1>12, Leads2 DEF Undoes
<1>14. Leads(<<Drop(y), Create(x)>>, rest \cup Table("sessions", req, opt, base \cup y), rest
        \cup Table("sessions", req, opt, base \cup x), "none")
  BY <1>11, <1>12, Leads2 DEF Undoes
<1>. QED
  BY <1>8, <1>9, <1>10, <1>13, <1>14, TurnsAre

LEMMA Turns_a7b8c9d0e1f2 ==
    ASSUME NEW rest, NoneOf(rest, "idempotency_keys")
    PROVE  Turns(rev_a7b8c9d0e1f2, rest \cup Keys15, rest \cup Keys17, "none", "none")
<1>. DEFINE t == "idempotency_keys"
            c == "response"
            req == KeysColumns
            opt == {}
            more == Refers("idempotency_keys", "user_id", "users") \cup Unique("idempotency_keys",
              <<"user_id", "key">>)
                        \cup Index("idempotency_keys", <<"user_id">>)
            req2 == req \ {c}
            opt2 == opt \cup {c}
<1>1. Extras(more, t)
  BY ExtraKinds, ExtrasTogether
<1>2. c \in req /\ c \notin opt
  BY DEF KeysColumns
<1>3. c \in opt2 /\ c \notin req2 /\ req2 \cup {c} = req /\ opt2 \ {c} = opt
  BY DEF KeysColumns
<1>4. rest \cup Keys15 = rest \cup Table(t, req, opt, more)
  BY DEF Keys15
<1>5. rest \cup Keys17 = rest \cup Table(t, req2, opt2, more)
  BY DEF Keys17
<1>6. rev_a7b8c9d0e1f2 = Script(<<Relax(t, c)>>, <<Execute("backfill responses"), Tighten(t, c)>>)
  BY DEF rev_a7b8c9d0e1f2
<1>7. NoneOf(rest, t)
  OBVIOUS
<1>. HIDE DEF t, c, req, opt, more
<1>8. Does(Relax(t, c), rest \cup Table(t, req, opt, more), rest \cup Table(t, req2, opt2, more),
        "none")
  BY <1>1, <1>2, <1>7, RelaxDoes
<1>9. Leads(<<Relax(t, c)>>, rest \cup Table(t, req, opt, more), rest \cup Table(t, req2, opt2,
        more), "none")
  BY <1>8, Leads1
<1>. HIDE DEF req2, opt2
<1>10. Leads(<<Execute("backfill responses"), Tighten(t, c)>>, rest \cup Table(t, req2, opt2, more),
             rest \cup Table(t, req2 \cup {c}, opt2 \ {c}, more), "none")
  BY <1>1, <1>3, <1>7, TightenIsReady
<1>11. Leads(<<Execute("backfill responses"), Tighten(t, c)>>, rest \cup Table(t, req2, opt2, more),
             rest \cup Table(t, req, opt, more), "none")
  BY <1>3, <1>10
<1>. QED
  BY <1>4, <1>5, <1>6, <1>9, <1>11, TurnsAre

LEMMA RoomNameStands ==
    /\ ~Free(Unique("sessions", <<"room_name">>), "room_name")
    /\ \A y \in Unique("sessions", <<"room_name">>) : \E i \in DOMAIN y[2] : y[2][i] = "room_name"
<1>. DEFINE y == <<"sessions", <<"room_name">>, "unique">>
            x == Unique("sessions", <<"room_name">>)
<1>1. x = {y} /\ y[2] = <<"room_name">>
  BY DEF Unique
<1>2. 1 \in DOMAIN <<"room_name">> /\ <<"room_name">>[1] = "room_name"
  OBVIOUS
<1>. HIDE DEF x, y
<1>3. \A z \in x : \E i \in DOMAIN z[2] : z[2][i] = "room_name"
  BY <1>1, <1>2
<1>4. ~Free(x, "room_name")
  BY <1>1, <1>3 DEF Free
<1>. QED
  BY <1>3, <1>4 DEF x

LEMMA Turns_f2a1b0c9d8e7 ==
    ASSUME NEW rest, NoneOf(rest, "sessions")
    PROVE  Turns(rev_f2a1b0c9d8e7, rest \cup Sessions10, rest \cup Sessions22, "none", "no sessions")
<1>. DEFINE t == "sessions"
            c == "room_name"
            req == SessionsColumns \cup {"last_activity_at"}
            opt == {"scenario_id", "ended_at", "duration_minutes"} \cup {"mission_id"}
            base == Refers("sessions", "user_id", "users") \cup Index("sessions",
              <<"user_id">>) \cup Index("sessions", <<"mission_id">>) \cup RefersOrNull("sessions",
              "mission_id", "missions")
            x == Unique("sessions", <<"room_name">>)
            req2 == req \ {c}
<1>1. Extras(base, t) /\ Extras(x, t) /\ Extras(base \cup x, t)
  BY ExtraKinds, ExtrasTogether
<1>2. base \cap x = {}
  BY DEF Refers, RefersOrNull, Unique, UniqueWhere, Index
<1>3. base \cap x = {} /\ Ordinary(x)
  BY <1>2, OrdinaryKinds
<1>4. c \in req /\ c \notin opt
  BY DEF SessionsColumns
<1>5. Free(Refers("sessions", "user_id", "users"), "room_name")
  BY FreeOfKey
<1>6. Free(Index("sessions", <<"user_id">>), "room_name")
  BY FreeOfOne
<1>7. Free(Index("sessions", <<"mission_id">>), "room_name")
  BY FreeOfOne
<1>8. Free(RefersOrNull("sessions", "mission_id", "missions"), "room_name")
  BY FreeOfKey
<1>9. Free(base, "room_name")
  BY <1>5, <1>6, <1>7, <1>8, FreeTogether
<1>10. ~Free(x, c) /\ \A y \in x : \E i \in DOMAIN y[2] : y[2][i] = c
  BY RoomNameStands
<1>11. c \in (req2 \cup {c}) \cup opt
  BY SMT
<1>12. Standing(x, (req2 \cup {c}) \cup opt, rest)
  BY <1>11, StandsOnOne
<1>13. rest \cup Sessions10 = rest \cup Table(t, req, opt, base \cup x)
  BY DEF Sessions10, Table
<1>14. rest \cup Sessions22 = rest \cup Table(t, req2, opt, base)
  BY DEF Sessions22
<1>15. rev_f2a1b0c9d8e7 = Script(<<DropColumn(t, c)>>, <<AddUndefaulted(t, c), Create(x)>>)
  BY DEF rev_f2a1b0c9d8e7
<1>16. NoneOf(rest, t)
  BY SMT
<1>. HIDE DEF t, c, req, opt, base, x
<1>17. base = {y \in base \cup x : \A i \in DOMAIN y[2] : y[2][i] # c}
  BY <1>9, <1>10 DEF Free, c
<1>18. c \in req \cup opt /\ opt \ {c} = opt /\ req2 \cup {c} = req
  BY <1>4 DEF req2
<1>. DEFINE wide == base \cup x
<1>19. Extras(wide, t) /\ base = {y \in wide : \A i \in DOMAIN y[2] : y[2][i] # c}
  BY <1>1, <1>17
<1>. HIDE DEF wide
<1>20. Does(DropColumn(t, c), rest \cup Table(t, req, opt, wide), rest \cup Table(t, req \ {c},
        opt \ {c}, base), "none")
  BY <1>16, <1>19, <1>18, DropColumnDoes
<1>21. Leads(<<DropColumn(t, c)>>, rest \cup Table(t, req, opt, base \cup x), rest \cup Table(t,
        req2, opt, base), "none")
  BY <1>20, <1>18, Leads1 DEF wide, req2
<1>. HIDE DEF req2
<1>22. c \notin req2
  BY DEF req2
<1>23. Does(AddUndefaulted(t, c), rest \cup Table(t, req2, opt, base), rest \cup Table(t, req2
        \cup {c}, opt, base), "no sessions")
  BY <1>16, <1>1, <1>22, AddUndefaultedDoes
<1>. DEFINE all == req2 \cup {c}
<1>24. Standing(x, all \cup opt, rest)
  BY <1>12
<1>. HIDE DEF all
<1>25. Undoes(Drop(x), Create(x), rest \cup Table(t, all, opt, base), rest \cup Table(t, all, opt,
        base \cup x), "no sessions")
  BY <1>16, <1>1, <1>3, <1>24, Thing
<1>26. Leads(<<AddUndefaulted(t, c), Create(x)>>, rest \cup Table(t, req2, opt, base), rest
        \cup Table(t, all, opt, base \cup x), "no sessions")
  BY <1>23, <1>25, Leads2 DEF Undoes, all
<1>27. all = req
  BY <1>18 DEF all
<1>. QED
  BY <1>13, <1>14, <1>15, <1>21, <1>26, <1>27, TurnsAre

----------------------------------------------------------------------------
(* The migrations: what the tables point at                                *)

\* A part of one table, and the tables its keys point at.
Within(part, t, targets) == \A x \in part : x[1] = t /\ (IsForeignKey(x) => x[2][2] \in targets)

LEMMA WithinKinds ==
    ASSUME NEW t, NEW c, NEW targets
    PROVE  /\ Within(Required(t, c), t, targets) /\ Within(Optional(t, c), t, targets)
           /\ Within(Unique(t, c), t, targets) /\ Within(Index(t, c), t, targets)
           /\ \A k \in {"unique lower", "unique while open", "unique activation"} :
                  Within(UniqueWhere(t, c, k), t, targets)
<1>1. ASSUME NEW a, NEW k \in {"required", "optional", "unique", "index", "unique lower",
        "unique while open",
                               "unique activation"}
      PROVE  Within({<<t, a, k>>}, t, targets)
  <2>. DEFINE x == <<t, a, k>>
  <2>1. x[1] = t /\ x[3] = k
    OBVIOUS
  <2>. HIDE DEF x
  <2>2. Within({x}, t, targets)
    BY <2>1 DEF Within, IsForeignKey
  <2>. QED
    BY <2>2 DEF x
<1>2. Within(Unique(t, c), t, targets) /\ Within(Index(t, c), t, targets)
  BY <1>1 DEF Unique, Index
<1>3. \A k \in {"unique lower", "unique while open", "unique activation"} :
          Within(UniqueWhere(t, c, k), t, targets)
  BY <1>1 DEF UniqueWhere
<1>4. \A a \in c : Within({<<t, <<a>>, "required">>}, t, targets)
        /\ Within({<<t, <<a>>, "optional">>}, t, targets)
  BY <1>1
<1>5. Within(Required(t, c), t, targets)
  BY <1>4 DEF Within, Required
<1>6. Within(Optional(t, c), t, targets)
  BY <1>4 DEF Within, Optional
<1>. QED
  BY <1>2, <1>3, <1>5, <1>6

LEMMA KeyIsWithin ==
    ASSUME NEW t, NEW c, NEW targets, NEW to \in targets
    PROVE  Within(Refers(t, c, to), t, targets) /\ Within(RefersOrNull(t, c, to), t, targets)
<1>1. ASSUME NEW k PROVE Within({<<t, <<c, to>>, k>>}, t, targets)
  <2>. DEFINE x == <<t, <<c, to>>, k>>
  <2>1. x[1] = t /\ x[2] = <<c, to>>
    OBVIOUS
  <2>2. x[2][2] = to
    BY <2>1
  <2>. HIDE DEF x
  <2>3. Within({x}, t, targets)
    BY <2>1, <2>2 DEF Within
  <2>. QED
    BY <2>3 DEF x
<1>. QED
  BY <1>1 DEF Refers, RefersOrNull

LEMMA WithinTogether ==
    ASSUME NEW t, NEW targets, NEW a, NEW b, Within(a, t, targets), Within(b, t, targets)
    PROVE  Within(a \cup b, t, targets)
  BY DEF Within

LEMMA WithinTable ==
    ASSUME NEW t, NEW targets, NEW req, NEW opt, NEW more, Within(more, t, targets)
    PROVE  Within(Table(t, req, opt, more), t, targets)
<1>1. Within(Required(t, req), t, targets) /\ Within(Optional(t, opt), t, targets)
  BY WithinKinds
<1>2. Within(Required(t, req) \cup Optional(t, opt), t, targets)
  BY <1>1, WithinTogether
<1>. QED
  BY <1>2, WithinTogether DEF Table

\* Every version of a table.
LEMMA UsersVersions ==
    /\ Within(Users1, "users", {})
    /\ Within(Users9, "users", {})
    /\ Within(Users13, "users", {})
    /\ Within(Users19, "users", {})
    /\ Within(Users20, "users", {})
    /\ Within(Users27, "users", {})
<1>1. Within(Unique("users", <<"email">>), "users", {})
  BY WithinKinds
<1>2. Within(Unique("users", <<"email">>), "users", {})
  BY <1>1, WithinTogether
<1>3. Within(Users1, "users", {})
  BY <1>2, WithinTable DEF Users1
<1>4. Within(Users9, "users", {})
  BY <1>2, WithinTable DEF Users9
<1>5. Within(Users13, "users", {})
  BY <1>2, WithinTable DEF Users13
<1>6. Within(EmailLower, "users", {})
  BY WithinKinds DEF EmailLower
<1>7. Within(Unique("users", <<"email">>) \cup EmailLower, "users", {})
  BY <1>1, <1>6, WithinTogether
<1>8. Within(Users19, "users", {})
  BY <1>7, WithinTable DEF Users19
<1>9. Within(Users20, "users", {})
  BY <1>7, WithinTable DEF Users20
<1>10. Within(Unique("users", <<"reset_token_hash">>), "users", {})
  BY WithinKinds
<1>11. Within(Unique("users", <<"email">>) \cup EmailLower \cup Unique("users",
        <<"reset_token_hash">>), "users", {})
  BY <1>1, <1>6, <1>10, WithinTogether
<1>12. Within(Users27, "users", {})
  BY <1>11, WithinTable DEF Users27
<1>. QED
  BY <1>3, <1>4, <1>5, <1>8, <1>9, <1>12

LEMMA ProfilesVersions ==
    /\ Within(Profiles2, "learner_profiles", {"users"})
    /\ Within(Profiles7, "learner_profiles", {"users"})
<1>1. Within(Refers("learner_profiles", "user_id", "users"), "learner_profiles", {"users"})
  BY KeyIsWithin
<1>2. Within(Refers("learner_profiles", "user_id", "users"), "learner_profiles", {"users"})
  BY <1>1, WithinTogether
<1>3. Within(Profiles2, "learner_profiles", {"users"})
  BY <1>2, WithinTable DEF Profiles2
<1>4. Within(Profiles7, "learner_profiles", {"users"})
  BY <1>2, WithinTable DEF Profiles7
<1>. QED
  BY <1>3, <1>4

LEMMA SessionsVersions ==
    /\ Within(Sessions3, "sessions", {"users"})
    /\ Within(Sessions8, "sessions", {"missions", "users"})
    /\ Within(Sessions10, "sessions", {"missions", "users"})
    /\ Within(Sessions22, "sessions", {"missions", "users"})
    /\ Within(Sessions25, "sessions", {"missions", "users"})
    /\ Within(Sessions26, "sessions", {"missions", "users"})
<1>1. Within(Refers("sessions", "user_id", "users"), "sessions", {"users"})
  BY KeyIsWithin
<1>2. Within(Unique("sessions", <<"room_name">>), "sessions", {"users"})
  BY WithinKinds
<1>3. Within(Index("sessions", <<"user_id">>), "sessions", {"users"})
  BY WithinKinds
<1>4. Within(Refers("sessions", "user_id", "users") \cup Unique("sessions", <<"room_name">>)
        \cup Index("sessions", <<"user_id">>), "sessions", {"users"})
  BY <1>1, <1>2, <1>3, WithinTogether
<1>5. Within(Sessions3, "sessions", {"users"})
  BY <1>4, WithinTable DEF Sessions3
<1>6. Within(Refers("sessions", "user_id", "users"), "sessions", {"missions", "users"})
  BY KeyIsWithin
<1>7. Within(Unique("sessions", <<"room_name">>), "sessions", {"missions", "users"})
  BY WithinKinds
<1>8. Within(Index("sessions", <<"user_id">>), "sessions", {"missions", "users"})
  BY WithinKinds
<1>9. Within(Index("sessions", <<"mission_id">>), "sessions", {"missions", "users"})
  BY WithinKinds
<1>10. Within(RefersOrNull("sessions", "mission_id", "missions"), "sessions", {"missions", "users"})
  BY KeyIsWithin
<1>11. Within(Refers("sessions", "user_id", "users") \cup Unique("sessions", <<"room_name">>)
        \cup Index("sessions", <<"user_id">>) \cup Index("sessions", <<"mission_id">>)
        \cup RefersOrNull("sessions", "mission_id", "missions"), "sessions", {"missions", "users"})
  BY <1>6, <1>7, <1>8, <1>9, <1>10, WithinTogether
<1>12. Within(Sessions8, "sessions", {"missions", "users"})
  BY <1>11, WithinTable DEF Sessions8
<1>13. Within(Sessions10, "sessions", {"missions", "users"})
  BY <1>11, WithinTable DEF Sessions10
<1>14. Within(Refers("sessions", "user_id", "users") \cup Index("sessions", <<"user_id">>)
        \cup Index("sessions", <<"mission_id">>) \cup RefersOrNull("sessions", "mission_id",
        "missions"), "sessions", {"missions", "users"})
  BY <1>6, <1>8, <1>9, <1>10, WithinTogether
<1>15. Within(Sessions22, "sessions", {"missions", "users"})
  BY <1>14, WithinTable DEF Sessions22
<1>16. Within(Index("sessions", <<"user_id", "started_at">>), "sessions", {"missions", "users"})
  BY WithinKinds
<1>17. Within(Refers("sessions", "user_id", "users") \cup Index("sessions", <<"mission_id">>)
        \cup RefersOrNull("sessions", "mission_id", "missions") \cup Index("sessions",
        <<"user_id", "started_at">>), "sessions", {"missions", "users"})
  BY <1>6, <1>9, <1>10, <1>16, WithinTogether
<1>18. Within(Sessions25, "sessions", {"missions", "users"})
  BY <1>17, WithinTable DEF Sessions25
<1>19. Within(OneActive, "sessions", {"missions", "users"})
  BY WithinKinds DEF OneActive
<1>20. Within(Refers("sessions", "user_id", "users") \cup Index("sessions", <<"mission_id">>)
        \cup RefersOrNull("sessions", "mission_id", "missions") \cup Index("sessions",
        <<"user_id", "started_at">>) \cup OneActive, "sessions", {"missions", "users"})
  BY <1>6, <1>9, <1>10, <1>16, <1>19, WithinTogether
<1>21. Within(Sessions26, "sessions", {"missions", "users"})
  BY <1>20, WithinTable DEF Sessions26
<1>. QED
  BY <1>5, <1>12, <1>13, <1>15, <1>18, <1>21

LEMMA RefreshesVersions ==
    /\ Within(Refreshes4, "refresh_tokens", {"users"})
    /\ Within(Refreshes21, "refresh_tokens", {"users"})
<1>1. Within(Refers("refresh_tokens", "user_id", "users"), "refresh_tokens", {"users"})
  BY KeyIsWithin
<1>2. Within(Unique("refresh_tokens", <<"token_hash">>), "refresh_tokens", {"users"})
  BY WithinKinds
<1>3. Within(Index("refresh_tokens", <<"user_id">>), "refresh_tokens", {"users"})
  BY WithinKinds
<1>4. Within(Refers("refresh_tokens", "user_id", "users") \cup Unique("refresh_tokens",
        <<"token_hash">>) \cup Index("refresh_tokens", <<"user_id">>), "refresh_tokens", {"users"})
  BY <1>1, <1>2, <1>3, WithinTogether
<1>5. Within(Refreshes4, "refresh_tokens", {"users"})
  BY <1>4, WithinTable DEF Refreshes4
<1>6. Within(Index("refresh_tokens", <<"expires_at">>), "refresh_tokens", {"users"})
  BY WithinKinds
<1>7. Within(Refers("refresh_tokens", "user_id", "users") \cup Unique("refresh_tokens",
        <<"token_hash">>) \cup Index("refresh_tokens", <<"user_id">>) \cup Index("refresh_tokens",
        <<"expires_at">>), "refresh_tokens", {"users"})
  BY <1>1, <1>2, <1>3, <1>6, WithinTogether
<1>8. Within(Refreshes21, "refresh_tokens", {"users"})
  BY <1>7, WithinTable DEF Refreshes21
<1>. QED
  BY <1>5, <1>8

LEMMA TranscriptsVersions ==
    /\ Within(Transcripts5, "transcripts", {"sessions"})
<1>1. Within(Refers("transcripts", "session_id", "sessions"), "transcripts", {"sessions"})
  BY KeyIsWithin
<1>2. Within(Unique("transcripts", <<"session_id">>), "transcripts", {"sessions"})
  BY WithinKinds
<1>3. Within(Refers("transcripts", "session_id", "sessions") \cup Unique("transcripts",
        <<"session_id">>), "transcripts", {"sessions"})
  BY <1>1, <1>2, WithinTogether
<1>4. Within(Transcripts5, "transcripts", {"sessions"})
  BY <1>3, WithinTable DEF Transcripts5
<1>. QED
  BY <1>4

LEMMA DebriefsVersions ==
    /\ Within(Debriefs6, "debriefs", {"sessions"})
<1>1. Within(Refers("debriefs", "session_id", "sessions"), "debriefs", {"sessions"})
  BY KeyIsWithin
<1>2. Within(Unique("debriefs", <<"session_id">>), "debriefs", {"sessions"})
  BY WithinKinds
<1>3. Within(Refers("debriefs", "session_id", "sessions") \cup Unique("debriefs",
        <<"session_id">>), "debriefs", {"sessions"})
  BY <1>1, <1>2, WithinTogether
<1>4. Within(Debriefs6, "debriefs", {"sessions"})
  BY <1>3, WithinTable DEF Debriefs6
<1>. QED
  BY <1>4

LEMMA MissionsVersions ==
    /\ Within(Missions8, "missions", {"users"})
<1>1. Within(Refers("missions", "user_id", "users"), "missions", {"users"})
  BY KeyIsWithin
<1>2. Within(Index("missions", <<"user_id">>), "missions", {"users"})
  BY WithinKinds
<1>3. Within(Refers("missions", "user_id", "users") \cup Index("missions", <<"user_id">>),
        "missions", {"users"})
  BY <1>1, <1>2, WithinTogether
<1>4. Within(Missions8, "missions", {"users"})
  BY <1>3, WithinTable DEF Missions8
<1>. QED
  BY <1>4

LEMMA VocabularyVersions ==
    /\ Within(Vocabulary11, "vocabulary_entries", {"sessions", "users"})
    /\ Within(Vocabulary24, "vocabulary_entries", {"sessions", "users"})
<1>1. Within(Refers("vocabulary_entries", "user_id", "users"), "vocabulary_entries", {"sessions",
        "users"})
  BY KeyIsWithin
<1>2. Within(RefersOrNull("vocabulary_entries", "session_id", "sessions"), "vocabulary_entries",
        {"sessions", "users"})
  BY KeyIsWithin
<1>3. Within(Unique("vocabulary_entries", <<"user_id", "word">>), "vocabulary_entries",
        {"sessions", "users"})
  BY WithinKinds
<1>4. Within(Index("vocabulary_entries", <<"user_id">>), "vocabulary_entries", {"sessions", "users"})
  BY WithinKinds
<1>5. Within(Refers("vocabulary_entries", "user_id", "users")
        \cup RefersOrNull("vocabulary_entries", "session_id", "sessions")
        \cup Unique("vocabulary_entries", <<"user_id", "word">>) \cup Index("vocabulary_entries",
        <<"user_id">>), "vocabulary_entries", {"sessions", "users"})
  BY <1>1, <1>2, <1>3, <1>4, WithinTogether
<1>6. Within(Vocabulary11, "vocabulary_entries", {"sessions", "users"})
  BY <1>5, WithinTable DEF Vocabulary11
<1>7. Within(Index("vocabulary_entries", <<"session_id">>), "vocabulary_entries", {"sessions", "users"})
  BY WithinKinds
<1>8. Within(Refers("vocabulary_entries", "user_id", "users")
        \cup RefersOrNull("vocabulary_entries", "session_id", "sessions")
        \cup Unique("vocabulary_entries", <<"user_id", "word">>) \cup Index("vocabulary_entries",
        <<"user_id">>) \cup Index("vocabulary_entries", <<"session_id">>), "vocabulary_entries",
        {"sessions", "users"})
  BY <1>1, <1>2, <1>3, <1>4, <1>7, WithinTogether
<1>9. Within(Vocabulary24, "vocabulary_entries", {"sessions", "users"})
  BY <1>8, WithinTable DEF Vocabulary24
<1>. QED
  BY <1>6, <1>9

LEMMA ReviewsVersions ==
    /\ Within(Reviews12, "review_items", {"users"})
    /\ Within(Reviews23, "review_items", {"users"})
<1>1. Within(Refers("review_items", "user_id", "users"), "review_items", {"users"})
  BY KeyIsWithin
<1>2. Within(Unique("review_items", <<"user_id", "error_type">>), "review_items", {"users"})
  BY WithinKinds
<1>3. Within(Index("review_items", <<"user_id">>), "review_items", {"users"})
  BY WithinKinds
<1>4. Within(Refers("review_items", "user_id", "users") \cup Unique("review_items",
        <<"user_id", "error_type">>) \cup Index("review_items", <<"user_id">>), "review_items",
        {"users"})
  BY <1>1, <1>2, <1>3, WithinTogether
<1>5. Within(Reviews12, "review_items", {"users"})
  BY <1>4, WithinTable DEF Reviews12
<1>6. Within(Index("review_items", <<"user_id", "next_review_at">>), "review_items", {"users"})
  BY WithinKinds
<1>7. Within(Refers("review_items", "user_id", "users") \cup Unique("review_items",
        <<"user_id", "error_type">>) \cup Index("review_items", <<"user_id", "next_review_at">>),
        "review_items", {"users"})
  BY <1>1, <1>2, <1>6, WithinTogether
<1>8. Within(Reviews23, "review_items", {"users"})
  BY <1>7, WithinTable DEF Reviews23
<1>. QED
  BY <1>5, <1>8

LEMMA ConsentsVersions ==
    /\ Within(Consents14, "voice_consents", {"users"})
<1>1. Within(Refers("voice_consents", "user_id", "users"), "voice_consents", {"users"})
  BY KeyIsWithin
<1>2. Within(Unique("voice_consents", <<"user_id">>), "voice_consents", {"users"})
  BY WithinKinds
<1>3. Within(Index("voice_consents", <<"user_id">>), "voice_consents", {"users"})
  BY WithinKinds
<1>4. Within(Refers("voice_consents", "user_id", "users") \cup Unique("voice_consents",
        <<"user_id">>) \cup Index("voice_consents", <<"user_id">>), "voice_consents", {"users"})
  BY <1>1, <1>2, <1>3, WithinTogether
<1>5. Within(Consents14, "voice_consents", {"users"})
  BY <1>4, WithinTable DEF Consents14
<1>. QED
  BY <1>5

LEMMA KeysVersions ==
    /\ Within(Keys15, "idempotency_keys", {"users"})
    /\ Within(Keys17, "idempotency_keys", {"users"})
    /\ Within(Keys21, "idempotency_keys", {"users"})
<1>1. Within(Refers("idempotency_keys", "user_id", "users"), "idempotency_keys", {"users"})
  BY KeyIsWithin
<1>2. Within(Unique("idempotency_keys", <<"user_id", "key">>), "idempotency_keys", {"users"})
  BY WithinKinds
<1>3. Within(Index("idempotency_keys", <<"user_id">>), "idempotency_keys", {"users"})
  BY WithinKinds
<1>4. Within(Refers("idempotency_keys", "user_id", "users") \cup Unique("idempotency_keys",
        <<"user_id", "key">>) \cup Index("idempotency_keys", <<"user_id">>), "idempotency_keys",
        {"users"})
  BY <1>1, <1>2, <1>3, WithinTogether
<1>5. Within(Keys15, "idempotency_keys", {"users"})
  BY <1>4, WithinTable DEF Keys15
<1>6. Within(Keys17, "idempotency_keys", {"users"})
  BY <1>4, WithinTable DEF Keys17
<1>7. Within(Index("idempotency_keys", <<"created_at">>), "idempotency_keys", {"users"})
  BY WithinKinds
<1>8. Within(Refers("idempotency_keys", "user_id", "users") \cup Unique("idempotency_keys",
        <<"user_id", "key">>) \cup Index("idempotency_keys", <<"user_id">>)
        \cup Index("idempotency_keys", <<"created_at">>), "idempotency_keys", {"users"})
  BY <1>1, <1>2, <1>3, <1>7, WithinTogether
<1>9. Within(Keys21, "idempotency_keys", {"users"})
  BY <1>8, WithinTable DEF Keys21
<1>. QED
  BY <1>5, <1>6, <1>9

LEMMA EventsVersions ==
    /\ Within(Events16, "analytics_events", {"users"})
    /\ Within(Events18, "analytics_events", {"users"})
<1>1. Within(Refers("analytics_events", "user_id", "users"), "analytics_events", {"users"})
  BY KeyIsWithin
<1>2. Within(Index("analytics_events", <<"name">>), "analytics_events", {"users"})
  BY WithinKinds
<1>3. Within(Index("analytics_events", <<"user_id">>), "analytics_events", {"users"})
  BY WithinKinds
<1>4. Within(Index("analytics_events", <<"created_at">>), "analytics_events", {"users"})
  BY WithinKinds
<1>5. Within(Refers("analytics_events", "user_id", "users") \cup Index("analytics_events",
        <<"name">>) \cup Index("analytics_events", <<"user_id">>) \cup Index("analytics_events",
        <<"created_at">>), "analytics_events", {"users"})
  BY <1>1, <1>2, <1>3, <1>4, WithinTogether
<1>6. Within(Events16, "analytics_events", {"users"})
  BY <1>5, WithinTable DEF Events16
<1>7. Within(ActivationOnce, "analytics_events", {"users"})
  BY WithinKinds DEF ActivationOnce
<1>8. Within(Refers("analytics_events", "user_id", "users") \cup Index("analytics_events",
        <<"name">>) \cup Index("analytics_events", <<"user_id">>) \cup Index("analytics_events",
        <<"created_at">>) \cup ActivationOnce, "analytics_events", {"users"})
  BY <1>1, <1>2, <1>3, <1>4, <1>7, WithinTogether
<1>9. Within(Events18, "analytics_events", {"users"})
  BY <1>8, WithinTable DEF Events18
<1>. QED
  BY <1>6, <1>9

LEMMA NoneWithin ==
    ASSUME NEW rest, NEW t, NoneOf(rest, t), NEW part, NEW u, NEW targets, Within(part, u,
             targets), u # t
    PROVE  NoneOf(rest \cup part, t)
  BY DEF NoneOf, Within

LEMMA UnpointedWithin ==
    ASSUME NEW rest, NEW t, Unpointed(rest, t), NEW part, NEW u, NEW targets, Within(part, u,
             targets), t \notin targets
    PROVE  Unpointed(rest \cup part, t)
  BY DEF Unpointed, Within

\* The revision that brings the missions and the sessions' key to them.
LEMMA MissionsTable ==
    ASSUME NEW rest, NoneOf(rest, "missions"), Unpointed(rest, "missions"),
           <<"users", <<"id">>, "required">> \in rest
    PROVE  \E middle :
               /\ Does(Create(Required("missions", MissionsColumns) \cup Refers("missions",
                    "user_id", "users")),
                       rest, middle, "none")
               /\ Does(DropTable("missions"), middle, rest, "none")
               /\ Undoes(Drop(Index("missions", <<"user_id">>)), Create(Index("missions",
                    <<"user_id">>)),
                         middle, rest \cup Missions8, "none")
<1>. DEFINE t == "missions"
            req == MissionsColumns
            opt == {}
            m0 == Refers("missions", "user_id", "users")
            x1 == Index("missions", <<"user_id">>)
            m1 == m0 \cup x1
            what == Required("missions", MissionsColumns) \cup Refers("missions", "user_id", "users")
<1>1. Extras(m0, t) /\ Extras(m1, t) /\ Extras(x1, t)
  BY ExtraKinds, ExtrasTogether
<1>2. Ordinary(m0) /\ Ordinary(x1)
  BY OrdinaryKinds
<1>3. m0 \cap x1 = {}
  BY DEF Refers, Index
<1>4. "user_id" \in req \cup opt /\ req # {}
  BY DEF MissionsColumns
<1>5. Standing(m0, req \cup opt, rest)
  BY <1>4, KeyStands
<1>6. Standing(x1, req \cup opt, rest)
  BY <1>4, StandsOnOne
<1>7. what = Table(t, req, opt, m0)
  BY NoColumns DEF Table
<1>8. rest \cup Missions8 = rest \cup Table(t, req, opt, m1)
  BY DEF Missions8
<1>9. NoneOf(rest, t) /\ Unpointed(rest, t)
  OBVIOUS
<1>. HIDE DEF t, req, opt, m0, x1, m1, what
<1>10. Does(Create(what), rest, rest \cup Table(t, req, opt, m0), "none")
  BY <1>1, <1>2, <1>5, <1>7, <1>9, NewTable
<1>11. Undoes(Drop(x1), Create(x1), rest \cup Table(t, req, opt, m0), rest \cup Table(t, req, opt,
        m1), "none")
  BY <1>1, <1>2, <1>3, <1>6, <1>9, Thing DEF m1
<1>12. Does(DropTable(t), rest \cup Table(t, req, opt, m0), rest, "none")
  BY <1>1, <1>4, <1>9, DropTableDoes DEF Unpointed
<1>13. PICK middle : middle = rest \cup Table(t, req, opt, m0)
  OBVIOUS
<1>14. /\ Does(Create(what), rest, middle, "none") /\ Does(DropTable(t), middle, rest, "none")
       /\ Undoes(Drop(x1), Create(x1), middle, rest \cup Missions8, "none")
  BY <1>8, <1>10, <1>11, <1>12, <1>13
<1>. QED
  BY <1>14 DEF t, x1, what

LEMMA MissionOfSession ==
    ASSUME NEW rest, NoneOf(rest, "sessions"), <<"missions", <<"id">>, "required">> \in rest
    PROVE  \E a, b :
               /\ Undoes(DropColumn("sessions", "mission_id"), Create(Optional("sessions",
                    {"mission_id"})),
                         rest \cup Sessions3, a, "none")
               /\ Undoes(Drop(Index("sessions", <<"mission_id">>)), Create(Index("sessions",
                    <<"mission_id">>)),
                         a, b, "none")
               /\ Undoes(Drop(RefersOrNull("sessions", "mission_id", "missions")),
                         Create(RefersOrNull("sessions", "mission_id", "missions")), b, rest
                           \cup Sessions8, "none")
<1>. DEFINE t == "sessions"
            c == "mission_id"
            req == SessionsColumns
            o0 == {"scenario_id", "ended_at", "duration_minutes"}
            o1 == o0 \cup {c}
            m0 == Refers("sessions", "user_id", "users") \cup Unique("sessions", <<"room_name">>)
                      \cup Index("sessions", <<"user_id">>)
            x1 == Index("sessions", <<"mission_id">>)
            m1 == m0 \cup x1
            x2 == RefersOrNull("sessions", "mission_id", "missions")
            m2 == m1 \cup x2
<1>1. Extras(m0, t) /\ Extras(m1, t) /\ Extras(x1, t) /\ Extras(m2, t) /\ Extras(x2, t)
  BY ExtraKinds, ExtrasTogether
<1>2. Ordinary(x1) /\ Ordinary(x2)
  BY OrdinaryKinds
<1>3. m0 \cap x1 = {}
  BY DEF Refers, Index, Unique
<1>4. m1 \cap x2 = {}
  <2>. DEFINE y == <<"sessions", <<"mission_id", "missions">>, "set null">>
  <2>1. Within(Refers("sessions", "user_id", "users"), t, {"users"})
    BY KeyIsWithin
  <2>2. Within(Unique("sessions", <<"room_name">>), t, {"users"}) /\ Within(Index("sessions",
          <<"user_id">>), t, {"users"})
        /\ Within(x1, t, {"users"})
    BY WithinKinds
  <2>3. Within(m1, t, {"users"})
    BY <2>1, <2>2, WithinTogether
  <2>4. x2 = {y} /\ y[2] = <<"mission_id", "missions">> /\ y[3] = "set null"
    BY DEF RefersOrNull
  <2>5. y[2][2] \notin {"users"}
    BY <2>4
  <2>. HIDE DEF y, x2, m1
  <2>. QED
    BY <2>3, <2>4, <2>5 DEF Within, IsForeignKey
<1>5. c \in req \cup o1 /\ c \notin req /\ c \notin o0
  BY DEF SessionsColumns
<1>6. Free(Refers("sessions", "user_id", "users"), c)
  BY FreeOfKey
<1>7. Free(Unique("sessions", <<"room_name">>), c)
  BY FreeOfOne
<1>8. Free(Index("sessions", <<"user_id">>), c)
  BY FreeOfOne
<1>9. Free(m0, c)
  BY <1>6, <1>7, <1>8, FreeTogether
<1>10. Standing(x1, req \cup o1, rest)
  BY <1>5, StandsOnOne
<1>11. Standing(x2, req \cup o1, rest)
  BY <1>5, KeyStands
<1>12. rest \cup Sessions3 = rest \cup Table(t, req, o0, m0)
  BY DEF Sessions3
<1>13. rest \cup Sessions8 = rest \cup Table(t, req, o1, m2)
  BY DEF Sessions8
<1>14. NoneOf(rest, t)
  OBVIOUS
<1>. HIDE DEF t, c, req, o0, o1, m0, x1, m1, x2, m2
<1>15. Undoes(DropColumn(t, c), Create(Optional(t, {c})), rest \cup Table(t, req, o0, m0),
              rest \cup Table(t, req, o1, m0), "none")
  BY <1>1, <1>5, <1>9, <1>14, OptionalColumn DEF o1
<1>16. Undoes(Drop(x1), Create(x1), rest \cup Table(t, req, o1, m0), rest \cup Table(t, req, o1,
        m1), "none")
  BY <1>1, <1>2, <1>3, <1>10, <1>14, Thing DEF m1
<1>17. Undoes(Drop(x2), Create(x2), rest \cup Table(t, req, o1, m1), rest \cup Table(t, req, o1,
        m2), "none")
  BY <1>1, <1>2, <1>4, <1>11, <1>14, Thing DEF m2
<1>18. PICK a : a = rest \cup Table(t, req, o1, m0)
  OBVIOUS
<1>19. PICK b : b = rest \cup Table(t, req, o1, m1)
  OBVIOUS
<1>20. /\ Undoes(DropColumn(t, c), Create(Optional(t, {c})), rest \cup Sessions3, a, "none")
       /\ Undoes(Drop(x1), Create(x1), a, b, "none")
       /\ Undoes(Drop(x2), Create(x2), b, rest \cup Sessions8, "none")
  BY <1>12, <1>13, <1>15, <1>16, <1>17, <1>18, <1>19
<1>. QED
  BY <1>20 DEF t, c, x1, x2

LEMMA Turns_fb4423db1c92 ==
    ASSUME NEW rest, NoneOf(rest, "missions"), NoneOf(rest, "sessions"), Unpointed(rest, "missions"),
           <<"users", <<"id">>, "required">> \in rest
    PROVE  Turns(rev_fb4423db1c92, rest \cup Sessions3, rest \cup Missions8 \cup Sessions8, "none",
             "none")
<1>. DEFINE what == Required("missions", MissionsColumns) \cup Refers("missions", "user_id", "users")
            index == Index("missions", <<"user_id">>)
            column == Optional("sessions", {"mission_id"})
            index2 == Index("sessions", <<"mission_id">>)
            key == RefersOrNull("sessions", "mission_id", "missions")
            first == rest \cup Sessions3
            second == rest \cup Missions8
<1>1. NoneOf(first, "missions") /\ Unpointed(first, "missions")
        /\ <<"users", <<"id">>, "required">> \in first
  BY NoneWithin, UnpointedWithin, SessionsVersions
<1>2. PICK middle : /\ Does(Create(what), first, middle, "none") /\ Does(DropTable("missions"),
                        middle, first, "none")
                    /\ Undoes(Drop(index), Create(index), middle, first \cup Missions8, "none")
  <2>. HIDE DEF first
  <2>. QED
    BY <1>1, MissionsTable
<1>3. NoneOf(second, "sessions")
  BY NoneWithin, MissionsVersions
<1>4. <<"missions", <<"id">>, "required">> \in second
  <2>1. "id" \in MissionsColumns
    BY DEF MissionsColumns
  <2>. QED
    BY <2>1 DEF Missions8, Table, Required
<1>5. PICK a, b : /\ Undoes(DropColumn("sessions", "mission_id"), Create(column), second
                      \cup Sessions3, a, "none")
                  /\ Undoes(Drop(index2), Create(index2), a, b, "none")
                  /\ Undoes(Drop(key), Create(key), b, second \cup Sessions8, "none")
  <2>. HIDE DEF second
  <2>. QED
    BY <1>3, <1>4, MissionOfSession
<1>6. first \cup Missions8 = second \cup Sessions3
  OBVIOUS
<1>7. rev_fb4423db1c92
        = Script(<<Create(what), Create(index), Create(column), Create(index2), Create(key)>>,
                 <<Drop(key), Drop(index2), DropColumn("sessions", "mission_id"), Drop(index),
                   DropTable("missions")>>)
  BY DEF rev_fb4423db1c92, MissionsColumns
<1>8. first = rest \cup Sessions3 /\ second \cup Sessions8 = rest \cup Missions8 \cup Sessions8
  OBVIOUS
<1>. HIDE DEF what, index, column, index2, key, first, second
<1>9. Leads(<<Create(what), Create(index), Create(column), Create(index2), Create(key)>>,
            first, second \cup Sessions8, "none")
  BY <1>2, <1>5, <1>6, Leads5 DEF Undoes
<1>10. Leads(<<Drop(key), Drop(index2), DropColumn("sessions", "mission_id"), Drop(index),
        DropTable("missions")>>,
             second \cup Sessions8, first, "none")
  BY <1>2, <1>5, <1>6, Leads5 DEF Undoes
<1>. QED
  BY <1>7, <1>8, <1>9, <1>10, TurnsAre

\* The revision that adds an index to each of two tables.
LEMMA ExpiryIndex ==
    ASSUME NEW rest, NoneOf(rest, "refresh_tokens")
    PROVE  Undoes(Drop(Index("refresh_tokens", <<"expires_at">>)), Create(Index("refresh_tokens",
             <<"expires_at">>)),
                  rest \cup Refreshes4, rest \cup Refreshes21, "none")
<1>. DEFINE t == "refresh_tokens"
            req == RefreshesColumns
            opt == {"revoked_at"}
            m0 == Refers("refresh_tokens", "user_id", "users") \cup Unique("refresh_tokens",
              <<"token_hash">>)
                      \cup Index("refresh_tokens", <<"user_id">>)
            x == Index("refresh_tokens", <<"expires_at">>)
<1>1. Extras(m0, t) /\ Extras(x, t)
  BY ExtraKinds, ExtrasTogether
<1>2. Ordinary(x)
  BY OrdinaryKinds
<1>3. m0 \cap x = {}
  BY DEF Refers, Index, Unique
<1>4. "expires_at" \in req \cup opt
  BY DEF RefreshesColumns
<1>5. Standing(x, req \cup opt, rest)
  BY <1>4, StandsOnOne
<1>6. rest \cup Refreshes4 = rest \cup Table(t, req, opt, m0)
  BY DEF Refreshes4
<1>7. rest \cup Refreshes21 = rest \cup Table(t, req, opt, m0 \cup x)
  BY DEF Refreshes21
<1>. HIDE DEF t, req, opt, m0, x
<1>8. Undoes(Drop(x), Create(x), rest \cup Table(t, req, opt, m0), rest \cup Table(t, req, opt,
        m0 \cup x), "none")
  BY <1>1, <1>2, <1>3, <1>5, Thing DEF t
<1>. QED
  BY <1>6, <1>7, <1>8 DEF x

LEMMA KeyAgeIndex ==
    ASSUME NEW rest, NoneOf(rest, "idempotency_keys")
    PROVE  Undoes(Drop(Index("idempotency_keys", <<"created_at">>)),
             Create(Index("idempotency_keys", <<"created_at">>)),
                  rest \cup Keys17, rest \cup Keys21, "none")
<1>. DEFINE t == "idempotency_keys"
            req == KeysColumns \ {"response"}
            opt == {} \cup {"response"}
            m0 == Refers("idempotency_keys", "user_id", "users") \cup Unique("idempotency_keys",
              <<"user_id", "key">>)
                      \cup Index("idempotency_keys", <<"user_id">>)
            x == Index("idempotency_keys", <<"created_at">>)
<1>1. Extras(m0, t) /\ Extras(x, t)
  BY ExtraKinds, ExtrasTogether
<1>2. Ordinary(x)
  BY OrdinaryKinds
<1>3. m0 \cap x = {}
  BY DEF Refers, Index, Unique
<1>4. "created_at" \in req \cup opt
  BY DEF KeysColumns
<1>5. Standing(x, req \cup opt, rest)
  BY <1>4, StandsOnOne
<1>6. rest \cup Keys17 = rest \cup Table(t, req, opt, m0)
  BY DEF Keys17
<1>7. rest \cup Keys21 = rest \cup Table(t, req, opt, m0 \cup x)
  BY DEF Keys21
<1>. HIDE DEF t, req, opt, m0, x
<1>8. Undoes(Drop(x), Create(x), rest \cup Table(t, req, opt, m0), rest \cup Table(t, req, opt,
        m0 \cup x), "none")
  BY <1>1, <1>2, <1>3, <1>5, Thing DEF t
<1>. QED
  BY <1>6, <1>7, <1>8 DEF x

LEMMA Turns_1a2b3c4d5e6f ==
    ASSUME NEW rest, NoneOf(rest, "refresh_tokens"), NoneOf(rest, "idempotency_keys")
    PROVE  Turns(rev_1a2b3c4d5e6f, rest \cup Refreshes4 \cup Keys17, rest \cup Refreshes21
             \cup Keys21, "none", "none")
<1>. DEFINE expiry == Index("refresh_tokens", <<"expires_at">>)
            age == Index("idempotency_keys", <<"created_at">>)
            first == rest \cup Keys17
            second == rest \cup Refreshes21
<1>1. NoneOf(first, "refresh_tokens")
  BY NoneWithin, KeysVersions
<1>2. NoneOf(second, "idempotency_keys")
  BY NoneWithin, RefreshesVersions
<1>3. Undoes(Drop(expiry), Create(expiry), first \cup Refreshes4, first \cup Refreshes21, "none")
  <2>. HIDE DEF first
  <2>. QED
    BY <1>1, ExpiryIndex
<1>4. Undoes(Drop(age), Create(age), second \cup Keys17, second \cup Keys21, "none")
  <2>. HIDE DEF second
  <2>. QED
    BY <1>2, KeyAgeIndex
<1>5. /\ first \cup Refreshes21 = second \cup Keys17
      /\ first \cup Refreshes4 = rest \cup Refreshes4 \cup Keys17
      /\ second \cup Keys21 = rest \cup Refreshes21 \cup Keys21
  OBVIOUS
<1>6. rev_1a2b3c4d5e6f = Script(<<Create(expiry), Create(age)>>, <<Drop(age), Drop(expiry)>>)
  BY DEF rev_1a2b3c4d5e6f
<1>. HIDE DEF expiry, age, first, second
<1>7. Leads(<<Create(expiry), Create(age)>>, first \cup Refreshes4, second \cup Keys21, "none")
  BY <1>3, <1>4, <1>5, Leads2 DEF Undoes
<1>8. Leads(<<Drop(age), Drop(expiry)>>, second \cup Keys21, first \cup Refreshes4, "none")
  BY <1>3, <1>4, <1>5, Leads2 DEF Undoes
<1>. QED
  BY <1>5, <1>6, <1>7, <1>8, TurnsAre

----------------------------------------------------------------------------
(* The migrations: the schema at every revision                            *)

\* Each table after the first k revisions.
UsersAt(k) == IF k < 1 THEN {} ELSE IF k < 9 THEN Users1 ELSE IF k < 13 THEN Users9 ELSE IF k < 19
    THEN Users13 ELSE IF k < 20 THEN Users19 ELSE IF k < 27 THEN Users20 ELSE Users27
ProfilesAt(k) == IF k < 2 THEN {} ELSE IF k < 7 THEN Profiles2 ELSE Profiles7
SessionsAt(k) == IF k < 3 THEN {} ELSE IF k < 8 THEN Sessions3 ELSE IF k < 10 THEN Sessions8 ELSE IF
    k < 22 THEN Sessions10 ELSE IF k < 25 THEN Sessions22 ELSE IF k < 26 THEN Sessions25 ELSE
    Sessions26
RefreshesAt(k) == IF k < 4 THEN {} ELSE IF k < 21 THEN Refreshes4 ELSE Refreshes21
TranscriptsAt(k) == IF k < 5 THEN {} ELSE Transcripts5
DebriefsAt(k) == IF k < 6 THEN {} ELSE Debriefs6
MissionsAt(k) == IF k < 8 THEN {} ELSE Missions8
VocabularyAt(k) == IF k < 11 THEN {} ELSE IF k < 24 THEN Vocabulary11 ELSE Vocabulary24
ReviewsAt(k) == IF k < 12 THEN {} ELSE IF k < 23 THEN Reviews12 ELSE Reviews23
ConsentsAt(k) == IF k < 14 THEN {} ELSE Consents14
KeysAt(k) == IF k < 15 THEN {} ELSE IF k < 17 THEN Keys15 ELSE IF k < 21 THEN Keys17 ELSE Keys21
EventsAt(k) == IF k < 16 THEN {} ELSE IF k < 18 THEN Events16 ELSE Events18

TableNames == {"users", "learner_profiles", "sessions", "refresh_tokens", "transcripts", "debriefs",
               "missions", "vocabulary_entries", "review_items", "voice_consents",
                 "idempotency_keys", "analytics_events"}
At(t, k) ==
    CASE t = "users" -> UsersAt(k)
      [] t = "learner_profiles" -> ProfilesAt(k)
      [] t = "sessions" -> SessionsAt(k)
      [] t = "refresh_tokens" -> RefreshesAt(k)
      [] t = "transcripts" -> TranscriptsAt(k)
      [] t = "debriefs" -> DebriefsAt(k)
      [] t = "missions" -> MissionsAt(k)
      [] t = "vocabulary_entries" -> VocabularyAt(k)
      [] t = "review_items" -> ReviewsAt(k)
      [] t = "voice_consents" -> ConsentsAt(k)
      [] t = "idempotency_keys" -> KeysAt(k)
      [] t = "analytics_events" -> EventsAt(k)

\* The revisions that change a table.
Changes(t) ==
    CASE t = "users" -> {1, 9, 13, 19, 20, 27}
      [] t = "learner_profiles" -> {2, 7}
      [] t = "sessions" -> {3, 8, 10, 22, 25, 26}
      [] t = "refresh_tokens" -> {4, 21}
      [] t = "transcripts" -> {5}
      [] t = "debriefs" -> {6}
      [] t = "missions" -> {8}
      [] t = "vocabulary_entries" -> {11, 24}
      [] t = "review_items" -> {12, 23}
      [] t = "voice_consents" -> {14}
      [] t = "idempotency_keys" -> {15, 17, 21}
      [] t = "analytics_events" -> {16, 18}

SchemaOf(k) == UNION {At(t, k) : t \in TableNames}
Others(ts, k) == UNION {At(t, k) : t \in TableNames \ ts}

LEMMA AtEach ==
    ASSUME NEW k
    PROVE  /\ At("users", k) = UsersAt(k)
           /\ At("learner_profiles", k) = ProfilesAt(k)
           /\ At("sessions", k) = SessionsAt(k)
           /\ At("refresh_tokens", k) = RefreshesAt(k)
           /\ At("transcripts", k) = TranscriptsAt(k)
           /\ At("debriefs", k) = DebriefsAt(k)
           /\ At("missions", k) = MissionsAt(k)
           /\ At("vocabulary_entries", k) = VocabularyAt(k)
           /\ At("review_items", k) = ReviewsAt(k)
           /\ At("voice_consents", k) = ConsentsAt(k)
           /\ At("idempotency_keys", k) = KeysAt(k)
           /\ At("analytics_events", k) = EventsAt(k)
  BY DEF At

LEMMA ChangesEach ==
    /\ Changes("users") = {1, 9, 13, 19, 20, 27}
    /\ Changes("learner_profiles") = {2, 7}
    /\ Changes("sessions") = {3, 8, 10, 22, 25, 26}
    /\ Changes("refresh_tokens") = {4, 21}
    /\ Changes("transcripts") = {5}
    /\ Changes("debriefs") = {6}
    /\ Changes("missions") = {8}
    /\ Changes("vocabulary_entries") = {11, 24}
    /\ Changes("review_items") = {12, 23}
    /\ Changes("voice_consents") = {14}
    /\ Changes("idempotency_keys") = {15, 17, 21}
    /\ Changes("analytics_events") = {16, 18}
  BY DEF Changes

LEMMA Unchanged ==
    ASSUME NEW k \in 1..27, NEW t \in TableNames, k \notin Changes(t)
    PROVE  At(t, k) = At(t, k - 1)
<1>1. CASE t = "users"
  <2>1. k # 1 /\ k # 9 /\ k # 13 /\ k # 19 /\ k # 20 /\ k # 27
    BY <1>1, ChangesEach
  <2>2. UsersAt(k) = UsersAt(k - 1)
    BY <2>1 DEF UsersAt
  <2>3. At(t, k) = UsersAt(k) /\ At(t, k - 1) = UsersAt(k - 1)
    BY <1>1, AtEach
  <2>. QED
    BY <2>2, <2>3
<1>2. CASE t = "learner_profiles"
  <2>1. k # 2 /\ k # 7
    BY <1>2, ChangesEach
  <2>2. ProfilesAt(k) = ProfilesAt(k - 1)
    BY <2>1 DEF ProfilesAt
  <2>3. At(t, k) = ProfilesAt(k) /\ At(t, k - 1) = ProfilesAt(k - 1)
    BY <1>2, AtEach
  <2>. QED
    BY <2>2, <2>3
<1>3. CASE t = "sessions"
  <2>1. k # 3 /\ k # 8 /\ k # 10 /\ k # 22 /\ k # 25 /\ k # 26
    BY <1>3, ChangesEach
  <2>2. SessionsAt(k) = SessionsAt(k - 1)
    BY <2>1 DEF SessionsAt
  <2>3. At(t, k) = SessionsAt(k) /\ At(t, k - 1) = SessionsAt(k - 1)
    BY <1>3, AtEach
  <2>. QED
    BY <2>2, <2>3
<1>4. CASE t = "refresh_tokens"
  <2>1. k # 4 /\ k # 21
    BY <1>4, ChangesEach
  <2>2. RefreshesAt(k) = RefreshesAt(k - 1)
    BY <2>1 DEF RefreshesAt
  <2>3. At(t, k) = RefreshesAt(k) /\ At(t, k - 1) = RefreshesAt(k - 1)
    BY <1>4, AtEach
  <2>. QED
    BY <2>2, <2>3
<1>5. CASE t = "transcripts"
  <2>1. k # 5
    BY <1>5, ChangesEach
  <2>2. TranscriptsAt(k) = TranscriptsAt(k - 1)
    BY <2>1 DEF TranscriptsAt
  <2>3. At(t, k) = TranscriptsAt(k) /\ At(t, k - 1) = TranscriptsAt(k - 1)
    BY <1>5, AtEach
  <2>. QED
    BY <2>2, <2>3
<1>6. CASE t = "debriefs"
  <2>1. k # 6
    BY <1>6, ChangesEach
  <2>2. DebriefsAt(k) = DebriefsAt(k - 1)
    BY <2>1 DEF DebriefsAt
  <2>3. At(t, k) = DebriefsAt(k) /\ At(t, k - 1) = DebriefsAt(k - 1)
    BY <1>6, AtEach
  <2>. QED
    BY <2>2, <2>3
<1>7. CASE t = "missions"
  <2>1. k # 8
    BY <1>7, ChangesEach
  <2>2. MissionsAt(k) = MissionsAt(k - 1)
    BY <2>1 DEF MissionsAt
  <2>3. At(t, k) = MissionsAt(k) /\ At(t, k - 1) = MissionsAt(k - 1)
    BY <1>7, AtEach
  <2>. QED
    BY <2>2, <2>3
<1>8. CASE t = "vocabulary_entries"
  <2>1. k # 11 /\ k # 24
    BY <1>8, ChangesEach
  <2>2. VocabularyAt(k) = VocabularyAt(k - 1)
    BY <2>1 DEF VocabularyAt
  <2>3. At(t, k) = VocabularyAt(k) /\ At(t, k - 1) = VocabularyAt(k - 1)
    BY <1>8, AtEach
  <2>. QED
    BY <2>2, <2>3
<1>9. CASE t = "review_items"
  <2>1. k # 12 /\ k # 23
    BY <1>9, ChangesEach
  <2>2. ReviewsAt(k) = ReviewsAt(k - 1)
    BY <2>1 DEF ReviewsAt
  <2>3. At(t, k) = ReviewsAt(k) /\ At(t, k - 1) = ReviewsAt(k - 1)
    BY <1>9, AtEach
  <2>. QED
    BY <2>2, <2>3
<1>10. CASE t = "voice_consents"
  <2>1. k # 14
    BY <1>10, ChangesEach
  <2>2. ConsentsAt(k) = ConsentsAt(k - 1)
    BY <2>1 DEF ConsentsAt
  <2>3. At(t, k) = ConsentsAt(k) /\ At(t, k - 1) = ConsentsAt(k - 1)
    BY <1>10, AtEach
  <2>. QED
    BY <2>2, <2>3
<1>11. CASE t = "idempotency_keys"
  <2>1. k # 15 /\ k # 17 /\ k # 21
    BY <1>11, ChangesEach
  <2>2. KeysAt(k) = KeysAt(k - 1)
    BY <2>1 DEF KeysAt
  <2>3. At(t, k) = KeysAt(k) /\ At(t, k - 1) = KeysAt(k - 1)
    BY <1>11, AtEach
  <2>. QED
    BY <2>2, <2>3
<1>12. CASE t = "analytics_events"
  <2>1. k # 16 /\ k # 18
    BY <1>12, ChangesEach
  <2>2. EventsAt(k) = EventsAt(k - 1)
    BY <2>1 DEF EventsAt
  <2>3. At(t, k) = EventsAt(k) /\ At(t, k - 1) = EventsAt(k - 1)
    BY <1>12, AtEach
  <2>. QED
    BY <2>2, <2>3
<1>. QED
  BY <1>1, <1>2, <1>3, <1>4, <1>5, <1>6, <1>7, <1>8, <1>9, <1>10, <1>11, <1>12 DEF TableNames

\* Each table has its own name, and points at three others at most.
LEMMA AtIsWithin ==
    ASSUME NEW k \in 0..27, NEW t \in TableNames
    PROVE  Within(At(t, k), t, {"users", "sessions", "missions"})
<1>1. \A part, targets : Within(part, t, targets) /\ targets \subseteq {"users", "sessions", "missions"}
                             => Within(part, t, {"users", "sessions", "missions"})
  BY DEF Within
<1>2. Within({}, t, {})
  BY DEF Within
<1>3. CASE t = "users"
  <2>1. At(t, k) = {} \/ At(t, k) = Users1 \/ At(t, k) = Users9 \/ At(t, k) = Users13 \/ At(t,
          k) = Users19 \/ At(t, k) = Users20 \/ At(t, k) = Users27
    BY <1>3, AtEach DEF UsersAt
  <2>. QED
    BY <1>1, <1>2, <1>3, <2>1, UsersVersions
<1>4. CASE t = "learner_profiles"
  <2>1. At(t, k) = {} \/ At(t, k) = Profiles2 \/ At(t, k) = Profiles7
    BY <1>4, AtEach DEF ProfilesAt
  <2>. QED
    BY <1>1, <1>2, <1>4, <2>1, ProfilesVersions
<1>5. CASE t = "sessions"
  <2>1. At(t, k) = {} \/ At(t, k) = Sessions3 \/ At(t, k) = Sessions8 \/ At(t, k) = Sessions10
          \/ At(t, k) = Sessions22 \/ At(t, k) = Sessions25 \/ At(t, k) = Sessions26
    BY <1>5, AtEach DEF SessionsAt
  <2>. QED
    BY <1>1, <1>2, <1>5, <2>1, SessionsVersions
<1>6. CASE t = "refresh_tokens"
  <2>1. At(t, k) = {} \/ At(t, k) = Refreshes4 \/ At(t, k) = Refreshes21
    BY <1>6, AtEach DEF RefreshesAt
  <2>. QED
    BY <1>1, <1>2, <1>6, <2>1, RefreshesVersions
<1>7. CASE t = "transcripts"
  <2>1. At(t, k) = {} \/ At(t, k) = Transcripts5
    BY <1>7, AtEach DEF TranscriptsAt
  <2>. QED
    BY <1>1, <1>2, <1>7, <2>1, TranscriptsVersions
<1>8. CASE t = "debriefs"
  <2>1. At(t, k) = {} \/ At(t, k) = Debriefs6
    BY <1>8, AtEach DEF DebriefsAt
  <2>. QED
    BY <1>1, <1>2, <1>8, <2>1, DebriefsVersions
<1>9. CASE t = "missions"
  <2>1. At(t, k) = {} \/ At(t, k) = Missions8
    BY <1>9, AtEach DEF MissionsAt
  <2>. QED
    BY <1>1, <1>2, <1>9, <2>1, MissionsVersions
<1>10. CASE t = "vocabulary_entries"
  <2>1. At(t, k) = {} \/ At(t, k) = Vocabulary11 \/ At(t, k) = Vocabulary24
    BY <1>10, AtEach DEF VocabularyAt
  <2>. QED
    BY <1>1, <1>2, <1>10, <2>1, VocabularyVersions
<1>11. CASE t = "review_items"
  <2>1. At(t, k) = {} \/ At(t, k) = Reviews12 \/ At(t, k) = Reviews23
    BY <1>11, AtEach DEF ReviewsAt
  <2>. QED
    BY <1>1, <1>2, <1>11, <2>1, ReviewsVersions
<1>12. CASE t = "voice_consents"
  <2>1. At(t, k) = {} \/ At(t, k) = Consents14
    BY <1>12, AtEach DEF ConsentsAt
  <2>. QED
    BY <1>1, <1>2, <1>12, <2>1, ConsentsVersions
<1>13. CASE t = "idempotency_keys"
  <2>1. At(t, k) = {} \/ At(t, k) = Keys15 \/ At(t, k) = Keys17 \/ At(t, k) = Keys21
    BY <1>13, AtEach DEF KeysAt
  <2>. QED
    BY <1>1, <1>2, <1>13, <2>1, KeysVersions
<1>14. CASE t = "analytics_events"
  <2>1. At(t, k) = {} \/ At(t, k) = Events16 \/ At(t, k) = Events18
    BY <1>14, AtEach DEF EventsAt
  <2>. QED
    BY <1>1, <1>2, <1>14, <2>1, EventsVersions
<1>. QED
  BY <1>3, <1>4, <1>5, <1>6, <1>7, <1>8, <1>9, <1>10, <1>11, <1>12, <1>13, <1>14 DEF TableNames

LEMMA IdsThere ==
    ASSUME NEW k \in 0..27
    PROVE  /\ k >= 1 => <<"users", <<"id">>, "required">> \in At("users", k)
           /\ k >= 3 => <<"sessions", <<"id">>, "required">> \in At("sessions", k)
<1>1. \A t, req, opt, more : "id" \in req => <<t, <<"id">>, "required">> \in Table(t, req, opt, more)
  BY DEF Table, Required
<1>2. "id" \in UsersColumns /\ "id" \in SessionsColumns
  BY DEF UsersColumns, SessionsColumns
<1>3. \A part \in {Users1, Users9, Users13, Users19, Users20,
        Users27} : <<"users", <<"id">>, "required">> \in part
  BY <1>1, <1>2 DEF Users1, Users9, Users13, Users19, Users20, Users27
<1>4. \A part \in {Sessions3, Sessions8, Sessions10, Sessions22, Sessions25,
        Sessions26} : <<"sessions", <<"id">>, "required">> \in part
  BY <1>1, <1>2 DEF Sessions3, Sessions8, Sessions10, Sessions22, Sessions25, Sessions26
<1>5. k >= 1 => At("users", k) \in {Users1, Users9, Users13, Users19, Users20, Users27}
  BY AtEach DEF UsersAt
<1>6. k >= 3 => At("sessions", k) \in {Sessions3, Sessions8, Sessions10, Sessions22, Sessions25,
        Sessions26}
  BY AtEach DEF SessionsAt
<1>. QED
  BY <1>3, <1>4, <1>5, <1>6

\* What a revision that changes these tables finds around them.
Around(ts, k, rest) ==
    /\ SchemaOf(k - 1) = rest \cup UNION {At(t, k - 1) : t \in ts}
    /\ SchemaOf(k) = rest \cup UNION {At(t, k) : t \in ts}
    /\ \A t \in ts : NoneOf(rest, t) /\ (t \notin {"users", "sessions", "missions"}
         => Unpointed(rest, t))
    /\ k >= 1 /\ "users" \notin ts => <<"users", <<"id">>, "required">> \in rest
    /\ k >= 3 /\ "sessions" \notin ts => <<"sessions", <<"id">>, "required">> \in rest

LEMMA OthersAreAround ==
    ASSUME NEW k \in 1..27, NEW ts \in SUBSET TableNames, \A t \in TableNames \ ts : k \notin Changes(t)
    PROVE  Around(ts, k, Others(ts, k))
<1>. DEFINE rest == Others(ts, k)
<1>1. SchemaOf(k) = rest \cup UNION {At(t, k) : t \in ts}
  BY DEF SchemaOf, Others
<1>2. \A t \in TableNames \ ts : At(t, k) = At(t, k - 1)
  BY Unchanged
<1>3. Others(ts, k) = Others(ts, k - 1)
  BY <1>2 DEF Others
<1>4. SchemaOf(k - 1) = Others(ts, k - 1) \cup UNION {At(t, k - 1) : t \in ts}
  BY DEF SchemaOf, Others
<1>5. \A t \in TableNames : Within(At(t, k), t, {"users", "sessions", "missions"})
  BY AtIsWithin
<1>6. ASSUME NEW x \in rest
      PROVE  \E u \in TableNames \ ts : x[1] = u /\ (IsForeignKey(x) => x[2][2] \in {"users",
               "sessions", "missions"})
  <2>1. PICK u \in TableNames \ ts : x \in At(u, k)
    BY <1>6 DEF Others
  <2>2. Within(At(u, k), u, {"users", "sessions", "missions"})
    BY <1>5
  <2>. QED
    BY <2>1, <2>2 DEF Within
<1>7. \A t \in ts : NoneOf(rest, t)
  <2>. HIDE DEF rest
  <2>. QED
    BY <1>6 DEF NoneOf
<1>8. \A t \in ts : t \notin {"users", "sessions", "missions"} => Unpointed(rest, t)
  <2>. HIDE DEF rest
  <2>. QED
    BY <1>6 DEF Unpointed
<1>9. "users" \in TableNames /\ "sessions" \in TableNames
  BY DEF TableNames
<1>10. "users" \notin ts => <<"users", <<"id">>, "required">> \in rest
  <2>1. <<"users", <<"id">>, "required">> \in At("users", k)
    BY IdsThere
  <2>. QED
    BY <1>9, <2>1 DEF Others
<1>11. k >= 3 /\ "sessions" \notin ts => <<"sessions", <<"id">>, "required">> \in rest
  <2>1. k >= 3 => <<"sessions", <<"id">>, "required">> \in At("sessions", k)
    BY IdsThere
  <2>. QED
    BY <1>9, <2>1 DEF Others
<1>. HIDE DEF rest
<1>12. SchemaOf(k - 1) = rest \cup UNION {At(t, k - 1) : t \in ts}
  BY <1>3, <1>4 DEF rest
<1>13. Around(ts, k, rest)
  BY <1>1, <1>7, <1>8, <1>10, <1>11, <1>12 DEF Around
<1>. QED
  BY <1>13 DEF rest

LEMMA OthersAreAroundOne ==
    ASSUME NEW k \in 1..27, NEW t \in TableNames, \A u \in TableNames \ {t} : k \notin Changes(u)
    PROVE  \E rest :
               /\ SchemaOf(k - 1) = rest \cup At(t, k - 1) /\ SchemaOf(k) = rest \cup At(t, k)
               /\ rest = Others({t}, k) /\ Around({t}, k, rest)
<1>1. PICK rest : rest = Others({t}, k)
  OBVIOUS
<1>2. Around({t}, k, rest)
  BY <1>1, OthersAreAround
<1>3. UNION {At(u, k - 1) : u \in {t}} = At(t, k - 1) /\ UNION {At(u, k) : u \in {t}} = At(t, k)
  OBVIOUS
<1>4. SchemaOf(k - 1) = rest \cup At(t, k - 1) /\ SchemaOf(k) = rest \cup At(t, k)
  BY <1>2, <1>3 DEF Around
<1>. QED
  BY <1>1, <1>2, <1>4

----------------------------------------------------------------------------
(* The migrations: the schemas that each revision leads between            *)

\* What the upgrade and the downgrade of a revision need of the rows.
UpNeed(k) == IF k = 19 THEN "one account" ELSE "none"
DownNeed(k) == IF k = 22 THEN "no sessions" ELSE "none"

\* The revision at this place leads from the schema before it to the one after, and back.
Turning(k) == Turns(Revisions[k], SchemaOf(k - 1), SchemaOf(k), UpNeed(k), DownNeed(k))

LEMMA RevisionsInOrder ==
    /\ Revisions[1] = rev_fed9f2ac9d04
    /\ Revisions[2] = rev_c680843e1e0a
    /\ Revisions[3] = rev_4c4cd5d33301
    /\ Revisions[4] = rev_a580567ea83a
    /\ Revisions[5] = rev_1aca44166335
    /\ Revisions[6] = rev_ba64d112828d
    /\ Revisions[7] = rev_f3a4b2c1d0e9
    /\ Revisions[8] = rev_fb4423db1c92
    /\ Revisions[9] = rev_02cf10ba6ab7
    /\ Revisions[10] = rev_fc233850563a
    /\ Revisions[11] = rev_a1b2c3d4e5f6
    /\ Revisions[12] = rev_b2c3d4e5f6a7
    /\ Revisions[13] = rev_c3d4e5f6a7b8
    /\ Revisions[14] = rev_d4e5f6a7b8c9
    /\ Revisions[15] = rev_e5f6a7b8c9d0
    /\ Revisions[16] = rev_f6a7b8c9d0e1
    /\ Revisions[17] = rev_a7b8c9d0e1f2
    /\ Revisions[18] = rev_b8c9d0e1f2a3
    /\ Revisions[19] = rev_c1d2e3f4a5b6
    /\ Revisions[20] = rev_d2e3f4a5b6c7
    /\ Revisions[21] = rev_1a2b3c4d5e6f
    /\ Revisions[22] = rev_f2a1b0c9d8e7
    /\ Revisions[23] = rev_eea2e957ec48
    /\ Revisions[24] = rev_b9ee2fa53721
    /\ Revisions[25] = rev_22c153382454
    /\ Revisions[26] = rev_a4b5c6d7e8f9
    /\ Revisions[27] = rev_b5c6d7e8f9a0
  BY DEF Revisions

\* When the users, the sessions and the missions arrive, nothing points at them yet.
LEMMA NoneBefore ==
    ASSUME NEW u
    PROVE  Unpointed({}, u) /\ NoneOf({}, u)
  BY DEF Unpointed, NoneOf

LEMMA FirstOthers == Others({"users"}, 1) = {}
<1>1. \A u \in TableNames \ {"users"} : At(u, 1) = {}
  BY AtEach DEF TableNames, UsersAt, ProfilesAt, SessionsAt, RefreshesAt, TranscriptsAt,
       DebriefsAt, MissionsAt, VocabularyAt, ReviewsAt, ConsentsAt, KeysAt, EventsAt
<1>. QED
  BY <1>1 DEF Others

LEMMA PointedBySessions == Unpointed(Others({"sessions"}, 3), "sessions")
<1>1. \A u \in TableNames \ {"users", "learner_profiles", "sessions"} : At(u, 3) = {}
  BY AtEach DEF TableNames, UsersAt, ProfilesAt, SessionsAt, RefreshesAt, TranscriptsAt,
       DebriefsAt, MissionsAt, VocabularyAt, ReviewsAt, ConsentsAt, KeysAt, EventsAt
<1>2. At("users", 3) = Users1 /\ At("learner_profiles", 3) = Profiles2
  BY AtEach DEF UsersAt, ProfilesAt
<1>3. Within(Users1, "users", {}) /\ Within(Profiles2, "learner_profiles", {"users"})
  BY UsersVersions, ProfilesVersions
<1>4. ASSUME NEW x \in Others({"sessions"}, 3), IsForeignKey(x) PROVE x[2][2] # "sessions"
  <2>1. PICK u \in TableNames \ {"sessions"} : x \in At(u, 3)
    BY <1>4 DEF Others
  <2>2. u = "users" \/ u = "learner_profiles"
    BY <1>1, <2>1
  <2>3. x \in Users1 \/ x \in Profiles2
    BY <1>2, <2>1, <2>2
  <2>. QED
    BY <1>3, <1>4, <2>3 DEF Within
<1>. QED
  BY <1>4 DEF Unpointed

LEMMA PointedByMissions == Unpointed(Others({"missions", "sessions"}, 8), "missions")
<1>. DEFINE there == {"users", "learner_profiles", "refresh_tokens", "transcripts", "debriefs"}
<1>1. \A u \in TableNames \ (there \cup {"missions", "sessions"}) : At(u, 8) = {}
  BY AtEach DEF TableNames, UsersAt, ProfilesAt, SessionsAt, RefreshesAt, TranscriptsAt,
       DebriefsAt, MissionsAt, VocabularyAt, ReviewsAt, ConsentsAt, KeysAt, EventsAt
<1>2. /\ At("users", 8) = Users1 /\ At("learner_profiles", 8) = Profiles7 /\ At("refresh_tokens",
           8) = Refreshes4
      /\ At("transcripts", 8) = Transcripts5 /\ At("debriefs", 8) = Debriefs6
  BY AtEach DEF UsersAt, ProfilesAt, RefreshesAt, TranscriptsAt, DebriefsAt
<1>3. /\ Within(Users1, "users", {}) /\ Within(Profiles7, "learner_profiles", {"users"})
      /\ Within(Refreshes4, "refresh_tokens", {"users"}) /\ Within(Transcripts5, "transcripts",
           {"sessions"})
      /\ Within(Debriefs6, "debriefs", {"sessions"})
  BY UsersVersions, ProfilesVersions, RefreshesVersions, TranscriptsVersions, DebriefsVersions
<1>4. ASSUME NEW x \in Others({"missions", "sessions"}, 8), IsForeignKey(x) PROVE x[2][2] # "missions"
  <2>1. PICK u \in TableNames \ {"missions", "sessions"} : x \in At(u, 8)
    BY <1>4 DEF Others
  <2>2. u \in there
    BY <1>1, <2>1
  <2>3. x \in Users1 \/ x \in Profiles7 \/ x \in Refreshes4 \/ x \in Transcripts5 \/ x \in Debriefs6
    BY <1>2, <2>1, <2>2
  <2>. QED
    BY <1>3, <1>4, <2>3 DEF Within
<1>. QED
  BY <1>4 DEF Unpointed

LEMMA Turning_fed9f2ac9d04 == Turning(1)
<1>1. 1 \in 1..27 /\ 1 - 1 = 0 /\ "users" \in TableNames
  BY DEF TableNames
<1>2. \A u \in TableNames \ {"users"} : 1 \notin Changes(u)
  BY ChangesEach DEF TableNames
<1>3. PICK rest : /\ SchemaOf(0) = rest \cup At("users", 0) /\ SchemaOf(1) = rest \cup At("users", 1)
                  /\ rest = Others({"users"}, 1) /\ Around({"users"}, 1, rest)
  BY <1>1, <1>2, OthersAreAroundOne
<1>4. NoneOf(rest, "users") /\ Unpointed(rest, "users")
  BY <1>3, FirstOthers, NoneBefore
<1>5. At("users", 0) = {} /\ At("users", 1) = Users1
  BY AtEach DEF UsersAt
<1>6. Turns(rev_fed9f2ac9d04, rest, rest \cup Users1, "none", "none")
  BY <1>4, Turns_fed9f2ac9d04
<1>7. SchemaOf(0) = rest /\ SchemaOf(1) = rest \cup Users1
  BY <1>3, <1>5
<1>8. UpNeed(1) = "none" /\ DownNeed(1) = "none"
  BY DEF UpNeed, DownNeed
<1>. QED
  BY <1>1, <1>6, <1>7, <1>8, RevisionsInOrder DEF Turning

LEMMA Turning_c680843e1e0a == Turning(2)
<1>1. 2 \in 1..27 /\ 2 - 1 = 1 /\ "learner_profiles" \in TableNames
  BY DEF TableNames
<1>2. \A u \in TableNames \ {"learner_profiles"} : 2 \notin Changes(u)
  BY ChangesEach DEF TableNames
<1>3. PICK rest : /\ SchemaOf(1) = rest \cup At("learner_profiles", 1) /\ SchemaOf(2) = rest
                      \cup At("learner_profiles", 2)
                  /\ rest = Others({"learner_profiles"}, 2) /\ Around({"learner_profiles"}, 2, rest)
  BY <1>1, <1>2, OthersAreAroundOne
<1>4. NoneOf(rest, "learner_profiles") /\ Unpointed(rest, "learner_profiles")
        /\ <<"users", <<"id">>, "required">> \in rest
  BY <1>3 DEF Around
<1>5. At("learner_profiles", 1) = {} /\ At("learner_profiles", 2) = Profiles2
  BY AtEach DEF ProfilesAt
<1>6. Turns(rev_c680843e1e0a, rest, rest \cup Profiles2, "none", "none")
  BY <1>4, Turns_c680843e1e0a
<1>7. SchemaOf(1) = rest /\ SchemaOf(2) = rest \cup Profiles2
  BY <1>3, <1>5
<1>8. UpNeed(2) = "none" /\ DownNeed(2) = "none"
  BY DEF UpNeed, DownNeed
<1>. QED
  BY <1>1, <1>6, <1>7, <1>8, RevisionsInOrder DEF Turning

LEMMA Turning_4c4cd5d33301 == Turning(3)
<1>1. 3 \in 1..27 /\ 3 - 1 = 2 /\ "sessions" \in TableNames
  BY DEF TableNames
<1>2. \A u \in TableNames \ {"sessions"} : 3 \notin Changes(u)
  BY ChangesEach DEF TableNames
<1>3. PICK rest : /\ SchemaOf(2) = rest \cup At("sessions", 2) /\ SchemaOf(3) = rest
                      \cup At("sessions", 3)
                  /\ rest = Others({"sessions"}, 3) /\ Around({"sessions"}, 3, rest)
  BY <1>1, <1>2, OthersAreAroundOne
<1>4. NoneOf(rest, "sessions") /\ Unpointed(rest, "sessions")
        /\ <<"users", <<"id">>, "required">> \in rest
  BY <1>3, PointedBySessions DEF Around
<1>5. At("sessions", 2) = {} /\ At("sessions", 3) = Sessions3
  BY AtEach DEF SessionsAt
<1>6. Turns(rev_4c4cd5d33301, rest, rest \cup Sessions3, "none", "none")
  BY <1>4, Turns_4c4cd5d33301
<1>7. SchemaOf(2) = rest /\ SchemaOf(3) = rest \cup Sessions3
  BY <1>3, <1>5
<1>8. UpNeed(3) = "none" /\ DownNeed(3) = "none"
  BY DEF UpNeed, DownNeed
<1>. QED
  BY <1>1, <1>6, <1>7, <1>8, RevisionsInOrder DEF Turning

LEMMA Turning_a580567ea83a == Turning(4)
<1>1. 4 \in 1..27 /\ 4 - 1 = 3 /\ "refresh_tokens" \in TableNames
  BY DEF TableNames
<1>2. \A u \in TableNames \ {"refresh_tokens"} : 4 \notin Changes(u)
  BY ChangesEach DEF TableNames
<1>3. PICK rest : /\ SchemaOf(3) = rest \cup At("refresh_tokens", 3) /\ SchemaOf(4) = rest
                      \cup At("refresh_tokens", 4)
                  /\ rest = Others({"refresh_tokens"}, 4) /\ Around({"refresh_tokens"}, 4, rest)
  BY <1>1, <1>2, OthersAreAroundOne
<1>4. NoneOf(rest, "refresh_tokens") /\ Unpointed(rest, "refresh_tokens")
        /\ <<"users", <<"id">>, "required">> \in rest
  BY <1>3 DEF Around
<1>5. At("refresh_tokens", 3) = {} /\ At("refresh_tokens", 4) = Refreshes4
  BY AtEach DEF RefreshesAt
<1>6. Turns(rev_a580567ea83a, rest, rest \cup Refreshes4, "none", "none")
  BY <1>4, Turns_a580567ea83a
<1>7. SchemaOf(3) = rest /\ SchemaOf(4) = rest \cup Refreshes4
  BY <1>3, <1>5
<1>8. UpNeed(4) = "none" /\ DownNeed(4) = "none"
  BY DEF UpNeed, DownNeed
<1>. QED
  BY <1>1, <1>6, <1>7, <1>8, RevisionsInOrder DEF Turning

LEMMA Turning_1aca44166335 == Turning(5)
<1>1. 5 \in 1..27 /\ 5 - 1 = 4 /\ "transcripts" \in TableNames
  BY DEF TableNames
<1>2. \A u \in TableNames \ {"transcripts"} : 5 \notin Changes(u)
  BY ChangesEach DEF TableNames
<1>3. PICK rest : /\ SchemaOf(4) = rest \cup At("transcripts", 4) /\ SchemaOf(5) = rest
                      \cup At("transcripts", 5)
                  /\ rest = Others({"transcripts"}, 5) /\ Around({"transcripts"}, 5, rest)
  BY <1>1, <1>2, OthersAreAroundOne
<1>4. NoneOf(rest, "transcripts") /\ Unpointed(rest, "transcripts")
        /\ <<"sessions", <<"id">>, "required">> \in rest
  BY <1>3 DEF Around
<1>5. At("transcripts", 4) = {} /\ At("transcripts", 5) = Transcripts5
  BY AtEach DEF TranscriptsAt
<1>6. Turns(rev_1aca44166335, rest, rest \cup Transcripts5, "none", "none")
  BY <1>4, Turns_1aca44166335
<1>7. SchemaOf(4) = rest /\ SchemaOf(5) = rest \cup Transcripts5
  BY <1>3, <1>5
<1>8. UpNeed(5) = "none" /\ DownNeed(5) = "none"
  BY DEF UpNeed, DownNeed
<1>. QED
  BY <1>1, <1>6, <1>7, <1>8, RevisionsInOrder DEF Turning

LEMMA Turning_ba64d112828d == Turning(6)
<1>1. 6 \in 1..27 /\ 6 - 1 = 5 /\ "debriefs" \in TableNames
  BY DEF TableNames
<1>2. \A u \in TableNames \ {"debriefs"} : 6 \notin Changes(u)
  BY ChangesEach DEF TableNames
<1>3. PICK rest : /\ SchemaOf(5) = rest \cup At("debriefs", 5) /\ SchemaOf(6) = rest
                      \cup At("debriefs", 6)
                  /\ rest = Others({"debriefs"}, 6) /\ Around({"debriefs"}, 6, rest)
  BY <1>1, <1>2, OthersAreAroundOne
<1>4. NoneOf(rest, "debriefs") /\ Unpointed(rest, "debriefs")
        /\ <<"sessions", <<"id">>, "required">> \in rest
  BY <1>3 DEF Around
<1>5. At("debriefs", 5) = {} /\ At("debriefs", 6) = Debriefs6
  BY AtEach DEF DebriefsAt
<1>6. Turns(rev_ba64d112828d, rest, rest \cup Debriefs6, "none", "none")
  BY <1>4, Turns_ba64d112828d
<1>7. SchemaOf(5) = rest /\ SchemaOf(6) = rest \cup Debriefs6
  BY <1>3, <1>5
<1>8. UpNeed(6) = "none" /\ DownNeed(6) = "none"
  BY DEF UpNeed, DownNeed
<1>. QED
  BY <1>1, <1>6, <1>7, <1>8, RevisionsInOrder DEF Turning

LEMMA Turning_f3a4b2c1d0e9 == Turning(7)
<1>1. 7 \in 1..27 /\ 7 - 1 = 6 /\ "learner_profiles" \in TableNames
  BY DEF TableNames
<1>2. \A u \in TableNames \ {"learner_profiles"} : 7 \notin Changes(u)
  BY ChangesEach DEF TableNames
<1>3. PICK rest : /\ SchemaOf(6) = rest \cup At("learner_profiles", 6) /\ SchemaOf(7) = rest
                      \cup At("learner_profiles", 7)
                  /\ rest = Others({"learner_profiles"}, 7) /\ Around({"learner_profiles"}, 7, rest)
  BY <1>1, <1>2, OthersAreAroundOne
<1>4. NoneOf(rest, "learner_profiles")
  BY <1>3 DEF Around
<1>5. At("learner_profiles", 6) = Profiles2 /\ At("learner_profiles", 7) = Profiles7
  BY AtEach DEF ProfilesAt
<1>6. Turns(rev_f3a4b2c1d0e9, rest \cup Profiles2, rest \cup Profiles7, "none", "none")
  BY <1>4, Turns_f3a4b2c1d0e9
<1>7. SchemaOf(6) = rest \cup Profiles2 /\ SchemaOf(7) = rest \cup Profiles7
  BY <1>3, <1>5
<1>8. UpNeed(7) = "none" /\ DownNeed(7) = "none"
  BY DEF UpNeed, DownNeed
<1>. QED
  BY <1>1, <1>6, <1>7, <1>8, RevisionsInOrder DEF Turning

LEMMA Turning_fb4423db1c92 == Turning(8)
<1>1. 8 \in 1..27 /\ 8 - 1 = 7 /\ {"missions", "sessions"} \in SUBSET TableNames
  BY DEF TableNames
<1>2. \A u \in TableNames \ {"missions", "sessions"} : 8 \notin Changes(u)
  BY ChangesEach DEF TableNames
<1>3. PICK rest : rest = Others({"missions", "sessions"}, 8)
  OBVIOUS
<1>4. Around({"missions", "sessions"}, 8, rest)
  BY <1>1, <1>2, <1>3, OthersAreAround
<1>5. NoneOf(rest, "missions") /\ NoneOf(rest, "sessions") /\ Unpointed(rest, "missions")
      /\ <<"users", <<"id">>, "required">> \in rest
  BY <1>3, <1>4, PointedByMissions DEF Around
<1>6. /\ At("missions", 7) = {} /\ At("missions", 8) = Missions8
      /\ At("sessions", 7) = Sessions3 /\ At("sessions", 8) = Sessions8
  BY AtEach DEF SessionsAt, MissionsAt
<1>7. \A j : UNION {At(t, j) : t \in {"missions", "sessions"}} = At("missions", j)
        \cup At("sessions", j)
  OBVIOUS
<1>8. /\ SchemaOf(7) = rest \cup UNION {At(t, 7) : t \in {"missions", "sessions"}}
      /\ SchemaOf(8) = rest \cup UNION {At(t, 8) : t \in {"missions", "sessions"}}
  BY <1>1, <1>4 DEF Around
<1>9. SchemaOf(7) = rest \cup Sessions3 /\ SchemaOf(8) = rest \cup Missions8 \cup Sessions8
  BY <1>6, <1>7, <1>8
<1>10. Turns(rev_fb4423db1c92, rest \cup Sessions3, rest \cup Missions8 \cup Sessions8, "none", "none")
  BY <1>5, Turns_fb4423db1c92
<1>11. UpNeed(8) = "none" /\ DownNeed(8) = "none"
  BY DEF UpNeed, DownNeed
<1>. QED
  BY <1>1, <1>9, <1>10, <1>11, RevisionsInOrder DEF Turning

LEMMA Turning_02cf10ba6ab7 == Turning(9)
<1>1. 9 \in 1..27 /\ 9 - 1 = 8 /\ "users" \in TableNames
  BY DEF TableNames
<1>2. \A u \in TableNames \ {"users"} : 9 \notin Changes(u)
  BY ChangesEach DEF TableNames
<1>3. PICK rest : /\ SchemaOf(8) = rest \cup At("users", 8) /\ SchemaOf(9) = rest \cup At("users", 9)
                  /\ rest = Others({"users"}, 9) /\ Around({"users"}, 9, rest)
  BY <1>1, <1>2, OthersAreAroundOne
<1>4. NoneOf(rest, "users")
  BY <1>3 DEF Around
<1>5. At("users", 8) = Users1 /\ At("users", 9) = Users9
  BY AtEach DEF UsersAt
<1>6. Turns(rev_02cf10ba6ab7, rest \cup Users1, rest \cup Users9, "none", "none")
  BY <1>4, Turns_02cf10ba6ab7
<1>7. SchemaOf(8) = rest \cup Users1 /\ SchemaOf(9) = rest \cup Users9
  BY <1>3, <1>5
<1>8. UpNeed(9) = "none" /\ DownNeed(9) = "none"
  BY DEF UpNeed, DownNeed
<1>. QED
  BY <1>1, <1>6, <1>7, <1>8, RevisionsInOrder DEF Turning

LEMMA Turning_fc233850563a == Turning(10)
<1>1. 10 \in 1..27 /\ 10 - 1 = 9 /\ "sessions" \in TableNames
  BY DEF TableNames
<1>2. \A u \in TableNames \ {"sessions"} : 10 \notin Changes(u)
  BY ChangesEach DEF TableNames
<1>3. PICK rest : /\ SchemaOf(9) = rest \cup At("sessions", 9) /\ SchemaOf(10) = rest
                      \cup At("sessions", 10)
                  /\ rest = Others({"sessions"}, 10) /\ Around({"sessions"}, 10, rest)
  BY <1>1, <1>2, OthersAreAroundOne
<1>4. NoneOf(rest, "sessions")
  BY <1>3 DEF Around
<1>5. At("sessions", 9) = Sessions8 /\ At("sessions", 10) = Sessions10
  BY AtEach DEF SessionsAt
<1>6. Turns(rev_fc233850563a, rest \cup Sessions8, rest \cup Sessions10, "none", "none")
  BY <1>4, Turns_fc233850563a
<1>7. SchemaOf(9) = rest \cup Sessions8 /\ SchemaOf(10) = rest \cup Sessions10
  BY <1>3, <1>5
<1>8. UpNeed(10) = "none" /\ DownNeed(10) = "none"
  BY DEF UpNeed, DownNeed
<1>. QED
  BY <1>1, <1>6, <1>7, <1>8, RevisionsInOrder DEF Turning

LEMMA Turning_a1b2c3d4e5f6 == Turning(11)
<1>1. 11 \in 1..27 /\ 11 - 1 = 10 /\ "vocabulary_entries" \in TableNames
  BY DEF TableNames
<1>2. \A u \in TableNames \ {"vocabulary_entries"} : 11 \notin Changes(u)
  BY ChangesEach DEF TableNames
<1>3. PICK rest : /\ SchemaOf(10) = rest \cup At("vocabulary_entries", 10)
                      /\ SchemaOf(11) = rest \cup At("vocabulary_entries", 11)
                  /\ rest = Others({"vocabulary_entries"}, 11) /\ Around({"vocabulary_entries"},
                       11, rest)
  BY <1>1, <1>2, OthersAreAroundOne
<1>4. NoneOf(rest, "vocabulary_entries") /\ Unpointed(rest, "vocabulary_entries")
        /\ <<"sessions", <<"id">>, "required">> \in rest /\ <<"users", <<"id">>, "required">> \in rest
  BY <1>3 DEF Around
<1>5. At("vocabulary_entries", 10) = {} /\ At("vocabulary_entries", 11) = Vocabulary11
  BY AtEach DEF VocabularyAt
<1>6. Turns(rev_a1b2c3d4e5f6, rest, rest \cup Vocabulary11, "none", "none")
  BY <1>4, Turns_a1b2c3d4e5f6
<1>7. SchemaOf(10) = rest /\ SchemaOf(11) = rest \cup Vocabulary11
  BY <1>3, <1>5
<1>8. UpNeed(11) = "none" /\ DownNeed(11) = "none"
  BY DEF UpNeed, DownNeed
<1>. QED
  BY <1>1, <1>6, <1>7, <1>8, RevisionsInOrder DEF Turning

LEMMA Turning_b2c3d4e5f6a7 == Turning(12)
<1>1. 12 \in 1..27 /\ 12 - 1 = 11 /\ "review_items" \in TableNames
  BY DEF TableNames
<1>2. \A u \in TableNames \ {"review_items"} : 12 \notin Changes(u)
  BY ChangesEach DEF TableNames
<1>3. PICK rest : /\ SchemaOf(11) = rest \cup At("review_items", 11) /\ SchemaOf(12) = rest
                      \cup At("review_items", 12)
                  /\ rest = Others({"review_items"}, 12) /\ Around({"review_items"}, 12, rest)
  BY <1>1, <1>2, OthersAreAroundOne
<1>4. NoneOf(rest, "review_items") /\ Unpointed(rest, "review_items")
        /\ <<"users", <<"id">>, "required">> \in rest
  BY <1>3 DEF Around
<1>5. At("review_items", 11) = {} /\ At("review_items", 12) = Reviews12
  BY AtEach DEF ReviewsAt
<1>6. Turns(rev_b2c3d4e5f6a7, rest, rest \cup Reviews12, "none", "none")
  BY <1>4, Turns_b2c3d4e5f6a7
<1>7. SchemaOf(11) = rest /\ SchemaOf(12) = rest \cup Reviews12
  BY <1>3, <1>5
<1>8. UpNeed(12) = "none" /\ DownNeed(12) = "none"
  BY DEF UpNeed, DownNeed
<1>. QED
  BY <1>1, <1>6, <1>7, <1>8, RevisionsInOrder DEF Turning

LEMMA Turning_c3d4e5f6a7b8 == Turning(13)
<1>1. 13 \in 1..27 /\ 13 - 1 = 12 /\ "users" \in TableNames
  BY DEF TableNames
<1>2. \A u \in TableNames \ {"users"} : 13 \notin Changes(u)
  BY ChangesEach DEF TableNames
<1>3. PICK rest : /\ SchemaOf(12) = rest \cup At("users", 12) /\ SchemaOf(13) = rest
                      \cup At("users", 13)
                  /\ rest = Others({"users"}, 13) /\ Around({"users"}, 13, rest)
  BY <1>1, <1>2, OthersAreAroundOne
<1>4. NoneOf(rest, "users")
  BY <1>3 DEF Around
<1>5. At("users", 12) = Users9 /\ At("users", 13) = Users13
  BY AtEach DEF UsersAt
<1>6. Turns(rev_c3d4e5f6a7b8, rest \cup Users9, rest \cup Users13, "none", "none")
  BY <1>4, Turns_c3d4e5f6a7b8
<1>7. SchemaOf(12) = rest \cup Users9 /\ SchemaOf(13) = rest \cup Users13
  BY <1>3, <1>5
<1>8. UpNeed(13) = "none" /\ DownNeed(13) = "none"
  BY DEF UpNeed, DownNeed
<1>. QED
  BY <1>1, <1>6, <1>7, <1>8, RevisionsInOrder DEF Turning

LEMMA Turning_d4e5f6a7b8c9 == Turning(14)
<1>1. 14 \in 1..27 /\ 14 - 1 = 13 /\ "voice_consents" \in TableNames
  BY DEF TableNames
<1>2. \A u \in TableNames \ {"voice_consents"} : 14 \notin Changes(u)
  BY ChangesEach DEF TableNames
<1>3. PICK rest : /\ SchemaOf(13) = rest \cup At("voice_consents", 13) /\ SchemaOf(14) = rest
                      \cup At("voice_consents", 14)
                  /\ rest = Others({"voice_consents"}, 14) /\ Around({"voice_consents"}, 14, rest)
  BY <1>1, <1>2, OthersAreAroundOne
<1>4. NoneOf(rest, "voice_consents") /\ Unpointed(rest, "voice_consents")
        /\ <<"users", <<"id">>, "required">> \in rest
  BY <1>3 DEF Around
<1>5. At("voice_consents", 13) = {} /\ At("voice_consents", 14) = Consents14
  BY AtEach DEF ConsentsAt
<1>6. Turns(rev_d4e5f6a7b8c9, rest, rest \cup Consents14, "none", "none")
  BY <1>4, Turns_d4e5f6a7b8c9
<1>7. SchemaOf(13) = rest /\ SchemaOf(14) = rest \cup Consents14
  BY <1>3, <1>5
<1>8. UpNeed(14) = "none" /\ DownNeed(14) = "none"
  BY DEF UpNeed, DownNeed
<1>. QED
  BY <1>1, <1>6, <1>7, <1>8, RevisionsInOrder DEF Turning

LEMMA Turning_e5f6a7b8c9d0 == Turning(15)
<1>1. 15 \in 1..27 /\ 15 - 1 = 14 /\ "idempotency_keys" \in TableNames
  BY DEF TableNames
<1>2. \A u \in TableNames \ {"idempotency_keys"} : 15 \notin Changes(u)
  BY ChangesEach DEF TableNames
<1>3. PICK rest : /\ SchemaOf(14) = rest \cup At("idempotency_keys", 14)
                      /\ SchemaOf(15) = rest \cup At("idempotency_keys", 15)
                  /\ rest = Others({"idempotency_keys"}, 15) /\ Around({"idempotency_keys"}, 15, rest)
  BY <1>1, <1>2, OthersAreAroundOne
<1>4. NoneOf(rest, "idempotency_keys") /\ Unpointed(rest, "idempotency_keys")
        /\ <<"users", <<"id">>, "required">> \in rest
  BY <1>3 DEF Around
<1>5. At("idempotency_keys", 14) = {} /\ At("idempotency_keys", 15) = Keys15
  BY AtEach DEF KeysAt
<1>6. Turns(rev_e5f6a7b8c9d0, rest, rest \cup Keys15, "none", "none")
  BY <1>4, Turns_e5f6a7b8c9d0
<1>7. SchemaOf(14) = rest /\ SchemaOf(15) = rest \cup Keys15
  BY <1>3, <1>5
<1>8. UpNeed(15) = "none" /\ DownNeed(15) = "none"
  BY DEF UpNeed, DownNeed
<1>. QED
  BY <1>1, <1>6, <1>7, <1>8, RevisionsInOrder DEF Turning

LEMMA Turning_f6a7b8c9d0e1 == Turning(16)
<1>1. 16 \in 1..27 /\ 16 - 1 = 15 /\ "analytics_events" \in TableNames
  BY DEF TableNames
<1>2. \A u \in TableNames \ {"analytics_events"} : 16 \notin Changes(u)
  BY ChangesEach DEF TableNames
<1>3. PICK rest : /\ SchemaOf(15) = rest \cup At("analytics_events", 15)
                      /\ SchemaOf(16) = rest \cup At("analytics_events", 16)
                  /\ rest = Others({"analytics_events"}, 16) /\ Around({"analytics_events"}, 16, rest)
  BY <1>1, <1>2, OthersAreAroundOne
<1>4. NoneOf(rest, "analytics_events") /\ Unpointed(rest, "analytics_events")
        /\ <<"users", <<"id">>, "required">> \in rest
  BY <1>3 DEF Around
<1>5. At("analytics_events", 15) = {} /\ At("analytics_events", 16) = Events16
  BY AtEach DEF EventsAt
<1>6. Turns(rev_f6a7b8c9d0e1, rest, rest \cup Events16, "none", "none")
  BY <1>4, Turns_f6a7b8c9d0e1
<1>7. SchemaOf(15) = rest /\ SchemaOf(16) = rest \cup Events16
  BY <1>3, <1>5
<1>8. UpNeed(16) = "none" /\ DownNeed(16) = "none"
  BY DEF UpNeed, DownNeed
<1>. QED
  BY <1>1, <1>6, <1>7, <1>8, RevisionsInOrder DEF Turning

LEMMA Turning_a7b8c9d0e1f2 == Turning(17)
<1>1. 17 \in 1..27 /\ 17 - 1 = 16 /\ "idempotency_keys" \in TableNames
  BY DEF TableNames
<1>2. \A u \in TableNames \ {"idempotency_keys"} : 17 \notin Changes(u)
  BY ChangesEach DEF TableNames
<1>3. PICK rest : /\ SchemaOf(16) = rest \cup At("idempotency_keys", 16)
                      /\ SchemaOf(17) = rest \cup At("idempotency_keys", 17)
                  /\ rest = Others({"idempotency_keys"}, 17) /\ Around({"idempotency_keys"}, 17, rest)
  BY <1>1, <1>2, OthersAreAroundOne
<1>4. NoneOf(rest, "idempotency_keys")
  BY <1>3 DEF Around
<1>5. At("idempotency_keys", 16) = Keys15 /\ At("idempotency_keys", 17) = Keys17
  BY AtEach DEF KeysAt
<1>6. Turns(rev_a7b8c9d0e1f2, rest \cup Keys15, rest \cup Keys17, "none", "none")
  BY <1>4, Turns_a7b8c9d0e1f2
<1>7. SchemaOf(16) = rest \cup Keys15 /\ SchemaOf(17) = rest \cup Keys17
  BY <1>3, <1>5
<1>8. UpNeed(17) = "none" /\ DownNeed(17) = "none"
  BY DEF UpNeed, DownNeed
<1>. QED
  BY <1>1, <1>6, <1>7, <1>8, RevisionsInOrder DEF Turning

LEMMA Turning_b8c9d0e1f2a3 == Turning(18)
<1>1. 18 \in 1..27 /\ 18 - 1 = 17 /\ "analytics_events" \in TableNames
  BY DEF TableNames
<1>2. \A u \in TableNames \ {"analytics_events"} : 18 \notin Changes(u)
  BY ChangesEach DEF TableNames
<1>3. PICK rest : /\ SchemaOf(17) = rest \cup At("analytics_events", 17)
                      /\ SchemaOf(18) = rest \cup At("analytics_events", 18)
                  /\ rest = Others({"analytics_events"}, 18) /\ Around({"analytics_events"}, 18, rest)
  BY <1>1, <1>2, OthersAreAroundOne
<1>4. NoneOf(rest, "analytics_events")
  BY <1>3 DEF Around
<1>5. At("analytics_events", 17) = Events16 /\ At("analytics_events", 18) = Events18
  BY AtEach DEF EventsAt
<1>6. Turns(rev_b8c9d0e1f2a3, rest \cup Events16, rest \cup Events18, "none", "none")
  BY <1>4, Turns_b8c9d0e1f2a3
<1>7. SchemaOf(17) = rest \cup Events16 /\ SchemaOf(18) = rest \cup Events18
  BY <1>3, <1>5
<1>8. UpNeed(18) = "none" /\ DownNeed(18) = "none"
  BY DEF UpNeed, DownNeed
<1>. QED
  BY <1>1, <1>6, <1>7, <1>8, RevisionsInOrder DEF Turning

LEMMA Turning_c1d2e3f4a5b6 == Turning(19)
<1>1. 19 \in 1..27 /\ 19 - 1 = 18 /\ "users" \in TableNames
  BY DEF TableNames
<1>2. \A u \in TableNames \ {"users"} : 19 \notin Changes(u)
  BY ChangesEach DEF TableNames
<1>3. PICK rest : /\ SchemaOf(18) = rest \cup At("users", 18) /\ SchemaOf(19) = rest
                      \cup At("users", 19)
                  /\ rest = Others({"users"}, 19) /\ Around({"users"}, 19, rest)
  BY <1>1, <1>2, OthersAreAroundOne
<1>4. NoneOf(rest, "users")
  BY <1>3 DEF Around
<1>5. At("users", 18) = Users13 /\ At("users", 19) = Users19
  BY AtEach DEF UsersAt
<1>6. Turns(rev_c1d2e3f4a5b6, rest \cup Users13, rest \cup Users19, "one account", "none")
  BY <1>4, Turns_c1d2e3f4a5b6
<1>7. SchemaOf(18) = rest \cup Users13 /\ SchemaOf(19) = rest \cup Users19
  BY <1>3, <1>5
<1>8. UpNeed(19) = "one account" /\ DownNeed(19) = "none"
  BY DEF UpNeed, DownNeed
<1>. QED
  BY <1>1, <1>6, <1>7, <1>8, RevisionsInOrder DEF Turning

LEMMA Turning_d2e3f4a5b6c7 == Turning(20)
<1>1. 20 \in 1..27 /\ 20 - 1 = 19 /\ "users" \in TableNames
  BY DEF TableNames
<1>2. \A u \in TableNames \ {"users"} : 20 \notin Changes(u)
  BY ChangesEach DEF TableNames
<1>3. PICK rest : /\ SchemaOf(19) = rest \cup At("users", 19) /\ SchemaOf(20) = rest
                      \cup At("users", 20)
                  /\ rest = Others({"users"}, 20) /\ Around({"users"}, 20, rest)
  BY <1>1, <1>2, OthersAreAroundOne
<1>4. NoneOf(rest, "users")
  BY <1>3 DEF Around
<1>5. At("users", 19) = Users19 /\ At("users", 20) = Users20
  BY AtEach DEF UsersAt
<1>6. Turns(rev_d2e3f4a5b6c7, rest \cup Users19, rest \cup Users20, "none", "none")
  BY <1>4, Turns_d2e3f4a5b6c7
<1>7. SchemaOf(19) = rest \cup Users19 /\ SchemaOf(20) = rest \cup Users20
  BY <1>3, <1>5
<1>8. UpNeed(20) = "none" /\ DownNeed(20) = "none"
  BY DEF UpNeed, DownNeed
<1>. QED
  BY <1>1, <1>6, <1>7, <1>8, RevisionsInOrder DEF Turning

LEMMA Turning_1a2b3c4d5e6f == Turning(21)
<1>1. 21 \in 1..27 /\ 21 - 1 = 20 /\ {"refresh_tokens", "idempotency_keys"} \in SUBSET TableNames
  BY DEF TableNames
<1>2. \A u \in TableNames \ {"refresh_tokens", "idempotency_keys"} : 21 \notin Changes(u)
  BY ChangesEach DEF TableNames
<1>3. PICK rest : rest = Others({"refresh_tokens", "idempotency_keys"}, 21)
  OBVIOUS
<1>4. Around({"refresh_tokens", "idempotency_keys"}, 21, rest)
  BY <1>1, <1>2, <1>3, OthersAreAround
<1>5. NoneOf(rest, "refresh_tokens") /\ NoneOf(rest, "idempotency_keys")
  BY <1>4 DEF Around
<1>6. /\ At("refresh_tokens", 20) = Refreshes4 /\ At("refresh_tokens", 21) = Refreshes21
      /\ At("idempotency_keys", 20) = Keys17 /\ At("idempotency_keys", 21) = Keys21
  BY AtEach DEF RefreshesAt, KeysAt
<1>7. \A j : UNION {At(t, j) : t \in {"refresh_tokens", "idempotency_keys"}} = At("refresh_tokens",
        j) \cup At("idempotency_keys", j)
  OBVIOUS
<1>8. /\ SchemaOf(20) = rest \cup UNION {At(t, 20) : t \in {"refresh_tokens", "idempotency_keys"}}
      /\ SchemaOf(21) = rest \cup UNION {At(t, 21) : t \in {"refresh_tokens", "idempotency_keys"}}
  BY <1>1, <1>4 DEF Around
<1>9. SchemaOf(20) = rest \cup Refreshes4 \cup Keys17 /\ SchemaOf(21) = rest \cup Refreshes21
        \cup Keys21
  BY <1>6, <1>7, <1>8
<1>10. Turns(rev_1a2b3c4d5e6f, rest \cup Refreshes4 \cup Keys17, rest \cup Refreshes21 \cup Keys21,
        "none", "none")
  BY <1>5, Turns_1a2b3c4d5e6f
<1>11. UpNeed(21) = "none" /\ DownNeed(21) = "none"
  BY DEF UpNeed, DownNeed
<1>. QED
  BY <1>1, <1>9, <1>10, <1>11, RevisionsInOrder DEF Turning

LEMMA Turning_f2a1b0c9d8e7 == Turning(22)
<1>1. 22 \in 1..27 /\ 22 - 1 = 21 /\ "sessions" \in TableNames
  BY DEF TableNames
<1>2. \A u \in TableNames \ {"sessions"} : 22 \notin Changes(u)
  BY ChangesEach DEF TableNames
<1>3. PICK rest : /\ SchemaOf(21) = rest \cup At("sessions", 21) /\ SchemaOf(22) = rest
                      \cup At("sessions", 22)
                  /\ rest = Others({"sessions"}, 22) /\ Around({"sessions"}, 22, rest)
  BY <1>1, <1>2, OthersAreAroundOne
<1>4. NoneOf(rest, "sessions")
  BY <1>3 DEF Around
<1>5. At("sessions", 21) = Sessions10 /\ At("sessions", 22) = Sessions22
  BY AtEach DEF SessionsAt
<1>6. Turns(rev_f2a1b0c9d8e7, rest \cup Sessions10, rest \cup Sessions22, "none", "no sessions")
  BY <1>4, Turns_f2a1b0c9d8e7
<1>7. SchemaOf(21) = rest \cup Sessions10 /\ SchemaOf(22) = rest \cup Sessions22
  BY <1>3, <1>5
<1>8. UpNeed(22) = "none" /\ DownNeed(22) = "no sessions"
  BY DEF UpNeed, DownNeed
<1>. QED
  BY <1>1, <1>6, <1>7, <1>8, RevisionsInOrder DEF Turning

LEMMA Turning_eea2e957ec48 == Turning(23)
<1>1. 23 \in 1..27 /\ 23 - 1 = 22 /\ "review_items" \in TableNames
  BY DEF TableNames
<1>2. \A u \in TableNames \ {"review_items"} : 23 \notin Changes(u)
  BY ChangesEach DEF TableNames
<1>3. PICK rest : /\ SchemaOf(22) = rest \cup At("review_items", 22) /\ SchemaOf(23) = rest
                      \cup At("review_items", 23)
                  /\ rest = Others({"review_items"}, 23) /\ Around({"review_items"}, 23, rest)
  BY <1>1, <1>2, OthersAreAroundOne
<1>4. NoneOf(rest, "review_items")
  BY <1>3 DEF Around
<1>5. At("review_items", 22) = Reviews12 /\ At("review_items", 23) = Reviews23
  BY AtEach DEF ReviewsAt
<1>6. Turns(rev_eea2e957ec48, rest \cup Reviews12, rest \cup Reviews23, "none", "none")
  BY <1>4, Turns_eea2e957ec48
<1>7. SchemaOf(22) = rest \cup Reviews12 /\ SchemaOf(23) = rest \cup Reviews23
  BY <1>3, <1>5
<1>8. UpNeed(23) = "none" /\ DownNeed(23) = "none"
  BY DEF UpNeed, DownNeed
<1>. QED
  BY <1>1, <1>6, <1>7, <1>8, RevisionsInOrder DEF Turning

LEMMA Turning_b9ee2fa53721 == Turning(24)
<1>1. 24 \in 1..27 /\ 24 - 1 = 23 /\ "vocabulary_entries" \in TableNames
  BY DEF TableNames
<1>2. \A u \in TableNames \ {"vocabulary_entries"} : 24 \notin Changes(u)
  BY ChangesEach DEF TableNames
<1>3. PICK rest : /\ SchemaOf(23) = rest \cup At("vocabulary_entries", 23)
                      /\ SchemaOf(24) = rest \cup At("vocabulary_entries", 24)
                  /\ rest = Others({"vocabulary_entries"}, 24) /\ Around({"vocabulary_entries"},
                       24, rest)
  BY <1>1, <1>2, OthersAreAroundOne
<1>4. NoneOf(rest, "vocabulary_entries")
  BY <1>3 DEF Around
<1>5. At("vocabulary_entries", 23) = Vocabulary11 /\ At("vocabulary_entries", 24) = Vocabulary24
  BY AtEach DEF VocabularyAt
<1>6. Turns(rev_b9ee2fa53721, rest \cup Vocabulary11, rest \cup Vocabulary24, "none", "none")
  BY <1>4, Turns_b9ee2fa53721
<1>7. SchemaOf(23) = rest \cup Vocabulary11 /\ SchemaOf(24) = rest \cup Vocabulary24
  BY <1>3, <1>5
<1>8. UpNeed(24) = "none" /\ DownNeed(24) = "none"
  BY DEF UpNeed, DownNeed
<1>. QED
  BY <1>1, <1>6, <1>7, <1>8, RevisionsInOrder DEF Turning

LEMMA Turning_22c153382454 == Turning(25)
<1>1. 25 \in 1..27 /\ 25 - 1 = 24 /\ "sessions" \in TableNames
  BY DEF TableNames
<1>2. \A u \in TableNames \ {"sessions"} : 25 \notin Changes(u)
  BY ChangesEach DEF TableNames
<1>3. PICK rest : /\ SchemaOf(24) = rest \cup At("sessions", 24) /\ SchemaOf(25) = rest
                      \cup At("sessions", 25)
                  /\ rest = Others({"sessions"}, 25) /\ Around({"sessions"}, 25, rest)
  BY <1>1, <1>2, OthersAreAroundOne
<1>4. NoneOf(rest, "sessions")
  BY <1>3 DEF Around
<1>5. At("sessions", 24) = Sessions22 /\ At("sessions", 25) = Sessions25
  BY AtEach DEF SessionsAt
<1>6. Turns(rev_22c153382454, rest \cup Sessions22, rest \cup Sessions25, "none", "none")
  BY <1>4, Turns_22c153382454
<1>7. SchemaOf(24) = rest \cup Sessions22 /\ SchemaOf(25) = rest \cup Sessions25
  BY <1>3, <1>5
<1>8. UpNeed(25) = "none" /\ DownNeed(25) = "none"
  BY DEF UpNeed, DownNeed
<1>. QED
  BY <1>1, <1>6, <1>7, <1>8, RevisionsInOrder DEF Turning

LEMMA Turning_a4b5c6d7e8f9 == Turning(26)
<1>1. 26 \in 1..27 /\ 26 - 1 = 25 /\ "sessions" \in TableNames
  BY DEF TableNames
<1>2. \A u \in TableNames \ {"sessions"} : 26 \notin Changes(u)
  BY ChangesEach DEF TableNames
<1>3. PICK rest : /\ SchemaOf(25) = rest \cup At("sessions", 25) /\ SchemaOf(26) = rest
                      \cup At("sessions", 26)
                  /\ rest = Others({"sessions"}, 26) /\ Around({"sessions"}, 26, rest)
  BY <1>1, <1>2, OthersAreAroundOne
<1>4. NoneOf(rest, "sessions")
  BY <1>3 DEF Around
<1>5. At("sessions", 25) = Sessions25 /\ At("sessions", 26) = Sessions26
  BY AtEach DEF SessionsAt
<1>6. Turns(rev_a4b5c6d7e8f9, rest \cup Sessions25, rest \cup Sessions26, "none", "none")
  BY <1>4, Turns_a4b5c6d7e8f9
<1>7. SchemaOf(25) = rest \cup Sessions25 /\ SchemaOf(26) = rest \cup Sessions26
  BY <1>3, <1>5
<1>8. UpNeed(26) = "none" /\ DownNeed(26) = "none"
  BY DEF UpNeed, DownNeed
<1>. QED
  BY <1>1, <1>6, <1>7, <1>8, RevisionsInOrder DEF Turning

LEMMA Turning_b5c6d7e8f9a0 == Turning(27)
<1>1. 27 \in 1..27 /\ 27 - 1 = 26 /\ "users" \in TableNames
  BY DEF TableNames
<1>2. \A u \in TableNames \ {"users"} : 27 \notin Changes(u)
  BY ChangesEach DEF TableNames
<1>3. PICK rest : /\ SchemaOf(26) = rest \cup At("users", 26) /\ SchemaOf(27) = rest
                      \cup At("users", 27)
                  /\ rest = Others({"users"}, 27) /\ Around({"users"}, 27, rest)
  BY <1>1, <1>2, OthersAreAroundOne
<1>4. NoneOf(rest, "users")
  BY <1>3 DEF Around
<1>5. At("users", 26) = Users20 /\ At("users", 27) = Users27
  BY AtEach DEF UsersAt
<1>6. Turns(rev_b5c6d7e8f9a0, rest \cup Users20, rest \cup Users27, "none", "none")
  BY <1>4, Turns_b5c6d7e8f9a0
<1>7. SchemaOf(26) = rest \cup Users20 /\ SchemaOf(27) = rest \cup Users27
  BY <1>3, <1>5
<1>8. UpNeed(27) = "none" /\ DownNeed(27) = "none"
  BY DEF UpNeed, DownNeed
<1>. QED
  BY <1>1, <1>6, <1>7, <1>8, RevisionsInOrder DEF Turning

LEMMA RevisionsTurn ==
    ASSUME NEW k \in 1..27
    PROVE  Turning(k)
<1>1. \/ k = 1 \/ k = 2 \/ k = 3 \/ k = 4 \/ k = 5 \/ k = 6 \/ k = 7 \/ k = 8 \/ k = 9
      \/ k = 10 \/ k = 11 \/ k = 12 \/ k = 13 \/ k = 14 \/ k = 15 \/ k = 16 \/ k = 17 \/ k = 18
      \/ k = 19 \/ k = 20 \/ k = 21 \/ k = 22 \/ k = 23 \/ k = 24 \/ k = 25 \/ k = 26 \/ k = 27
  OBVIOUS
<1>. QED
  BY <1>1, Turning_fed9f2ac9d04, Turning_c680843e1e0a, Turning_4c4cd5d33301, Turning_a580567ea83a,
       Turning_1aca44166335, Turning_ba64d112828d, Turning_f3a4b2c1d0e9, Turning_fb4423db1c92,
       Turning_02cf10ba6ab7, Turning_fc233850563a, Turning_a1b2c3d4e5f6, Turning_b2c3d4e5f6a7,
       Turning_c3d4e5f6a7b8, Turning_d4e5f6a7b8c9, Turning_e5f6a7b8c9d0, Turning_f6a7b8c9d0e1,
       Turning_a7b8c9d0e1f2, Turning_b8c9d0e1f2a3, Turning_c1d2e3f4a5b6, Turning_d2e3f4a5b6c7,
       Turning_1a2b3c4d5e6f, Turning_f2a1b0c9d8e7, Turning_eea2e957ec48, Turning_b9ee2fa53721,
       Turning_22c153382454, Turning_a4b5c6d7e8f9, Turning_b5c6d7e8f9a0

----------------------------------------------------------------------------
(* The migrations: commands                                                *)

\* A script that needs nothing leads on whatever the need.
LEMMA LeadsNeedless ==
    ASSUME NEW ops, NEW from, NEW to, Leads(ops, from, to, "none"), NEW need
    PROVE  Leads(ops, from, to, need)
<1>1. \A db : Meets(db, "none")
  BY DEF Meets
<1>2. ASSUME NEW run, NEW db, Reaches(run, db, to, "none") PROVE Reaches(run, db, to, need)
  BY <1>1, <1>2 DEF Reaches
<1>. QED
  BY <1>2 DEF Leads

\* A run that was refused stays as it was.
LEMMA RefusedStays ==
    ASSUME NEW start, start = [ok |-> FALSE, db |-> start.db], NEW ops, Len(ops) \in Nat
    PROVE  RunOps(start, ops) = start
<1>. DEFINE n == Len(ops)
<1>1. PICK r : RunOf(r, start, ops, n) /\ RunOps(start, ops) = r[n]
  BY RunOpsIs
<1>0. n \in Nat
  OBVIOUS
<1>. HIDE DEF n
<1>2. \A i \in 0..n : r[i] = IF i = 0 THEN start ELSE RunOp(r[i - 1], ops[i])
  BY <1>1 DEF RunOf
<1>3. \A o : RunOp(start, o) = start
  <2>1. start.ok = FALSE /\ [start EXCEPT !.ok = FALSE] = start
    OBVIOUS
  <2>. QED
    BY <2>1 DEF RunOp
<1>. DEFINE T == {i \in 0..n : r[i] = start}
<1>4. 0 \in T
  BY <1>0, <1>2
<1>5. ASSUME NEW m \in 0..n, m + 1 \in 0..n, m \in T PROVE m + 1 \in T
  <2>1. (m + 1) - 1 = m /\ m + 1 # 0
    BY <1>0, <1>5
  <2>2. r[m + 1] = RunOp(r[m], ops[m + 1])
    BY <1>2, <1>5, <2>1
  <2>. QED
    BY <1>3, <1>5, <2>2
<1>6. T = 0..n
  <2>1. T \in SUBSET (0..n)
    OBVIOUS
  <2>. HIDE DEF T
  <2>. QED
    BY <1>0, <1>4, <1>5, <2>1, UpTo
<1>. QED
  BY <1>0, <1>1, <1>6

\* A script more.
LEMMA LeadsOn ==
    ASSUME NEW run, NEW before, NEW from, NEW need, Reaches(run, before, from, need),
           NEW ops, NEW to, Leads(ops, from, to, need)
    PROVE  Reaches(RunOps(run, ops), before, to, need)
<1>0. run = [ok |-> run.ok, db |-> run.db] /\ run.ok \in BOOLEAN /\ Len(ops) \in Nat
  BY DEF Reaches, Leads
<1>1. CASE run.ok
  <2>1. run = Begun(run.db)
    BY <1>0, <1>1 DEF Begun
  <2>2. IsDatabase(run.db) /\ run.db.schema = from /\ Calm(before, run.db)
    BY <1>1 DEF Reaches
  <2>3. PICK next : next = RunOps(run, ops)
    OBVIOUS
  <2>4. Reaches(next, run.db, to, need)
    BY <2>1, <2>2, <2>3 DEF Leads
  <2>5. Meets(before, need) => next.ok
    BY <2>2, <2>4, MeetsFurther DEF Reaches
  <2>6. next.ok => Calm(before, next.db)
    BY <2>2, <2>4, CalmFurther DEF Reaches
  <2>7. Reaches(next, before, to, need)
    BY <2>4, <2>5, <2>6 DEF Reaches
  <2>. QED
    BY <2>3, <2>7
<1>2. CASE ~run.ok
  <2>1. run = [ok |-> FALSE, db |-> run.db]
    BY <1>0, <1>2
  <2>2. RunOps(run, ops) = run
    BY <1>0, <2>1, RefusedStays
  <2>3. Reaches(run, before, to, need)
    BY <1>2 DEF Reaches
  <2>. QED
    BY <2>2, <2>3
<1>. QED
  BY <1>1, <1>2

\* The scripts of a command, that lead along a path of schemas.
LEMMA ChainLeads ==
    ASSUME NEW db, IsDatabase(db), NEW scripts, NEW n \in Nat, Len(scripts) = n, NEW path, NEW need,
           db.schema = path[0],
           \A i \in 1..n : Leads(scripts[i], path[i - 1], path[i], need)
    PROVE  Reaches(RunScripts(db, scripts), db, path[n], need)
<1>1. PICK run : ChainOf(run, Begun(db), scripts, n) /\ RunScripts(db, scripts) = run[n]
  BY RunScriptsIs
<1>2. \A i \in 0..n : run[i] = IF i = 0 THEN Begun(db) ELSE RunOps(run[i - 1], scripts[i])
  BY <1>1 DEF ChainOf
<1>. DEFINE T == {i \in 0..n : Reaches(run[i], db, path[i], need)}
<1>3. 0 \in T
  <2>1. Reaches(Begun(db), db, path[0], need)
    BY DEF Reaches, Begun, Calm
  <2>. QED
    BY <1>2, <2>1
<1>4. ASSUME NEW m \in 0..n, m + 1 \in 0..n, m \in T PROVE m + 1 \in T
  <2>1. (m + 1) - 1 = m /\ m + 1 # 0 /\ m + 1 \in 1..n
    BY <1>4
  <2>2. run[m + 1] = RunOps(run[m], scripts[m + 1])
    BY <1>2, <1>4, <2>1
  <2>3. Leads(scripts[m + 1], path[m], path[m + 1], need)
    BY <2>1
  <2>4. Reaches(run[m + 1], db, path[m + 1], need)
    BY <1>4, <2>2, <2>3, LeadsOn
  <2>. QED
    BY <1>4, <2>4
<1>5. T = 0..n
  <2>1. T \in SUBSET (0..n)
    OBVIOUS
  <2>. HIDE DEF T
  <2>. QED
    BY <1>3, <1>4, <2>1, UpTo
<1>. QED
  BY <1>1, <1>5

UpgradeNeed(from) == IF from < 19 THEN "one account" ELSE "none"
DowngradeNeed(from) == IF from >= 22 THEN "no sessions" ELSE "none"

LEMMA UpgradeReaches ==
    ASSUME NEW from \in 0..27, NEW to \in 0..27, from <= to, NEW db, IsDatabase(db),
           db.schema = SchemaOf(from)
    PROVE  Reaches(RunScripts(db, Ups(from, to)), db, SchemaOf(to), UpgradeNeed(from))
<1>. DEFINE n == to - from
            path == [i \in 0..n |-> SchemaOf(from + i)]
            scripts == Ups(from, to)
<1>1. n \in Nat /\ Len(scripts) = n /\ path[0] = SchemaOf(from) /\ path[n] = SchemaOf(to)
  BY DEF Ups
<1>2. ASSUME NEW i \in 1..n PROVE Leads(scripts[i], path[i - 1], path[i], UpgradeNeed(from))
  <2>1. from + i \in 1..27 /\ (from + i) - 1 = from + (i - 1) /\ i \in 0..n /\ i - 1 \in 0..n
    OBVIOUS
  <2>2. scripts[i] = Revisions[from + i].up
    BY DEF Ups
  <2>3. path[i - 1] = SchemaOf((from + i) - 1) /\ path[i] = SchemaOf(from + i)
    BY <2>1
  <2>4. Turning(from + i)
    BY <2>1, RevisionsTurn
  <2>5. from + i = 19 => UpgradeNeed(from) = UpNeed(from + i)
    BY <2>1 DEF UpgradeNeed, UpNeed
  <2>6. from + i # 19 => UpNeed(from + i) = "none"
    BY DEF UpNeed
  <2>. HIDE DEF path, scripts
  <2>7. Leads(scripts[i], path[i - 1], path[i], UpNeed(from + i))
    BY <2>2, <2>3, <2>4 DEF Turning, Turns
  <2>. QED
    BY <2>5, <2>6, <2>7, LeadsNeedless
<1>. HIDE DEF path, scripts
<1>3. Reaches(RunScripts(db, scripts), db, path[n], UpgradeNeed(from))
  BY <1>1, <1>2, ChainLeads
<1>. QED
  BY <1>1, <1>3 DEF scripts

LEMMA DowngradeReaches ==
    ASSUME NEW from \in 0..27, NEW to \in 0..27, to <= from, NEW db, IsDatabase(db),
           db.schema = SchemaOf(from)
    PROVE  Reaches(RunScripts(db, Downs(from, to)), db, SchemaOf(to), DowngradeNeed(from))
<1>. DEFINE n == from - to
            path == [i \in 0..n |-> SchemaOf(from - i)]
            scripts == Downs(from, to)
<1>1. n \in Nat /\ Len(scripts) = n /\ path[0] = SchemaOf(from) /\ path[n] = SchemaOf(to)
  BY DEF Downs
<1>2. ASSUME NEW i \in 1..n PROVE Leads(scripts[i], path[i - 1], path[i], DowngradeNeed(from))
  <2>. DEFINE k == from + 1 - i
  <2>1. k \in 1..27 /\ k - 1 = from - i /\ k = from - (i - 1) /\ i \in 0..n /\ i - 1 \in 0..n
    OBVIOUS
  <2>2. scripts[i] = Revisions[k].down
    BY DEF Downs
  <2>3. path[i - 1] = SchemaOf(k) /\ path[i] = SchemaOf(k - 1)
    BY <2>1
  <2>5. k = 22 => DowngradeNeed(from) = DownNeed(k)
    BY <2>1 DEF DowngradeNeed, DownNeed
  <2>. HIDE DEF k
  <2>4. Turning(k)
    BY <2>1, RevisionsTurn
  <2>6. k # 22 => DownNeed(k) = "none"
    BY DEF DownNeed
  <2>. HIDE DEF path, scripts
  <2>7. Leads(scripts[i], path[i - 1], path[i], DownNeed(k))
    BY <2>2, <2>3, <2>4 DEF Turning, Turns
  <2>. QED
    BY <2>5, <2>6, <2>7, LeadsNeedless
<1>. HIDE DEF path, scripts
<1>3. Reaches(RunScripts(db, scripts), db, path[n], DowngradeNeed(from))
  BY <1>1, <1>2, ChainLeads
<1>. QED
  BY <1>1, <1>3 DEF scripts

\* An empty database, upgraded revision by revision, goes through the same schemas.
LEMMA NothingAtFirst == SchemaOf(0) = {}
<1>1. \A t \in TableNames : At(t, 0) = {}
  BY AtEach DEF TableNames, UsersAt, ProfilesAt, SessionsAt, RefreshesAt, TranscriptsAt, DebriefsAt,
         MissionsAt, VocabularyAt, ReviewsAt, ConsentsAt, KeysAt, EventsAt
<1>. QED
  BY <1>1 DEF SchemaOf

LEMMA EmptyUpgraded ==
    ASSUME NEW k \in 1..27
    PROVE  RunOps(Begun([EmptyDatabase EXCEPT !.schema = SchemaOf(k - 1)]),
             Revisions[k].up).db.schema = SchemaOf(k)
<1>. DEFINE db == [EmptyDatabase EXCEPT !.schema = SchemaOf(k - 1)]
<1>1. db = [schema |-> SchemaOf(k - 1), sessions |-> {}, activations |-> {}, accounts |-> {},
        claim |-> "absent"]
  BY DEF EmptyDatabase
<1>. HIDE DEF db
<1>2. IsDatabase(db) /\ db.schema = SchemaOf(k - 1) /\ db.accounts = {} /\ db.sessions = {}
  BY <1>1 DEF IsDatabase
<1>3. \A need : Meets(db, need)
  BY <1>2 DEF Meets, OneAccount
<1>4. Turning(k)
  BY RevisionsTurn
<1>5. Reaches(RunOps(Begun(db), Revisions[k].up), db, SchemaOf(k), UpNeed(k))
  BY <1>2, <1>4 DEF Turning, Turns, Leads
<1>6. RunOps(Begun(db), Revisions[k].up).db.schema = SchemaOf(k)
  BY <1>3, <1>5 DEF Reaches
<1>. QED
  BY <1>6 DEF db

LEMMA SchemaAtIs ==
    ASSUME NEW k \in 0..27
    PROVE  SchemaAt[k] = SchemaOf(k)
<1>. DEFINE Next(at, j) == RunOps(Begun([EmptyDatabase EXCEPT !.schema = at[j - 1]]),
        Revisions[j].up).db.schema
            f == [j \in 0..27 |-> SchemaOf(j)]
            g == [j \in 0..27 |-> IF j = 0 THEN {} ELSE Next(f, j)]
            at == CHOOSE h : h = [j \in 0..HeadRevision |-> IF j = 0 THEN {} ELSE Next(h, j)]
<1>0. HeadRevision = 27
  BY RevisionsAreScripts
<1>1. \A j \in 0..27 : f[j] = g[j]
  <2>1. ASSUME NEW j \in 1..27 PROVE f[j] = Next(f, j)
    <3>1. j - 1 \in 0..27 /\ f[j - 1] = SchemaOf(j - 1) /\ f[j] = SchemaOf(j)
      OBVIOUS
    <3>. HIDE DEF f
    <3>. QED
      BY <3>1, EmptyUpgraded
  <2>2. f[0] = {}
    BY NothingAtFirst
  <2>. HIDE DEF f, Next
  <2>. QED
    BY <2>1, <2>2
<1>2. f = g
  <2>1. f = [j \in 0..27 |-> f[j]] /\ g = [j \in 0..27 |-> g[j]]
    OBVIOUS
  <2>. HIDE DEF f, g
  <2>. QED
    BY <1>1, <2>1
<1>3. f = [j \in 0..HeadRevision |-> IF j = 0 THEN {} ELSE Next(f, j)]
  <2>. HIDE DEF f, Next
  <2>. QED
    BY <1>0, <1>2
<1>4. at = [j \in 0..HeadRevision |-> IF j = 0 THEN {} ELSE Next(at, j)]
  <2>. HIDE DEF f, Next
  <2>. QED
    BY <1>3
<1>5. SchemaAt = [j \in 0..HeadRevision |-> at[j]]
  BY DEF SchemaAt
<1>. HIDE DEF at
<1>6. \A j \in 0..27 : at[j] = IF j = 0 THEN {} ELSE Next(at, j)
  <2>. HIDE DEF Next
  <2>. QED
    BY <1>0, <1>4
<1>. DEFINE T == {j \in 0..27 : at[j] = SchemaOf(j)}
<1>7. 0 \in T
  <2>1. 0 \in 0..27
    OBVIOUS
  <2>2. at[0] = {}
    <3>. HIDE DEF Next
    <3>. QED
      BY <1>6, <2>1
  <2>. QED
    BY <2>1, <2>2, NothingAtFirst
<1>8. ASSUME NEW m \in 0..27, m + 1 \in 0..27, m \in T PROVE m + 1 \in T
  <2>1. (m + 1) - 1 = m /\ m + 1 # 0 /\ m + 1 \in 1..27
    BY <1>8
  <2>2. at[m + 1] = Next(at, m + 1)
    <3>. HIDE DEF Next
    <3>. QED
      BY <1>6, <1>8, <2>1
  <2>3. at[(m + 1) - 1] = SchemaOf((m + 1) - 1)
    BY <1>8, <2>1
  <2>4. Next(at, m + 1) = SchemaOf(m + 1)
    BY <2>1, <2>3, EmptyUpgraded
  <2>. QED
    BY <1>8, <2>2, <2>4
<1>9. T = 0..27
  <2>1. T \in SUBSET (0..27)
    OBVIOUS
  <2>. HIDE DEF T
  <2>. QED
    BY <1>7, <1>8, <2>1, UpTo
<1>. QED
  BY <1>0, <1>5, <1>9

----------------------------------------------------------------------------
(* The migrations: the models                                              *)

\* A table that declares no optional column.
LEMMA NoOptional ==
    ASSUME NEW t
    PROVE  Optional(t, {}) = {}
  BY DEF Optional

LEMMA UserIsDeclared == User = Users27
<1>. DEFINE columns == UsersColumns \cup {"is_admin"} \cup {"current_streak"} \cup
      {"longest_streak"} \cup {"weekly_goal_minutes"} \cup {"is_active"}
            others == {"quota_date"} \cup {"last_active_date"} \cup {"reset_token_hash"}
              \cup {"reset_token_expires_at"}
<1>1. columns = {"id", "email", "hashed_password", "native_language", "cefr_level", "tier",
      "is_admin", "is_active", "minutes_used_today", "current_streak", "longest_streak",
      "weekly_goal_minutes", "created_at"}
  BY DEF UsersColumns
<1>2. others = {"quota_date", "last_active_date", "reset_token_hash", "reset_token_expires_at"}
  OBVIOUS
<1>3. Users27 = Required("users", columns) \cup Optional("users", others) \cup (Unique("users",
        <<"email">>) \cup EmailLower \cup Unique("users", <<"reset_token_hash">>))
  BY DEF Users27, Table
<1>. HIDE DEF columns, others
<1>. QED
  BY <1>1, <1>2, <1>3 DEF User, EmailLower

LEMMA LearnerProfileIsDeclared == LearnerProfile = Profiles7
<1>. DEFINE columns == ProfilesColumns \cup {"memory_summary"}
            others == {"goal"}
<1>1. columns = {"user_id"} \cup {"interests", "memory_summary", "correction_intensity", "accent"}
  BY DEF ProfilesColumns
<1>2. others = {"goal"}
  OBVIOUS
<1>3. Profiles7 = Required("learner_profiles", columns) \cup Optional("learner_profiles",
        others) \cup (Refers("learner_profiles", "user_id", "users"))
  BY DEF Profiles7, Table
<1>. HIDE DEF columns, others
<1>4. Required("learner_profiles", {"user_id"}) \cup Required("learner_profiles", {"interests",
      "memory_summary", "correction_intensity", "accent"}) = Required("learner_profiles", columns)
  <2>. DEFINE own == {"user_id"}
              given == {"interests", "memory_summary", "correction_intensity", "accent"}
              name == "learner_profiles"
  <2>1. columns = own \cup given
    BY <1>1
  <2>. HIDE DEF own, given, name
  <2>2. Required(name, own) \cup Required(name, given) = Required(name, columns)
    BY <2>1 DEF Required
  <2>. QED
    BY <2>2 DEF own, given, name
<1>. QED
  BY <1>1, <1>2, <1>3, <1>4 DEF LearnerProfile, Owned

LEMMA ConversationSessionIsDeclared == ConversationSession = Sessions26
<1>. DEFINE columns == (SessionsColumns \cup {"last_activity_at"}) \ {"room_name"}
            others == {"scenario_id", "ended_at", "duration_minutes"} \cup {"mission_id"}
<1>1. columns = {"user_id"} \cup {"id", "mode", "voice_engine", "started_at", "last_activity_at"}
  BY DEF SessionsColumns
<1>2. others = {"scenario_id", "mission_id", "ended_at", "duration_minutes"}
  OBVIOUS
<1>3. Sessions26 = Required("sessions", columns) \cup Optional("sessions", others)
        \cup (Refers("sessions", "user_id", "users") \cup Index("sessions", <<"mission_id">>)
        \cup RefersOrNull("sessions", "mission_id", "missions") \cup Index("sessions",
        <<"user_id", "started_at">>) \cup OneActive)
  BY DEF Sessions26, Table
<1>. HIDE DEF columns, others
<1>4. Required("sessions", {"user_id"}) \cup Required("sessions", {"id", "mode", "voice_engine",
      "started_at", "last_activity_at"}) = Required("sessions", columns)
  <2>. DEFINE own == {"user_id"}
              given == {"id", "mode", "voice_engine", "started_at", "last_activity_at"}
              name == "sessions"
  <2>1. columns = own \cup given
    BY <1>1
  <2>. HIDE DEF own, given, name
  <2>2. Required(name, own) \cup Required(name, given) = Required(name, columns)
    BY <2>1 DEF Required
  <2>. QED
    BY <2>2 DEF own, given, name
<1>. QED
  BY <1>1, <1>2, <1>3, <1>4 DEF ConversationSession, Owned, OneActive

LEMMA RefreshTokenIsDeclared == RefreshToken = Refreshes21
<1>. DEFINE columns == RefreshesColumns
            others == {"revoked_at"}
<1>1. columns = {"user_id"} \cup {"id", "token_hash", "expires_at", "created_at"}
  BY DEF RefreshesColumns
<1>2. others = {"revoked_at"}
  OBVIOUS
<1>3. Refreshes21 = Required("refresh_tokens", columns) \cup Optional("refresh_tokens",
        others) \cup (Refers("refresh_tokens", "user_id", "users") \cup Unique("refresh_tokens",
        <<"token_hash">>) \cup Index("refresh_tokens", <<"user_id">>) \cup Index("refresh_tokens",
        <<"expires_at">>))
  BY DEF Refreshes21, Table
<1>. HIDE DEF columns, others
<1>4. Required("refresh_tokens", {"user_id"}) \cup Required("refresh_tokens", {"id", "token_hash",
      "expires_at", "created_at"}) = Required("refresh_tokens", columns)
  <2>. DEFINE own == {"user_id"}
              given == {"id", "token_hash", "expires_at", "created_at"}
              name == "refresh_tokens"
  <2>1. columns = own \cup given
    BY <1>1
  <2>. HIDE DEF own, given, name
  <2>2. Required(name, own) \cup Required(name, given) = Required(name, columns)
    BY <2>1 DEF Required
  <2>. QED
    BY <2>2 DEF own, given, name
<1>. QED
  BY <1>1, <1>2, <1>3, <1>4 DEF RefreshToken, Owned

LEMMA TranscriptRowIsDeclared == TranscriptRow = Transcripts5
<1>. DEFINE columns == TranscriptsColumns
            others == {}
<1>1. columns = {"id", "session_id", "turns", "created_at"}
  BY DEF TranscriptsColumns
<1>2. others = {}
  OBVIOUS
<1>3. Transcripts5 = Required("transcripts", columns) \cup Optional("transcripts", others)
        \cup (Refers("transcripts", "session_id", "sessions") \cup Unique("transcripts",
        <<"session_id">>))
  BY DEF Transcripts5, Table
<1>. HIDE DEF columns, others
<1>. QED
  BY <1>1, <1>2, <1>3, NoOptional DEF TranscriptRow

LEMMA DebriefRowIsDeclared == DebriefRow = Debriefs6
<1>. DEFINE columns == DebriefsColumns
            others == {}
<1>1. columns = {"id", "session_id", "cefr_estimate", "summary", "errors", "created_at"}
  BY DEF DebriefsColumns
<1>2. others = {}
  OBVIOUS
<1>3. Debriefs6 = Required("debriefs", columns) \cup Optional("debriefs", others)
        \cup (Refers("debriefs", "session_id", "sessions") \cup Unique("debriefs", <<"session_id">>))
  BY DEF Debriefs6, Table
<1>. HIDE DEF columns, others
<1>. QED
  BY <1>1, <1>2, <1>3, NoOptional DEF DebriefRow

LEMMA MissionIsDeclared == Mission = Missions8
<1>. DEFINE columns == MissionsColumns
            others == {}
<1>1. columns = {"user_id"} \cup {"id", "source_type", "persona", "goal", "likely_questions",
      "system_prompt", "created_at"}
  BY DEF MissionsColumns
<1>2. others = {}
  OBVIOUS
<1>3. Missions8 = Required("missions", columns) \cup Optional("missions", others)
        \cup (Refers("missions", "user_id", "users") \cup Index("missions", <<"user_id">>))
  BY DEF Missions8, Table
<1>. HIDE DEF columns, others
<1>4. Required("missions", {"user_id"}) \cup Required("missions", {"id", "source_type", "persona",
      "goal", "likely_questions", "system_prompt", "created_at"}) = Required("missions", columns)
  <2>. DEFINE own == {"user_id"}
              given == {"id", "source_type", "persona", "goal", "likely_questions",
                "system_prompt", "created_at"}
              name == "missions"
  <2>1. columns = own \cup given
    BY <1>1
  <2>. HIDE DEF own, given, name
  <2>2. Required(name, own) \cup Required(name, given) = Required(name, columns)
    BY <2>1 DEF Required
  <2>. QED
    BY <2>2 DEF own, given, name
<1>. QED
  BY <1>1, <1>2, <1>3, <1>4, NoOptional DEF Mission, Owned

LEMMA VocabularyEntryIsDeclared == VocabularyEntry = Vocabulary24
<1>. DEFINE columns == VocabularyColumns
            others == {"session_id"}
<1>1. columns = {"user_id"} \cup {"id", "word", "phonetic", "translation", "example", "status",
      "created_at"}
  BY DEF VocabularyColumns
<1>2. others = {"session_id"}
  OBVIOUS
<1>3. Vocabulary24 = Required("vocabulary_entries", columns) \cup Optional("vocabulary_entries",
        others) \cup (Refers("vocabulary_entries", "user_id", "users")
        \cup RefersOrNull("vocabulary_entries", "session_id", "sessions")
        \cup Unique("vocabulary_entries", <<"user_id", "word">>) \cup Index("vocabulary_entries",
        <<"user_id">>) \cup Index("vocabulary_entries", <<"session_id">>))
  BY DEF Vocabulary24, Table
<1>. HIDE DEF columns, others
<1>4. Required("vocabulary_entries", {"user_id"}) \cup Required("vocabulary_entries", {"id", "word",
      "phonetic", "translation", "example", "status", "created_at"}) =
      Required("vocabulary_entries", columns)
  <2>. DEFINE own == {"user_id"}
              given == {"id", "word", "phonetic", "translation", "example", "status", "created_at"}
              name == "vocabulary_entries"
  <2>1. columns = own \cup given
    BY <1>1
  <2>. HIDE DEF own, given, name
  <2>2. Required(name, own) \cup Required(name, given) = Required(name, columns)
    BY <2>1 DEF Required
  <2>. QED
    BY <2>2 DEF own, given, name
<1>. QED
  BY <1>1, <1>2, <1>3, <1>4 DEF VocabularyEntry, Owned

LEMMA ReviewItemIsDeclared == ReviewItem = Reviews23
<1>. DEFINE columns == ReviewsColumns
            others == {"next_review_at"}
<1>1. columns = {"user_id"} \cup {"id", "error_type", "latest_correction", "stage", "clean_streak",
      "status", "updated_at"}
  BY DEF ReviewsColumns
<1>2. others = {"next_review_at"}
  OBVIOUS
<1>3. Reviews23 = Required("review_items", columns) \cup Optional("review_items", others)
        \cup (Refers("review_items", "user_id", "users") \cup Unique("review_items",
        <<"user_id", "error_type">>) \cup Index("review_items", <<"user_id", "next_review_at">>))
  BY DEF Reviews23, Table
<1>. HIDE DEF columns, others
<1>4. Required("review_items", {"user_id"}) \cup Required("review_items", {"id", "error_type",
      "latest_correction", "stage", "clean_streak", "status", "updated_at"}) =
      Required("review_items", columns)
  <2>. DEFINE own == {"user_id"}
              given == {"id", "error_type", "latest_correction", "stage", "clean_streak", "status",
                "updated_at"}
              name == "review_items"
  <2>1. columns = own \cup given
    BY <1>1
  <2>. HIDE DEF own, given, name
  <2>2. Required(name, own) \cup Required(name, given) = Required(name, columns)
    BY <2>1 DEF Required
  <2>. QED
    BY <2>2 DEF own, given, name
<1>. QED
  BY <1>1, <1>2, <1>3, <1>4 DEF ReviewItem, Owned

LEMMA VoiceConsentIsDeclared == VoiceConsent = Consents14
<1>. DEFINE columns == ConsentsColumns
            others == {}
<1>1. columns = {"user_id"} \cup {"id", "transcription", "scoring", "b2b_share", "model_training",
      "updated_at"}
  BY DEF ConsentsColumns
<1>2. others = {}
  OBVIOUS
<1>3. Consents14 = Required("voice_consents", columns) \cup Optional("voice_consents", others)
        \cup (Refers("voice_consents", "user_id", "users") \cup Unique("voice_consents",
        <<"user_id">>) \cup Index("voice_consents", <<"user_id">>))
  BY DEF Consents14, Table
<1>. HIDE DEF columns, others
<1>4. Required("voice_consents", {"user_id"}) \cup Required("voice_consents", {"id",
      "transcription", "scoring", "b2b_share", "model_training", "updated_at"}) =
      Required("voice_consents", columns)
  <2>. DEFINE own == {"user_id"}
              given == {"id", "transcription", "scoring", "b2b_share", "model_training", "updated_at"}
              name == "voice_consents"
  <2>1. columns = own \cup given
    BY <1>1
  <2>. HIDE DEF own, given, name
  <2>2. Required(name, own) \cup Required(name, given) = Required(name, columns)
    BY <2>1 DEF Required
  <2>. QED
    BY <2>2 DEF own, given, name
<1>. QED
  BY <1>1, <1>2, <1>3, <1>4, NoOptional DEF VoiceConsent, Owned

LEMMA IdempotencyKeyIsDeclared == IdempotencyKey = Keys21
<1>. DEFINE columns == KeysColumns \ {"response"}
            others == {} \cup {"response"}
<1>1. columns = {"user_id"} \cup {"id", "key", "created_at"}
  BY DEF KeysColumns
<1>2. others = {"response"}
  OBVIOUS
<1>3. Keys21 = Required("idempotency_keys", columns) \cup Optional("idempotency_keys", others)
        \cup (Refers("idempotency_keys", "user_id", "users") \cup Unique("idempotency_keys",
        <<"user_id", "key">>) \cup Index("idempotency_keys", <<"user_id">>)
        \cup Index("idempotency_keys", <<"created_at">>))
  BY DEF Keys21, Table
<1>. HIDE DEF columns, others
<1>4. Required("idempotency_keys", {"user_id"}) \cup Required("idempotency_keys", {"id", "key",
      "created_at"}) = Required("idempotency_keys", columns)
  <2>. DEFINE own == {"user_id"}
              given == {"id", "key", "created_at"}
              name == "idempotency_keys"
  <2>1. columns = own \cup given
    BY <1>1
  <2>. HIDE DEF own, given, name
  <2>2. Required(name, own) \cup Required(name, given) = Required(name, columns)
    BY <2>1 DEF Required
  <2>. QED
    BY <2>2 DEF own, given, name
<1>. QED
  BY <1>1, <1>2, <1>3, <1>4 DEF IdempotencyKey, Owned

LEMMA AnalyticsEventRowIsDeclared == AnalyticsEventRow = Events18
<1>. DEFINE columns == EventsColumns
            others == {}
<1>1. columns = {"user_id"} \cup {"id", "name", "properties", "created_at"}
  BY DEF EventsColumns
<1>2. others = {}
  OBVIOUS
<1>3. Events18 = Required("analytics_events", columns) \cup Optional("analytics_events",
        others) \cup (Refers("analytics_events", "user_id", "users") \cup Index("analytics_events",
        <<"name">>) \cup Index("analytics_events", <<"user_id">>) \cup Index("analytics_events",
        <<"created_at">>) \cup ActivationOnce)
  BY DEF Events18, Table
<1>. HIDE DEF columns, others
<1>4. Required("analytics_events", {"user_id"}) \cup Required("analytics_events", {"id", "name",
      "properties", "created_at"}) = Required("analytics_events", columns)
  <2>. DEFINE own == {"user_id"}
              given == {"id", "name", "properties", "created_at"}
              name == "analytics_events"
  <2>1. columns = own \cup given
    BY <1>1
  <2>. HIDE DEF own, given, name
  <2>2. Required(name, own) \cup Required(name, given) = Required(name, columns)
    BY <2>1 DEF Required
  <2>. QED
    BY <2>2 DEF own, given, name
<1>5. UNION {Index("analytics_events", <<c>>) : c \in {"name", "user_id", "created_at"}}
        = Index("analytics_events", <<"name">>) \cup Index("analytics_events", <<"user_id">>)
          \cup Index("analytics_events", <<"created_at">>)
  OBVIOUS
<1>. QED
  BY <1>1, <1>2, <1>3, <1>4, <1>5, NoOptional DEF AnalyticsEventRow, Owned, ActivationOnce

LEMMA ModelsAreDeclared == Metadata = SchemaOf(27)
<1>1. /\ At("users", 27) = User
      /\ At("learner_profiles", 27) = LearnerProfile
      /\ At("sessions", 27) = ConversationSession
      /\ At("refresh_tokens", 27) = RefreshToken
      /\ At("transcripts", 27) = TranscriptRow
      /\ At("debriefs", 27) = DebriefRow
      /\ At("missions", 27) = Mission
      /\ At("vocabulary_entries", 27) = VocabularyEntry
      /\ At("review_items", 27) = ReviewItem
      /\ At("voice_consents", 27) = VoiceConsent
      /\ At("idempotency_keys", 27) = IdempotencyKey
      /\ At("analytics_events", 27) = AnalyticsEventRow
  BY AtEach, UserIsDeclared, LearnerProfileIsDeclared, ConversationSessionIsDeclared,
       RefreshTokenIsDeclared, TranscriptRowIsDeclared, DebriefRowIsDeclared, MissionIsDeclared,
       VocabularyEntryIsDeclared, ReviewItemIsDeclared, VoiceConsentIsDeclared,
       IdempotencyKeyIsDeclared, AnalyticsEventRowIsDeclared
     DEF UsersAt, ProfilesAt, SessionsAt, RefreshesAt, TranscriptsAt, DebriefsAt, MissionsAt,
       VocabularyAt, ReviewsAt, ConsentsAt, KeysAt, EventsAt
<1>2. SchemaOf(27) = At("users", 27)
        \cup At("learner_profiles", 27)
        \cup At("sessions", 27)
        \cup At("refresh_tokens", 27)
        \cup At("transcripts", 27)
        \cup At("debriefs", 27)
        \cup At("missions", 27)
        \cup At("vocabulary_entries", 27)
        \cup At("review_items", 27)
        \cup At("voice_consents", 27)
        \cup At("idempotency_keys", 27)
        \cup At("analytics_events", 27)
  BY DEF SchemaOf, TableNames
<1>. QED
  BY <1>1, <1>2 DEF Metadata

----------------------------------------------------------------------------
(* The migrations: the schema at every step                                *)

\* The inductive invariant: where the walk stands, what its schema is, and why the
\* last command, if it was refused, was refused.
MigrationInv ==
    /\ MigrationTypeOK
    /\ database.schema = SchemaOf(revision)
    /\ outcome = "upgrade" => ~OneAccount(database) /\ revision < LowercaseRevision
    /\ outcome = "downgrade" => database.sessions # {} /\ revision >= RoomNameRevision

LEMMA InitStands == MigrationInit => MigrationInv
<1>. SUFFICES ASSUME MigrationInit PROVE MigrationInv
  OBVIOUS
<1>1. HeadRevision = 27
  BY RevisionsAreScripts
<1>2. IsDatabase(database) /\ database.schema = {}
  BY DEF MigrationInit, EmptyDatabase, IsDatabase
<1>. QED
  BY <1>1, <1>2, NothingAtFirst DEF MigrationInit, MigrationInv, MigrationTypeOK

LEMMA UpgradeStands ==
    ASSUME MigrationInv, Upgrade
    PROVE  MigrationInv'
<1>0. HeadRevision = 27
  BY RevisionsAreScripts
<1>1. PICK to \in {revision + 1, HeadRevision} : Command("upgrade", to)
  BY DEF Upgrade
<1>2. revision \in 0..27 /\ to \in 0..27 /\ revision <= to
  BY <1>0, <1>1 DEF Upgrade, MigrationInv, MigrationTypeOK
<1>3. IsDatabase(database) /\ database.schema = SchemaOf(revision)
  BY DEF MigrationInv, MigrationTypeOK
<1>. DEFINE run == RunScripts(database, Ups(revision, to))
<1>4. Reaches(run, database, SchemaOf(to), UpgradeNeed(revision))
  BY <1>2, <1>3, UpgradeReaches
<1>5. /\ run.ok => database' = run.db /\ revision' = to /\ outcome' = "done"
      /\ ~run.ok => outcome' = "upgrade" /\ database' = database /\ revision' = revision
  BY <1>1 DEF Command
<1>. HIDE DEF run
<1>6. CASE run.ok
  <2>1. IsDatabase(database') /\ database'.schema = SchemaOf(revision') /\ revision' \in 0..27
    BY <1>2, <1>4, <1>5, <1>6 DEF Reaches
  <2>2. outcome' = "done"
    BY <1>5, <1>6
  <2>. QED
    BY <1>0, <2>1, <2>2 DEF MigrationInv, MigrationTypeOK, HeadRevision
<1>7. CASE ~run.ok
  <2>1. ~Meets(database, UpgradeNeed(revision))
    BY <1>4, <1>7 DEF Reaches
  <2>2. UpgradeNeed(revision) = "one account" /\ revision < 19
    BY <1>2, <2>1 DEF UpgradeNeed, Meets
  <2>3. ~OneAccount(database)
    BY <2>1, <2>2 DEF Meets
  <2>4. outcome' = "upgrade" /\ database' = database /\ revision' = revision
    BY <1>5, <1>7
  <2>5. OneAccount(database)' = OneAccount(database)
    BY <2>4 DEF OneAccount
  <2>. QED
    BY <1>0, <1>2, <1>3, <2>2, <2>3, <2>4, <2>5
       DEF MigrationInv, MigrationTypeOK, HeadRevision, LowercaseRevision
<1>. QED
  BY <1>6, <1>7

LEMMA DowngradeStands ==
    ASSUME MigrationInv, Downgrade
    PROVE  MigrationInv'
<1>0. HeadRevision = 27
  BY RevisionsAreScripts
<1>1. PICK to \in {revision - 1, 0} : Command("downgrade", to)
  BY DEF Downgrade
<1>2. revision \in 0..27 /\ to \in 0..27 /\ to <= revision
  BY <1>0, <1>1 DEF Downgrade, MigrationInv, MigrationTypeOK
<1>3. IsDatabase(database) /\ database.schema = SchemaOf(revision)
  BY DEF MigrationInv, MigrationTypeOK
<1>. DEFINE run == RunScripts(database, Downs(revision, to))
<1>4. Reaches(run, database, SchemaOf(to), DowngradeNeed(revision))
  BY <1>2, <1>3, DowngradeReaches
<1>5. /\ run.ok => database' = run.db /\ revision' = to /\ outcome' = "done"
      /\ ~run.ok => outcome' = "downgrade" /\ database' = database /\ revision' = revision
  BY <1>1 DEF Command
<1>. HIDE DEF run
<1>6. CASE run.ok
  <2>1. IsDatabase(database') /\ database'.schema = SchemaOf(revision') /\ revision' \in 0..27
    BY <1>2, <1>4, <1>5, <1>6 DEF Reaches
  <2>2. outcome' = "done"
    BY <1>5, <1>6
  <2>. QED
    BY <1>0, <2>1, <2>2 DEF MigrationInv, MigrationTypeOK, HeadRevision
<1>7. CASE ~run.ok
  <2>1. ~Meets(database, DowngradeNeed(revision))
    BY <1>4, <1>7 DEF Reaches
  <2>2. DowngradeNeed(revision) = "no sessions" /\ revision >= 22
    BY <1>2, <2>1 DEF DowngradeNeed, Meets
  <2>3. database.sessions # {}
    BY <2>1, <2>2 DEF Meets
  <2>4. outcome' = "downgrade" /\ database' = database /\ revision' = revision
    BY <1>5, <1>7
  <2>. QED
    BY <1>0, <1>2, <1>3, <2>2, <2>3, <2>4
       DEF MigrationInv, MigrationTypeOK, HeadRevision, RoomNameRevision
<1>. QED
  BY <1>6, <1>7

\* The application writes rows, never the schema.
LEMMA WritesKeepSchema ==
    ASSUME MigrationTypeOK, SessionWrites \/ ActivationWrites \/ AccountWrites \/ ClaimWrites
    PROVE  database'.schema = database.schema /\ revision' = revision /\ outcome' = "done"
<1>1. /\ \A set : [database EXCEPT !.sessions = set].schema = database.schema
      /\ \A set : [database EXCEPT !.activations = set].schema = database.schema
      /\ \A set : [database EXCEPT !.accounts = set].schema = database.schema
      /\ \A set : [database EXCEPT !.claim = set].schema = database.schema
  BY DEF MigrationTypeOK, IsDatabase
<1>2. ASSUME NEW db, Write(db), db.schema = database.schema
      PROVE  database'.schema = database.schema /\ revision' = revision /\ outcome' = "done"
  BY <1>2 DEF Write
<1>3. CASE SessionWrites
  <2>1. \E set : Write([database EXCEPT !.sessions = set])
    BY <1>3 DEF SessionWrites, OpenSession, EndSession, EraseSessions
  <2>. QED
    BY <1>1, <1>2, <2>1
<1>4. CASE ActivationWrites
  <2>1. \E set : Write([database EXCEPT !.activations = set])
    BY <1>4 DEF ActivationWrites, Activate
  <2>. QED
    BY <1>1, <1>2, <2>1
<1>5. CASE AccountWrites
  <2>1. \E set : Write([database EXCEPT !.accounts = set])
    BY <1>5 DEF AccountWrites, Register, MergeAccounts
  <2>. QED
    BY <1>1, <1>2, <2>1
<1>6. CASE ClaimWrites
  <2>1. \E claim : Write([database EXCEPT !.claim = claim])
    BY <1>6 DEF ClaimWrites, Claim, Complete
  <2>. QED
    BY <1>1, <1>2, <2>1
<1>. QED
  BY <1>3, <1>4, <1>5, <1>6

LEMMA NextStands ==
    ASSUME MigrationInv, [MigrationNext]_migrationVars
    PROVE  MigrationInv'
<1>1. CASE Upgrade
  BY <1>1, UpgradeStands
<1>2. CASE Downgrade
  BY <1>2, DowngradeStands
<1>3. CASE SessionWrites \/ ActivationWrites \/ AccountWrites \/ ClaimWrites
  <2>1. MigrationTypeOK'
    BY <1>3, WriteStep DEF MigrationInv
  <2>2. database'.schema = database.schema /\ revision' = revision /\ outcome' = "done"
    BY <1>3, WritesKeepSchema DEF MigrationInv
  <2>3. database'.schema = SchemaOf(revision')
    BY <2>2 DEF MigrationInv
  <2>. QED
    BY <2>1, <2>2, <2>3 DEF MigrationInv
<1>4. CASE UNCHANGED migrationVars
  BY <1>4 DEF migrationVars, MigrationInv, MigrationTypeOK, OneAccount, IsDatabase, HeadRevision
<1>. QED
  BY <1>1, <1>2, <1>3, <1>4 DEF MigrationNext

LEMMA StandingIsRevisions == MigrationInv => SchemaIsRevisions
<1>. SUFFICES ASSUME MigrationInv PROVE SchemaIsRevisions
  OBVIOUS
<1>1. HeadRevision = 27 /\ revision \in 0..27 /\ database.schema = SchemaOf(revision)
  BY RevisionsAreScripts DEF MigrationInv, MigrationTypeOK
<1>2. database.schema = SchemaAt[revision]
  BY <1>1, SchemaAtIs
<1>3. revision = HeadRevision => database.schema = Metadata
  BY <1>1, ModelsAreDeclared
<1>4. ASSUME ~OneAccount(database) PROVE Cardinality(database.accounts) = 2
  <2>1. database.accounts \in SUBSET {"jean", "Jean"}
    BY DEF MigrationInv, MigrationTypeOK, IsDatabase, Spellings
  <2>2. database.accounts = {"jean", "Jean"}
    BY <1>4, <2>1 DEF OneAccount
  <2>3. IsFiniteSet({"jean"}) /\ Cardinality({"jean"}) = 1
    BY FS_Singleton
  <2>4. Cardinality({"jean"} \cup {"Jean"}) = 2
    BY <2>3, FS_AddElement
  <2>5. {"jean"} \cup {"Jean"} = {"jean", "Jean"}
    OBVIOUS
  <2>. QED
    BY <2>2, <2>4, <2>5
<1>5. outcome = "upgrade" => Cardinality(database.accounts) = 2 /\ revision < LowercaseRevision
  BY <1>4 DEF MigrationInv
<1>6. outcome = "downgrade" => database.sessions # {} /\ revision >= RoomNameRevision
  BY DEF MigrationInv
<1>. QED
  BY <1>2, <1>3, <1>5, <1>6 DEF SchemaIsRevisions

(* Wherever upgrades, downgrades, refused commands and the writes between   *)
(* them have led, the schema is the one that the revision says, at head it  *)
(* is the one the models declare, and a command is refused only over        *)
(* accounts that differ by case or sessions without a room name             *)
(* (migrations/env.py, migrations/versions).                                *)
THEOREM SchemaStaysRevisions == MigrationSpec => []SchemaIsRevisions
<1>1. MigrationSpec => []MigrationInv
  BY InitStands, NextStands, PTL DEF MigrationSpec
<1>. QED
  BY <1>1, StandingIsRevisions, PTL
==============================================================================
