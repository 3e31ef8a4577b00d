------------------------------ MODULE Reports ------------------------------
(* What a learner is told of their progress, computed from the debriefs that *)
(* are stored: the before/after proof for a skill (ProofService), and the    *)
(* snapshot with the CEFR trend and the recurring errors (ProgressService).  *)
(* Each takes two queries of one READ COMMITTED transaction, between which a *)
(* debrief may be stored or the learner may erase everything.  A session's   *)
(* debrief is the list of its errors' types and the number of its learner's  *)
(* turns; a correction is named by its session and its place in the list.    *)
EXTENDS Integers, Sequences, FiniteSets

CONSTANTS Talked,     \* the ids of the sessions on the skill, in the order of their creation
          Started(_), \* started_at of a session
          Contents,   \* the debriefs that are tried: [errors, turns]
          Recent,     \* RECENT_DEBRIEFS_WINDOW
          TopErrors,  \* MAX_RECURRING_ERRORS
          TrendPoints \* MAX_TREND_POINTS
ASSUME ReportsAssumption ==
    /\ Talked \subseteq Nat /\ Recent \in Nat /\ TopErrors \in Nat /\ TrendPoints \in Nat
    /\ \A s \in Talked : Started(s) \in Nat
    /\ \A s, t \in Talked : s < t => Started(s) <= Started(t) \* both given under the user lock
    /\ \A c \in Contents : c.errors \in Seq(Int) /\ c.turns \in Nat

VARIABLES debriefs,  \* the stored debriefs: session -> content
          erasedTo,  \* the sessions up to this id are gone
          reader,    \* where the two requests are
          baseline,  \* the first row of a proof: [id, content], or NoSession
          proof,     \* the pair it compares, or NoProof
          trend,     \* the sessions of the CEFR trend, oldest first
          top        \* the recurring errors: [type, count, correction], in order

reportVars == <<debriefs, erasedTo, reader, baseline, proof, trend, top>>

NoSession == [id |-> 0, content |-> [errors |-> <<>>, turns |-> 0]]
NoProof == <<>>

\* error_type is a number here, alphabetical order that of the numbers; an entry
\* without a type counts as "other", one that is no object is skipped.
Blank == 0
Malformed == -1
Other == 9
TypeOf(entry) == IF entry = Blank THEN Other ELSE entry

ReportsInit ==
    /\ debriefs = <<>> /\ erasedTo = 0 /\ reader = "idle"
    /\ baseline = NoSession /\ proof = NoProof /\ trend = <<>> /\ top = <<>>

-----------------------------------------------------------------------------
(* The stored debriefs.                                                     *)

\* Sessions may be debriefed in any order, long after they were held.
StoreDebrief(s, c) ==
    /\ s > erasedTo /\ s \notin DOMAIN debriefs
    /\ debriefs' = [t \in DOMAIN debriefs \cup {s} |-> IF t = s THEN c ELSE debriefs[t]]
    /\ UNCHANGED <<erasedTo, reader, baseline, proof, trend, top>>

\* An erasure deletes every session up to the newest, s, with its debriefs.
EraseHistory(s) ==
    /\ s > erasedTo /\ \A t \in DOMAIN debriefs : t <= s
    /\ debriefs' = <<>> /\ erasedTo' = s
    /\ UNCHANGED <<reader, baseline, proof, trend, top>>

\* ORDER BY started_at, id: as many are before the k-th as it takes.
Earlier(s, t) == Started(s) < Started(t) \/ (Started(s) = Started(t) /\ s < t)
Preceding(s) == {t \in DOMAIN debriefs : Earlier(t, s)}
Ordered == [k \in 1..Cardinality(DOMAIN debriefs) |->
               CHOOSE s \in DOMAIN debriefs : Cardinality(Preceding(s)) = k - 1]
Row(s) == [id |-> s, content |-> debriefs[s]]

-----------------------------------------------------------------------------
(* The proof: first and latest session.                                     *)

ReadBaseline ==
    /\ reader = "idle" /\ DOMAIN debriefs # {}
    /\ baseline' = Row(Ordered[1]) /\ proof' = NoProof
    /\ reader' = "latest"
    /\ UNCHANGED <<debriefs, erasedTo, trend, top>>

\* Nothing is left, or the latest is the first: not enough yet.
ReadLatest ==
    /\ reader = "latest"
    /\ proof' = IF DOMAIN debriefs = {} \/ Ordered[Len(Ordered)] = baseline.id THEN NoProof
                ELSE <<baseline, Row(Ordered[Len(Ordered)])>>
    /\ reader' = "idle" /\ baseline' = NoSession
    /\ UNCHANGED <<debriefs, erasedTo, trend, top>>

\* The entries of a debrief that count, and their types.
Entries(content) == {j \in 1..Len(content.errors) : content.errors[j] # Malformed}
TypesOf(content) == {TypeOf(content.errors[j]) : j \in Entries(content)}
CountOf(content, type) == Cardinality({j \in Entries(content) : TypeOf(content.errors[j]) = type})

\* count / turns, or the count itself when the turns are not known.
Turns(content) == IF content.turns > 0 THEN content.turns ELSE 1
\* A comparison of the counts, whatever the length of the sessions.
LowerRateRaw(type, a, b) == CountOf(a, type) < CountOf(b, type)
LowerRate(type, a, b) == CountOf(a, type) * Turns(b) < CountOf(b, type) * Turns(a)

Resolved(before, after) == TypesOf(before) \ TypesOf(after)
Improved(before, after) == {t \in TypesOf(before) \cap TypesOf(after) : LowerRate(t, after, before)}
NewOrWorse(before, after) == {t \in TypesOf(after) : LowerRate(t, before, after)}

-----------------------------------------------------------------------------
(* The snapshot.                                                            *)

NewestSessions(n) == [k \in 1..(IF n < Len(Ordered) THEN n ELSE Len(Ordered)) |->
                         Ordered[Len(Ordered) + 1 - k]]

ReadTrend ==
    /\ reader = "idle" /\ DOMAIN debriefs # {}
    /\ trend' = LET newest == NewestSessions(TrendPoints)
                IN  [k \in 1..Len(newest) |-> newest[Len(newest) + 1 - k]] \* oldest first
    /\ reader' = "errors"
    /\ UNCHANGED <<debriefs, erasedTo, baseline, proof, top>>

\* ORDER BY started_at alone: sessions of one instant come in any order.
NewestFirst == {q \in [1..Cardinality(DOMAIN debriefs) -> DOMAIN debriefs] :
    /\ \A s \in DOMAIN debriefs : \E i \in DOMAIN q : q[i] = s
    /\ \A i, j \in DOMAIN q : i < j => Started(q[i]) >= Started(q[j])}

\* The errors of the newest debriefs: <<place of the debrief, place in its list>>,
\* newest debrief first.
ErrorRows(q) == UNION {{<<i, j>> : j \in Entries(debriefs[q[i]])} : i \in {n \in DOMAIN q : n <= Recent}}
RowType(q, row) == TypeOf(debriefs[q[row[1]]].errors[row[2]])
RowsOf(q, type) == {row \in ErrorRows(q) : RowType(q, row) = type}
Precedes(row, other) == row[1] < other[1] \/ (row[1] = other[1] /\ row[2] < other[2])
FirstRow(q, type) == CHOOSE row \in RowsOf(q, type) :
                         \A other \in RowsOf(q, type) : other = row \/ Precedes(row, other)
Correction(q, type) == <<q[FirstRow(q, type)[1]], FirstRow(q, type)[2]>>

\* Most frequent first, ties in alphabetical order, the first few.
MoreFrequent(a, b) == a.count > b.count \/ (a.count = b.count /\ a.type < b.type)
ErrorTypes(q) == {RowType(q, row) : row \in ErrorRows(q)}
Tally(q) == {[type |-> t, count |-> Cardinality(RowsOf(q, t)), correction |-> Correction(q, t)] :
                t \in ErrorTypes(q)}
Recurring(q) ==
    LET n == Cardinality(Tally(q))
    IN  [k \in 1..(IF TopErrors < n THEN TopErrors ELSE n) |->
            CHOOSE e \in Tally(q) : Cardinality({x \in Tally(q) : MoreFrequent(x, e)}) = k - 1]

ReadErrors ==
    /\ reader = "errors"
    /\ \E q \in NewestFirst : top' = Recurring(q)
    /\ reader' = "idle"
    /\ UNCHANGED <<debriefs, erasedTo, baseline, proof, trend>>

ReportsNext ==
    \/ \E s \in Talked, c \in Contents : StoreDebrief(s, c)
    \/ \E s \in Talked : EraseHistory(s)
    \/ ReadBaseline \/ ReadLatest \/ ReadTrend \/ ReadErrors

ReportsSpec == ReportsInit /\ [][ReportsNext]_reportVars

-----------------------------------------------------------------------------
(* Properties.                                                              *)

Total(content) == Cardinality(Entries(content))

\* A proof compares an earlier session with a later one, says one thing of each
\* type, and names a regression, or a gain, whenever the errors per turn went up, or
\* down, on the whole.
HonestProof(b, l) ==
    LET before == b.content
        after == l.content
        gains == Resolved(before, after) \cup Improved(before, after)
        losses == NewOrWorse(before, after)
    IN  /\ Earlier(b.id, l.id)
        /\ gains \cap losses = {}
        /\ Total(after) * Turns(before) > Total(before) * Turns(after) => losses # {}
        /\ Total(after) * Turns(before) < Total(before) * Turns(after) => gains # {}

\* The correction shown with a recurring error is the learner's latest of that type.
LatestCorrection(error) == \A s \in DOMAIN debriefs :
    Started(s) > Started(error.correction[1]) => error.type \notin TypesOf(debriefs[s])

\* The trend runs forward, and the sessions it leaves out are all earlier.
Forward(points) ==
    /\ \A i, j \in 1..Len(points) : i < j => Earlier(points[i], points[j])
    /\ \A s \in DOMAIN debriefs : \/ \E i \in 1..Len(points) : points[i] = s
                                  \/ \A i \in 1..Len(points) : Earlier(s, points[i])

(* A shorter session cannot pass for progress, nor hide a regression, and   *)
(* whatever is stored or erased between the two queries the proof never     *)
(* runs backwards (proof/service.py, proof/repository.py); the trend is     *)
(* that of the latest sessions, in their order, and a recurring error comes *)
(* with its latest correction and only once (progress/repository.py,        *)
(* progress/service.py).                                                    *)
HonestReports == [][
    /\ proof' # NoProof => HonestProof(proof'[1], proof'[2])
    /\ trend' # trend => Forward(trend')
    /\ top' # top => /\ \A i \in 1..Len(top') : LatestCorrection(top'[i])
                     /\ \A i, j \in 1..Len(top') : i # j => top'[i].type # top'[j].type
    ]_reportVars
=============================================================================
