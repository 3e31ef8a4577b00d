---------------------------- MODULE VoiceExport ----------------------------
(* The export of a learner's voice data: _keyset_pages reads a category in  *)
(* pages, each in a database session of its own, while the rows it reads    *)
(* are written and erased.  Utterances and debriefs are read in the order   *)
(* of (started_at, session id); vocabulary and review items in the order of *)
(* their ids, which is the same walk with one started_at for all.           *)
EXTENDS Integers, Sequences, FiniteSets

CONSTANTS RowIds,   \* ids of rows: natural numbers
          Instants, \* started_at: natural numbers, equal ones included
          PageSize  \* _EXPORT_PAGE_SIZE
ASSUME ExportAssumption == RowIds \subseteq Nat /\ Instants \subseteq Nat /\ PageSize \in Nat \ {0}

VARIABLES stored,    \* the rows of the category: <<started_at, id>>
          written,   \* (history) the ids ever used
          page,      \* rows fetched and not yet sent
          full,      \* the page in hand had PageSize rows
          cursor,    \* the key of the last row sent
          sent,      \* what the client has received
          exporting, \* "before", "reading", "done"
          throughout \* (history) rows stored since the export began

exportVars == <<stored, written, page, full, cursor, sent, exporting, throughout>>

NoCursor == <<-1, -1>>
Before(a, b) == a[1] < b[1] \/ (a[1] = b[1] /\ a[2] < b[2])

ExportInit == /\ stored = {} /\ written = {} /\ page = <<>> /\ full = TRUE
              /\ cursor = NoCursor /\ sent = <<>> /\ exporting = "before" /\ throughout = {}

\* Ids grow; started_at is the client's or the server's clock, and need not.
StoreRow(started, id) ==
    /\ \A i \in written : i < id
    /\ written' = written \cup {id}
    /\ stored' = stored \cup {<<started, id>>}
    /\ UNCHANGED <<page, full, cursor, sent, exporting, throughout>>

\* An erasure deletes them all in one transaction.
EraseRows == /\ stored # {} /\ stored' = {} /\ throughout' = {}
             /\ UNCHANGED <<written, page, full, cursor, sent, exporting>>

BeginExport == /\ exporting = "before" /\ exporting' = "reading" /\ throughout' = stored
               /\ UNCHANGED <<stored, written, page, full, cursor, sent>>

\* Resuming by started_at alone.
AfterCursorStarted(rows, key) == {r \in rows : key = NoCursor \/ key[1] < r[1]}

AfterCursor(rows, key) == {r \in rows : Before(key, r)}

\* The first PageSize rows, in order.
Limited(rows) ==
    LET Place(r) == Cardinality({x \in rows : Before(x, r)}) + 1
    IN  [i \in 1..(IF Cardinality(rows) < PageSize THEN Cardinality(rows) ELSE PageSize) |->
            CHOOSE r \in rows : Place(r) = i]

\* A short-lived session fetches a page; an empty one, or a short one sent, is the end.
FetchPage ==
    /\ exporting = "reading" /\ page = <<>>
    /\ LET rows == Limited(AfterCursor(stored, cursor))
       IN  IF full /\ rows # <<>>
           THEN /\ page' = rows /\ full' = (Len(rows) = PageSize)
                /\ UNCHANGED exporting
           ELSE exporting' = "done" /\ UNCHANGED <<page, full>>
    /\ UNCHANGED <<stored, written, cursor, sent, throughout>>

\* The client reads at its own pace; no connection is held meanwhile.
SendRow ==
    /\ page # <<>>
    /\ sent' = Append(sent, Head(page)) /\ cursor' = Head(page) /\ page' = Tail(page)
    /\ UNCHANGED <<stored, written, full, exporting, throughout>>

ExportNext == \/ \E started \in Instants, id \in RowIds : StoreRow(started, id)
              \/ EraseRows \/ BeginExport \/ FetchPage \/ SendRow

ExportSpec == ExportInit /\ [][ExportNext]_exportVars

-----------------------------------------------------------------------------
(* A finished export holds every row that was there from its first page to  *)
(* its last, each row once and in order, although pages are read apart and  *)
(* rows of equal started_at straddle them (_keyset_pages, #389).            *)
ExportComplete ==
    /\ \A i, j \in 1..Len(sent) : i < j => Before(sent[i], sent[j])
    /\ exporting = "done" => throughout \subseteq {sent[i] : i \in 1..Len(sent)}
=============================================================================
