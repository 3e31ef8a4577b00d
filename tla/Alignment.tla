----------------------------- MODULE Alignment -----------------------------
(* The core of the pronunciation service: the CTC forced alignment of a      *)
(* recording with the phonemes that were to be said, and the comparison of   *)
(* each phoneme with its competitors on its frames (GOP).  A recording is a  *)
(* sequence of frames, a frame gives every phoneme of the model and the      *)
(* blank a log-probability, an integer here.  A score is kept as the sum     *)
(* and the number that _gop_to_score averages.                               *)
EXTENDS Integers, Sequences, FiniteSets
LOCAL INSTANCE FiniteSetsExt

BlankId == 0
Recording(recording) ==
    BlankId \in DOMAIN recording[1] /\ recording \in Seq([DOMAIN recording[1] -> Int])
Phonemes(recording) == DOMAIN recording[1] \ {BlankId}

-----------------------------------------------------------------------------
(* forced_align.                                                            *)

\* blank, t1, blank, t2, ..., blank.
Extended(ids) == [s \in 1..(2 * Len(ids) + 1) |-> IF s % 2 = 0 THEN ids[s \div 2] ELSE BlankId]

\* Stay, advance, or skip the blank between two distinct labels.
Predecessors(ext, s) ==
    {s} \cup (IF s > 1 THEN {s - 1} ELSE {})
        \cup (IF s > 2 /\ ext[s] # BlankId /\ ext[s] # ext[s - 2] THEN {s - 2} ELSE {})

\* A cell of the trellis: whether a path ends in it, the best log-probability of one and
\* the cell before; a value of -inf is a cell that is not reached, 0 the -1 of back.
Unreached == [reached |-> FALSE, value |-> 0, back |-> 0]
OpeningRow(frame, ext) ==
    [s \in DOMAIN ext |->
        IF s <= 2 THEN [reached |-> TRUE, value |-> frame[ext[s]], back |-> 0] ELSE Unreached]
\* Of equal predecessors the nearest is taken.
BestOf(row, from) ==
    LET top == Max({row[p].value : p \in from}) IN Max({p \in from : row[p].value = top})
NextRow(row, frame, ext) ==
    [s \in DOMAIN ext |->
        LET from == {p \in Predecessors(ext, s) : row[p].reached}
            best == BestOf(row, from)
        IN  IF from = {} THEN Unreached
            ELSE [reached |-> TRUE, value |-> row[best].value + frame[ext[s]], back |-> best]]
Trellis(recording, ext) ==
    LET rows[f \in 1..Len(recording)] ==
            IF f = 1 THEN OpeningRow(recording[1], ext) ELSE NextRow(rows[f - 1], recording[f], ext)
    IN  rows

\* The better of the last label and the blank behind it, which wins a tie of two -inf too.
EndCell(row) ==
    LET blank == row[Len(row)]
        label == row[Len(row) - 1]
    IN  IF label.reached /\ (blank.reached => label.value > blank.value) THEN Len(row) - 1 ELSE Len(row)
\* The index -1 is the last cell to Python.
Back(row, s) == row[IF s = 0 THEN Len(row) ELSE s].back
\* The k-th cell from the end.
Backtracked(rows) ==
    LET n == Len(rows)
        at[k \in 0..n] == IF k = 0 THEN EndCell(rows[n]) ELSE Back(rows[n - k + 1], at[k - 1])
    IN  [f \in 1..n |-> at[n - f]]

Unaligned(recording) == <<Len(recording) + 1, Len(recording)>>
SpanOf(path, s) == LET frames == {f \in 1..Len(path) : path[f] = s}
                   IN  IF frames = {} THEN <<Len(path) + 1, Len(path)>>
                       ELSE <<Min(frames), Max(frames)>>

\* Too few frames: one each for the first phonemes.
Greedy(recording, ids) ==
    [i \in 1..Len(ids) |-> IF i <= Len(recording) THEN <<i, i>> ELSE Unaligned(recording)]
ForcedAlign(recording, ids) ==
    IF Len(recording) < Len(ids) THEN Greedy(recording, ids)
    ELSE LET path == Backtracked(Trellis(recording, Extended(ids)))
         IN  [i \in 1..Len(ids) |-> SpanOf(path, 2 * i)]

-----------------------------------------------------------------------------
(* gop_scores and ScoringService.score.                                     *)

\* How far the best competitor is behind, without the blank; 0 without a competitor.
GopAt(frame, id) ==
    LET rivals == DOMAIN frame \ {id, BlankId}
    IN  IF rivals = {} THEN 0 ELSE frame[id] - Max({frame[r] : r \in rivals})
GopOf(recording, id, span) ==
    [total |-> MapThenSumSet(LAMBDA f : GopAt(recording[f], id), span[1]..span[2]),
     frames |-> span[2] - span[1] + 1]
GopScores(recording, ids) ==
    LET spans == ForcedAlign(recording, ids)
    IN  [i \in 1..Len(ids) |-> [phoneme |-> ids[i], span |-> spans[i],
                               gop |-> GopOf(recording, ids[i], spans[i])]]

\* A phoneme that the model does not know is left out.
Known(recording, expected) ==
    LET known[k \in 0..Len(expected)] ==
            IF k = 0 THEN <<>>
            ELSE IF expected[k] \in Phonemes(recording) THEN Append(known[k - 1], expected[k]) ELSE known[k - 1]
    IN  known[Len(expected)]
Score(recording, expected) ==
    LET ids == Known(recording, expected) IN IF ids = <<>> THEN <<>> ELSE GopScores(recording, ids)

-----------------------------------------------------------------------------
(* What an alignment is: a label or the blank for every frame, of which the *)
(* phonemes remain when repetitions are merged and blanks dropped.          *)
Collapsed(labels) ==
    LET said[f \in 0..Len(labels)] ==
            IF f = 0 THEN <<>>
            ELSE IF labels[f] # BlankId /\ (f > 1 => labels[f] # labels[f - 1])
                 THEN Append(said[f - 1], labels[f]) ELSE said[f - 1]
    IN  said[Len(labels)]
Labellings(recording, ids) ==
    {w \in [1..Len(recording) -> DOMAIN recording[1]] : Collapsed(w) = ids}
Likelihood(recording, labels) ==
    LET total[f \in 0..Len(recording)] ==
            IF f = 0 THEN 0 ELSE total[f - 1] + recording[f][labels[f]]
    IN  total[Len(recording)]

\* The labelling that the spans stand for.
Labelled(recording, scores) ==
    [f \in 1..Len(recording) |->
        IF \E i \in 1..Len(scores) : f \in scores[i].span[1]..scores[i].span[2]
        THEN LET i == CHOOSE i \in 1..Len(scores) : f \in scores[i].span[1]..scores[i].span[2]
             IN  scores[i].phoneme
        ELSE BlankId]

\* The scores of a recording belong to its most likely alignment, if it has one.
BestAligned(recording, expected, scores) ==
    LET ids == Known(recording, expected)
        all == Labellings(recording, ids)
        w   == Labelled(recording, scores)
    IN
    /\ Len(scores) = Len(ids) /\ \A i \in 1..Len(ids) : scores[i].phoneme = ids[i]
    /\ all # {} => w \in all
    /\ \A v \in all : Likelihood(recording, v) <= Likelihood(recording, w)
=============================================================================
