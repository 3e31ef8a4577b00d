------------------------------ MODULE Attempts ------------------------------
(* A spoken attempt at a phrase (shadowing) or at a word of a minimal pair:  *)
(* the recording is transcribed and, with the learner's consent, scored by   *)
(* the pronunciation service at the same time; the words that came through   *)
(* are found twice, by compare_words in the text and by score_words in the   *)
(* recogniser's words.  A word is a sequence of tokens (a hyphen separates   *)
(* them, punctuation has none), a token a sequence of syllables.             *)
EXTENDS Alignment
LOCAL INSTANCE SequencesExt

CONSTANTS Tries,   \* [kind, target, other, spoken, recording, expected]
          NoScore, \* a score or a probability that is unknown
          Probabilities \* what a recogniser may give for a word it heard, in percent
ASSUME AttemptsAssumption ==
    /\ \A t \in Tries : /\ t.kind \in {"phrase", "pair"}
                        /\ {t.target, t.spoken} \subseteq Seq(Seq(Seq(STRING)))
                        /\ t.expected \in Seq(Nat)
                        /\ t.recording # <<>> => Recording(t.recording)
    /\ NoScore \notin Int /\ Probabilities \subseteq Int \cup {NoScore}

VARIABLES try,        \* the attempt
          mayScore,   \* whether the learner consents to scoring
          engine,     \* "gop", or "fake" where no service is configured
          attemptStep,\* "start", "running", "coach", "done" or "failed"
          recognised, \* the transcript, once it is there: [there, text, words]
          service,    \* the request to the service: "none", "running" or "done"
          phonemes,   \* the phoneme scores
          verdict,    \* the words: [heard, score] in order; for a pair [target, other]
          tip         \* "none", "given" or "missing"

attemptVars == <<try, mayScore, engine, attemptStep, recognised, service, phonemes, verdict, tip>>

NoTranscript == [there |-> FALSE, text |-> <<>>, words |-> <<>>]

AttemptsInit ==
    /\ try \in Tries /\ mayScore \in BOOLEAN /\ engine \in {"gop", "fake"}
    /\ attemptStep = "start" /\ recognised = NoTranscript
    /\ service = "none" /\ phonemes = <<>> /\ verdict = <<>> /\ tip = "none"

-----------------------------------------------------------------------------
(* Words.                                                                   *)

Normalize(word) == FlattenSeq(word)
\* The words that are more than punctuation.
Spoken(text) ==
    LET kept[k \in 0..Len(text)] ==
            IF k = 0 THEN <<>>
            ELSE IF Normalize(text[k]) = <<>> THEN kept[k - 1] ELSE Append(kept[k - 1], text[k])
    IN  kept[Len(text)]

\* The tokens of a text: <<place of the word, place in the word>>; how often one comes.
Tokens(text) == UNION {{<<i, j>> : j \in 1..Len(text[i])} : i \in 1..Len(text)}
Occurrences(text, token) == Cardinality({p \in Tokens(text) : text[p[1]][p[2]] = token})

\* A match that is not used up.
ConsumeNone(available, form) == available
\* Each heard token satisfies one target word.
Consume(available, form) == [available EXCEPT ![form] = @ - 1]

Compared(done, form) ==
    [available |-> IF done.available[form] > 0 THEN Consume(done.available, form) ELSE done.available,
     heard     |-> Append(done.heard, done.available[form] > 0)]
CompareWords(target, text) ==
    LET words == Spoken(target)
        forms == {Normalize(words[k]) : k \in 1..Len(words)}
        after[k \in 0..Len(words)] ==
            IF k = 0 THEN [available |-> [f \in forms |-> Occurrences(text, f)], heard |-> <<>>]
            ELSE Compared(after[k - 1], Normalize(words[k]))
    IN  after[Len(words)].heard
MissedWords(target, heard) ==
    LET missed == SelectSeq([k \in 1..Len(heard) |-> k], LAMBDA k : ~heard[k])
    IN  [i \in 1..Len(missed) |-> Spoken(target)[missed[i]]]

\* Percent; a probability is clamped, a word without one came through clearly.
Clarity(probability) == IF probability = NoScore THEN 100
                        ELSE IF probability > 100 THEN 100 ELSE IF probability < 0 THEN 0 ELSE probability
\* The recogniser's words of this form that are left, the first of which is taken.
OfForm(words, left, form) == {i \in left : Normalize(words[i].word) = form}
First(places) == CHOOSE i \in places : \A j \in places : i <= j
Scored(done, words, form) ==
    LET mine == OfForm(words, done.left, form) IN
    [left   |-> IF mine = {} THEN done.left ELSE done.left \ {First(mine)},
     scores |-> Append(done.scores, IF mine = {} THEN 0 ELSE Clarity(words[First(mine)].probability))]
ScoreWords(target, words) ==
    LET asked == Spoken(target)
        after[k \in 0..Len(asked)] ==
            IF k = 0 THEN [left |-> 1..Len(words), scores |-> <<>>]
            ELSE Scored(after[k - 1], words, Normalize(asked[k]))
    IN  IF words = <<>> THEN [k \in 1..Len(asked) |-> NoScore] ELSE after[Len(asked)].scores

\* Both have one entry per target word.
Merge(heard, scores) == [k \in 1..Len(heard) |-> [heard |-> heard[k], score |-> scores[k]]]

HeardWords(transcript) ==
    IF transcript.words # <<>> THEN {Normalize(w.word) : w \in ToSet(transcript.words)}
    ELSE {Normalize(w) : w \in ToSet(transcript.text)}
ScorePairAttempt(target, other, transcript) ==
    [target |-> Normalize(target) \in HeardWords(transcript) \ {<<>>},
     other |-> Normalize(other) \in HeardWords(transcript) \ {<<>>}]

-----------------------------------------------------------------------------
(* An attempt.                                                              *)

Phrase == try.kind = "phrase"

\* Without a recording nobody is asked.
NoAudio ==
    /\ attemptStep = "start" /\ try.recording = <<>>
    /\ attemptStep' = "done"
    /\ UNCHANGED <<try, mayScore, engine, recognised, service, phonemes, verdict, tip>>

\* The recogniser and the service are asked together; without consent or for a pair
\* the service is not, and a fake one has no scores.
ScoreAttempt ==
    /\ attemptStep = "start" /\ try.recording # <<>>
    /\ attemptStep' = "running"
    /\ service' = IF Phrase /\ mayScore /\ engine = "gop" THEN "running" ELSE "none"
    /\ UNCHANGED <<try, mayScore, engine, recognised, phonemes, verdict, tip>>

\* The words come with the text or not at all, each with a probability or without one.
TranscribeVerbose(withWords, probabilities) ==
    /\ attemptStep = "running" /\ ~recognised.there
    /\ recognised' = [there |-> TRUE, text |-> try.spoken,
                      words |-> IF withWords
                                THEN [k \in 1..Len(try.spoken) |->
                                         [word |-> try.spoken[k], probability |-> probabilities[k]]]
                                ELSE <<>>]
    /\ UNCHANGED <<try, mayScore, engine, attemptStep, service, phonemes, verdict, tip>>

\* gather raises at once; the service goes on, and nobody reads its answer.
TranscriptionFails ==
    /\ attemptStep = "running" /\ ~recognised.there
    /\ attemptStep' = "failed"
    /\ UNCHANGED <<try, mayScore, engine, recognised, service, phonemes, verdict, tip>>

ScorePhonemes ==
    /\ service = "running" /\ service' = "done"
    /\ phonemes' = Score(try.recording, try.expected)
    /\ UNCHANGED <<try, mayScore, engine, attemptStep, recognised, verdict, tip>>
\* The service refuses, fails, times out or answers no JSON: there are no scores.
ScoringFails ==
    /\ service = "running" /\ service' = "done"
    /\ UNCHANGED <<try, mayScore, engine, attemptStep, recognised, phonemes, verdict, tip>>

Respond ==
    /\ attemptStep = "running" /\ Phrase /\ recognised.there /\ service # "running"
    /\ verdict' = Merge(CompareWords(try.target, recognised.text),
                        ScoreWords(try.target, recognised.words))
    /\ attemptStep' = "coach"
    /\ UNCHANGED <<try, mayScore, engine, recognised, service, phonemes, tip>>

\* A pair is judged at once, and coached unless the target came through.
RespondPair ==
    /\ attemptStep = "running" /\ ~Phrase /\ recognised.there
    /\ verdict' = ScorePairAttempt(try.target[1], try.other, recognised)
    /\ attemptStep' = "coach"
    /\ UNCHANGED <<try, mayScore, engine, recognised, service, phonemes, tip>>

\* No model is asked about a flawless attempt; a coach that fails gives no tip.
Flawless == IF Phrase
            THEN MissedWords(try.target, [k \in 1..Len(verdict) |-> verdict[k].heard]) = <<>>
            ELSE verdict.target
Coach(ok) ==
    /\ attemptStep = "coach" /\ attemptStep' = "done"
    /\ tip' = IF Flawless THEN "none" ELSE IF ok THEN "given" ELSE "missing"
    /\ UNCHANGED <<try, mayScore, engine, recognised, service, phonemes, verdict>>

AttemptsNext ==
    \/ NoAudio \/ ScoreAttempt \/ TranscriptionFails \/ ScorePhonemes \/ ScoringFails
    \/ \E withWords \in BOOLEAN, probabilities \in [1..Len(try.spoken) -> Probabilities] :
           TranscribeVerbose(withWords, probabilities)
    \/ Respond \/ RespondPair \/ \E ok \in BOOLEAN : Coach(ok)

AttemptsSpec == AttemptsInit /\ [][AttemptsNext]_attemptVars

-----------------------------------------------------------------------------
(* Properties.                                                              *)

\* Which occurrence of its form a target word is.
Nth(target, k) ==
    Cardinality({i \in 1..k : Normalize(Spoken(target)[i]) = Normalize(Spoken(target)[k])})
Faint(words) == \E i \in 1..Len(words) : Clarity(words[i].probability) = 0
SingleTokens(text) == \A k \in 1..Len(text) : Len(text[k]) <= 1

\* A word said once is credited once: the n-th occurrence of a word in the target is
\* heard exactly if the transcript has n of it, and a word has a score exactly if the
\* recogniser gave its words; where no word is hyphenated, what compare_words found and
\* what score_words scored are the same words, but for a word that the recogniser
\* gives with probability 0, which scores like one that was missed.
CreditedOnce ==
    Phrase /\ verdict # <<>> =>
        LET words == Spoken(try.target) IN
        \A k \in 1..Len(words) :
            /\ verdict[k].heard <=> Nth(try.target, k) <= Occurrences(try.spoken, Normalize(words[k]))
            /\ verdict[k].score = NoScore <=> recognised.words = <<>>
            /\ SingleTokens(try.target) /\ SingleTokens(try.spoken) /\ verdict[k].score # NoScore
                 => /\ verdict[k].score > 0 => verdict[k].heard
                    /\ verdict[k].heard => verdict[k].score > 0 \/ Faint(recognised.words)

\* No recording is scored by the service without the learner's consent (#419).
ScoredByConsent == service # "none" \/ phonemes # <<>> => mayScore

(* The verdicts on an attempt are fair: each word is credited as often as   *)
(* it was said, by compare_words and score_words alike (scorer.py, "same    *)
(* normalization/consume-once rule"), and the scores of the service come    *)
(* with consent and belong to the most likely alignment of the recording    *)
(* with the phonemes.                                                       *)
FairVerdicts == /\ CreditedOnce /\ ScoredByConsent
                /\ phonemes # <<>> => BestAligned(try.recording, try.expected, phonemes)
=============================================================================
