---------------------------- MODULE ReplyStream ----------------------------
(* A streamed reply, from the tokens of an LLM to the events of the client:  *)
(* the chain of providers with its deadline (FallbackLlmProvider), the       *)
(* splitting of a provider's deltas into sentences                           *)
(* (OpenAiCompatibleLlmProvider), and stream_prepared, which speaks each     *)
(* sentence while the next one is written and corrects the learner in        *)
(* parallel.  Of a text the tokens that the splitting tells apart are kept:  *)
(* "word", "abbr" (an abbreviation), "stop" (punctuation) and "space".       *)
EXTENDS Integers, Sequences, FiniteSets

CONSTANTS Answers,  \* the texts a provider may answer with: sequences of tokens
          Chain,    \* the number of providers
          Deadline  \* _DEFAULT_DEADLINE_SECONDS, in ticks
TokenKinds == {"word", "abbr", "stop", "space"}
ASSUME ReplyAssumption == Chain \in Nat \ {0} /\ Deadline \in Nat \ {0} /\ \A a \in Answers : a \in Seq(TokenKinds)

VARIABLES answerer,  \* the provider being tried; 0 before the first
          answer,    \* what it is going to say
          heard,     \* how many of its tokens have arrived
          cut,       \* how many of them have left the buffer
          ready,     \* sentences it yields before it reads another delta
          elapsed,   \* ticks since the chain was entered, until its first sentence
          limit,     \* when the wait for the provider's first sentence ends
          turnStep,  \* where stream_prepared is
          parts,     \* the sentences sent to the client: <<provider, from, to>>
          clips,     \* the sentences whose audio was sent, in order
          pending,   \* pending_audio: the sentence it speaks, or 0
          voices,    \* the state of the synthesis of each sentence
          correction,\* the state of the corrector's task
          saved,     \* the sentences persisted, or NotSaved
          cause      \* why the stream ended

chainVars == <<answerer, answer, heard, cut, ready, elapsed, limit>>
taskVars == <<clips, pending, voices, correction>>
replyVars == <<chainVars, taskVars, turnStep, parts, saved, cause>>

NotSaved == <<"not saved">>

ReplyInit ==
    /\ answerer = 0 /\ answer = <<>> /\ heard = 0 /\ cut = 0 /\ ready = <<>>
    /\ elapsed = 0 /\ limit = 0 /\ turnStep = "try"
    /\ parts = <<>> /\ clips = <<>> /\ pending = 0 /\ voices = <<>> /\ correction = "none"
    /\ saved = NotSaved /\ cause = "none"

-----------------------------------------------------------------------------
(* Sentences.                                                               *)

\* A boundary that takes the end of the buffer for the end of a sentence.
SentenceEndEager(text, i, to) ==
    text[i] = "stop" /\ (i = to \/ text[i + 1] = "space") /\ (i > 1 => text[i - 1] # "abbr")

\* Punctuation before a space, unless it is the full stop of an abbreviation.
SentenceEnd(text, i, to) ==
    text[i] = "stop" /\ i < to /\ text[i + 1] = "space" /\ (i > 1 => text[i - 1] # "abbr")

\* The numbers of a set in ascending order: the k-th has k of them up to it.
Ascending(S) == [k \in 1..Cardinality(S) |-> CHOOSE i \in S : Cardinality({j \in S : j <= i}) = k]

\* The ends of the sentences in the buffer from+1..to, in order.
SentenceEnds(text, from, to) == Ascending({i \in (from + 1)..to : SentenceEnd(text, i, to)})
LastEnd(text, from, to) == LET e == SentenceEnds(text, from, to)
                           IN  IF e = <<>> THEN from ELSE e[Len(e)]
Sentences(p, text, from, to) ==
    LET e == SentenceEnds(text, from, to)
    IN  [k \in 1..Len(e) |-> <<p, IF k = 1 THEN from ELSE e[k - 1], e[k]>>]

\* What is left when the stream ends, unless strip() leaves nothing of it.
Flushed(p, text, from) == IF \E i \in (from + 1)..Len(text) : text[i] # "space"
                       THEN <<<<p, from, Len(text)>>>> ELSE <<>>

-----------------------------------------------------------------------------
(* The chain of providers.                                                  *)

Emitted == parts # <<>>
Waiting == turnStep = "stream" /\ ready = <<>>

Remaining == Deadline - elapsed

\* The next provider is asked, while there is one and time is left.
TryProvider ==
    /\ turnStep = "try" /\ answerer < Chain /\ Remaining > 0
    /\ answerer' = answerer + 1 /\ limit' = elapsed + Remaining
    /\ answer' \in Answers /\ heard' = 0 /\ cut' = 0 /\ turnStep' = "stream"
    /\ UNCHANGED <<ready, elapsed, taskVars, parts, saved, cause>>

AllFailed ==
    /\ turnStep = "try" /\ (answerer = Chain \/ Remaining <= 0)
    /\ turnStep' = "finally" /\ cause' = "all failed"
    /\ UNCHANGED <<chainVars, taskVars, parts, saved>>

\* Some more tokens arrive: every complete sentence in the buffer is yielded.
Delta(n) ==
    LET to == heard + n IN
    /\ Waiting /\ to <= Len(answer)
    /\ heard' = to
    /\ ready' = Sentences(answerer, answer, cut, to)
    /\ cut' = LastEnd(answer, cut, to)
    /\ UNCHANGED <<answerer, answer, elapsed, limit, taskVars, turnStep, parts, saved, cause>>

\* The stream ends and the tail is flushed; with nothing left, the generator returns.
StreamEnds ==
    /\ Waiting /\ heard = Len(answer)
    /\ ready' = Flushed(answerer, answer, cut) /\ cut' = heard
    /\ turnStep' = IF ready' = <<>> THEN "lastAudio" ELSE "stream"
    /\ UNCHANGED <<answerer, answer, heard, elapsed, limit, taskVars, parts, saved, cause>>

\* An error, or the first sentence is not there in time: the next provider is
\* tried, but never after a sentence of this one was sent.
AfterFailure ==
    /\ turnStep' = IF Emitted THEN "partial" ELSE "try"
    /\ UNCHANGED <<chainVars, taskVars, parts, saved, cause>>

ProviderFails == Waiting /\ AfterFailure
FirstSentenceLate == Waiting /\ ~Emitted /\ elapsed = limit /\ AfterFailure

\* Time passes while the first sentence is awaited; wait_for does not oversleep.
Tick ==
    /\ Waiting /\ ~Emitted /\ elapsed < limit
    /\ elapsed' = elapsed + 1
    /\ UNCHANGED <<answerer, answer, heard, cut, ready, limit, taskVars, turnStep, parts, saved, cause>>

-----------------------------------------------------------------------------
(* stream_prepared.                                                         *)

\* The sentence is sent before anything else is done with it.
SendSentence ==
    /\ turnStep = "stream" /\ ready # <<>>
    /\ parts' = Append(parts, Head(ready)) /\ ready' = Tail(ready)
    /\ turnStep' = "audio"
    /\ UNCHANGED <<answerer, answer, heard, cut, elapsed, limit, taskVars, saved, cause>>

\* The clip of the sentence before, if there is one, is awaited and sent.
Settled == pending # 0 => voices[pending] # "running"
Drained == IF pending # 0 /\ voices[pending] = "spoken" THEN Append(clips, pending) ELSE clips

\* The sentence is spoken, and the learner corrected, in the background.  Without a
\* voice on the server, or without a corrector, there is no task.
NextSentence(spoken, corrected) ==
    /\ turnStep = "audio" /\ Settled
    /\ clips' = Drained
    /\ pending' = IF spoken THEN Len(parts) ELSE 0
    /\ voices' = Append(voices, IF spoken THEN "running" ELSE "none")
    /\ correction' = IF correction = "none" /\ corrected THEN "running" ELSE correction
    /\ turnStep' = IF ready = <<>> /\ cut = Len(answer) THEN "lastAudio" ELSE "stream"
    /\ UNCHANGED <<chainVars, parts, saved, cause>>

LastAudio ==
    /\ turnStep = "lastAudio" /\ Settled
    /\ clips' = Drained /\ pending' = 0
    /\ turnStep' = "persist"
    /\ UNCHANGED <<chainVars, voices, correction, parts, saved, cause>>

\* The background tasks end; a synthesis that fails yields no audio, a correction
\* that fails or finds nothing yields none.
Synthesized(state) == /\ pending # 0 /\ voices[pending] = "running"
                 /\ voices' = [voices EXCEPT ![pending] = state]
                 /\ UNCHANGED <<chainVars, clips, pending, correction, turnStep, parts, saved, cause>>
Corrected == /\ correction = "running" /\ correction' = "done"
             /\ UNCHANGED <<chainVars, clips, pending, voices, turnStep, parts, saved, cause>>

\* The reply was delivered: a save that fails is logged, and the stream goes on.
SaveReply(ok) ==
    /\ turnStep = "persist"
    /\ saved' = IF ok THEN parts ELSE saved
    /\ turnStep' = "correct"
    /\ UNCHANGED <<chainVars, taskVars, parts, cause>>

SendCorrection ==
    /\ turnStep = "correct" /\ correction # "running"
    /\ turnStep' = "finally" /\ cause' = "done"
    /\ UNCHANGED <<chainVars, taskVars, parts, saved>>

\* The stream failed after sentences were sent: they are saved, and the error raised.
SavePartial(ok) ==
    /\ turnStep = "partial"
    /\ saved' = IF ok THEN parts ELSE saved
    /\ turnStep' = "finally" /\ cause' = "provider failed"
    /\ UNCHANGED <<chainVars, taskVars, parts>>

\* The client goes away: whatever is awaited or yielded is cut short.
ClientLeaves ==
    /\ turnStep \notin {"finally", "ended"}
    /\ turnStep' = "finally" /\ cause' = "left"
    /\ UNCHANGED <<chainVars, taskVars, parts, saved>>

Cancelled(state) == IF state = "running" THEN "cancelled" ELSE state
\* An ending that forgets the synthesis.
FinallyCorrection ==
    /\ turnStep = "finally" /\ turnStep' = "ended"
    /\ correction' = Cancelled(correction)
    /\ UNCHANGED <<chainVars, clips, pending, voices, parts, saved, cause>>
Finally ==
    /\ turnStep = "finally" /\ turnStep' = "ended"
    /\ correction' = Cancelled(correction)
    /\ voices' = IF pending = 0 THEN voices ELSE [voices EXCEPT ![pending] = Cancelled(@)]
    /\ UNCHANGED <<chainVars, clips, pending, parts, saved, cause>>

ReplyNext ==
    \/ TryProvider \/ AllFailed \/ StreamEnds \/ ProviderFails \/ FirstSentenceLate \/ Tick
    \/ \E n \in 1..2 : Delta(n)
    \/ SendSentence \/ (\E spoken, corrected \in BOOLEAN : NextSentence(spoken, corrected))
    \/ LastAudio \/ (\E state \in {"spoken", "silent"} : Synthesized(state)) \/ Corrected
    \/ (\E ok \in BOOLEAN : SaveReply(ok) \/ SavePartial(ok))
    \/ SendCorrection \/ ClientLeaves \/ Finally

ReplySpec == ReplyInit /\ [][ReplyNext]_replyVars

-----------------------------------------------------------------------------
(* Properties.                                                              *)

\* One provider's answer from its beginning, without a gap or a repetition.
OneVoice == \A i \in 1..Len(parts) :
    parts[i][1] = parts[1][1] /\ parts[i][2] = IF i = 1 THEN 0 ELSE parts[i - 1][3]

\* The answer split as a whole, to its last token.
WholeAnswer == Sentences(answerer, answer, 0, Len(answer))
               \o Flushed(answerer, answer, LastEnd(answer, 0, Len(answer)))

(* What the learner hears is one provider's answer, however the chain       *)
(* failed over ("fall back ONLY if a provider fails BEFORE its first        *)
(* chunk", fallback.py); what is saved is what was heard; and the sentences *)
(* of a full reply do not depend on where the network cut the answer into   *)
(* deltas (stream_complete of deepseek.py).  The timeouts of the providers  *)
(* do not stack (#230): the first sentence, or the failure, is there at the *)
(* deadline, and the chain gives up only before that sentence, when every   *)
(* provider has failed or no time is left.                                  *)
ReplyIsOneAnswer ==
    /\ OneVoice
    /\ saved # NotSaved => saved = parts
    /\ cause = "done" => parts = WholeAnswer
    /\ elapsed <= Deadline
    /\ cause = "all failed" => parts = <<>> /\ (answerer = Chain \/ elapsed >= Deadline)

(* A full reply has sent the clip of every sentence that could be           *)
(* synthesized, in the order of the sentences; and however a stream ends (a *)
(* failure, a client that left, a save that failed), no synthesis and no    *)
(* correction goes on behind it (stream_prepared).                          *)
VoiceFollowsText ==
    /\ cause = "done" => clips = Ascending({i \in 1..Len(voices) : voices[i] = "spoken"})
    /\ turnStep = "ended" =>
         correction # "running" /\ \A i \in 1..Len(voices) : voices[i] # "running"
=============================================================================
