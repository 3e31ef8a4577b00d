---------------------------- MODULE VoiceErasure ----------------------------
(* The erasure of a learner's voice data (purge of voice_data/repository)   *)
(* against the turns, debriefs, mission compilations and placements that    *)
(* are in flight when it runs.                                              *)
(*                                                                          *)
(* purge is one transaction of many statements, and under READ COMMITTED    *)
(* each statement sees what was committed when it starts.  What keeps it    *)
(* whole is locks and foreign keys: an insert that refers to users waits    *)
(* for the row a FOR UPDATE holds, an insert that refers to a session waits *)
(* for its deletion and then fails; what refers to neither, or to the user  *)
(* alone, may be stored after it.  A row is <<kind, talk>>: the talk it was *)
(* derived from, also where the column does not say, where a talk is what   *)
(* the learner said once: a session, a mission's material, the answers of a *)
(* placement.                                                               *)
EXTENDS Integers, Sequences, FiniteSets

CONSTANTS Talks,    \* what the learner says
          Conversations, \* those in sessions; the others are materials and placements
          Requests, \* the requests in flight, the erasure apart
          Eraser,   \* the erasing request
          Nobody
ASSUME ErasureAssumption == /\ Conversations \subseteq Talks /\ Talks # {}
                            /\ Nobody \notin Requests \cup {Eraser}

VARIABLES speech,   \* the committed rows
          opened,   \* the talks there have been
          step,     \* how far purge is in EraseOrder, or NotErasing
          dropped,  \* rows deleted by the uncommitted purge
          userLock, \* who holds users FOR UPDATE
          userWrite,\* who has an uncommitted UPDATE of users
          profileLock, \* who has an uncommitted UPDATE of learner_profiles
          upserting,\* by talk: the request whose transcript upsert is uncommitted
          request,  \* where each request is
          erased,   \* (history) the talks a committed purge has covered
          late      \* (history) the rows requests in flight at its commit may still store

erasureVars == <<speech, opened, step, dropped, userLock, userWrite, profileLock,
                 upserting, request, erased, late>>

NotErasing == -1
EraseOrder == <<"transcript", "debrief", "vocabulary", "review", "session", "mission",
                "event", "memory", "stats", "reply">>

\* The kinds of rows a statement of purge covers: of the columns of users the level
\* and the streak, of the idempotency keys the claimed ones and those with a reply.
Covers(statement) ==
    IF statement = "stats" THEN {"level", "streak"}
    ELSE IF statement = "reply" THEN {"reply", "claim"} ELSE {statement}
\* What may be stored of a talk that has been erased.
LateKinds == {"mission", "level", "review", "event", "reply"}
Kinds == UNION {Covers(EraseOrder[i]) : i \in 1..Len(EraseOrder)}
NoRequest == [pc |-> "idle", talk |-> CHOOSE t \in Talks : TRUE, nudge |-> FALSE, keyed |-> FALSE]

ErasureTypeOK ==
    /\ speech \subseteq Kinds \X Talks /\ dropped \subseteq speech
    /\ opened \subseteq Talks /\ erased \subseteq opened
    /\ late \subseteq LateKinds \X Talks
    /\ step \in {NotErasing} \cup 0..Len(EraseOrder)
    /\ {userLock, userWrite, profileLock} \subseteq Requests \cup {Eraser, Nobody}
    /\ upserting \in [Talks -> Requests \cup {Nobody}]
    /\ request \in [Requests -> [pc : {"idle", "claimed", "turn", "upserted", "replied", "releasing",
                                       "debrief", "flushed", "saved", "captured", "scheduled",
                                       "compiling", "placing"},
                                 talk : Talks, nudge : BOOLEAN, keyed : BOOLEAN]]

ErasureInit ==
    /\ speech = {} /\ opened = {} /\ erased = {} /\ dropped = {} /\ late = {}
    /\ step = NotErasing
    /\ userLock = Nobody /\ userWrite = Nobody /\ profileLock = Nobody
    /\ upserting = [t \in Talks |-> Nobody]
    /\ request = [r \in Requests |-> NoRequest]

-----------------------------------------------------------------------------
locks == <<userLock, userWrite, profileLock, upserting>>
eraser == <<step, dropped, erased, late>>

Doing(r, pc) == request[r].pc = pc
Proceeds(r, pc) == request' = [request EXCEPT ![r].pc = pc]
Starts(r, pc, t, nudge, keyed) ==
    request' = [request EXCEPT ![r] = [pc |-> pc, talk |-> t, nudge |-> nudge, keyed |-> keyed]]
Ends(r) == request' = [request EXCEPT ![r] = NoRequest]
TalkOf(r) == request[r].talk
Exists(t) == <<"session", t>> \in speech
Add(kinds, t) == speech' = speech \cup (kinds \X {t})

\* A foreign key to users is checked with FOR KEY SHARE, which FOR UPDATE excludes.
MayReferToUser == userLock = Nobody
\* A foreign key to sessions waits for an uncommitted deletion of the session.
MayReferTo(t) == <<"session", t>> \notin dropped
MayLockUser == userLock = Nobody /\ userWrite = Nobody

\* The transaction of a request that fails or dies is rolled back.
RolledBack(r) ==
    /\ upserting' = [t \in Talks |-> IF upserting[t] = r THEN Nobody ELSE upserting[t]]
    /\ userWrite' = IF userWrite = r THEN Nobody ELSE userWrite
    /\ profileLock' = IF profileLock = r THEN Nobody ELSE profileLock

\* start of sessions/service, with the user locked: of the reaper, the quota and the
\* mission it may name nothing is derived from speech.
StartTalk(t) ==
    /\ t \in Conversations \ opened /\ MayLockUser
    /\ opened' = opened \cup {t}
    /\ Add({"session"}, t)
    /\ UNCHANGED <<eraser, locks, request>>

-----------------------------------------------------------------------------
(* A mission and a placement: an LLM reads what the learner supplied, and   *)
(* its answer is stored by a transaction that locks and looks at nothing.   *)

Begin(r, t, pc) ==
    /\ Doing(r, "idle") /\ t \in Talks \ (Conversations \cup opened)
    /\ opened' = opened \cup {t}
    /\ Starts(r, pc, t, FALSE, FALSE)
    /\ UNCHANGED <<speech, eraser, locks>>

BeginMission(r, t) == Begin(r, t, "compiling")

\* add of missions/repository: the mission refers to its user.  A surprise transfer
\* is a mission whose start is an event too.
StoreMission(r) ==
    /\ Doing(r, "compiling") /\ MayReferToUser
    /\ Add({"mission"}, TalkOf(r))
    /\ Ends(r) \/ Proceeds(r, "scheduled")
    /\ UNCHANGED <<opened, eraser, locks>>

BeginPlacement(r, t) == Begin(r, t, "placing")

\* The level, estimated or else read before the LLM, is set unless it is the user's
\* already, and the first touch of the profile commits it.  The settings follow.
StoreLevel(r) ==
    LET t == TalkOf(r) IN
    /\ Doing(r, "placing") /\ MayLockUser
    /\ \/ speech' = {x \in speech : x[1] # "level"} \cup {<<"level", t>>}
       \/ UNCHANGED speech
    /\ Ends(r)
    /\ UNCHANGED <<opened, eraser, locks>>

-----------------------------------------------------------------------------
(* A turn: its key, if it has one, is claimed before anything else, the     *)
(* turn lock is taken and the session looked up, the LLM answers, and       *)
(* persist_turn upserts the transcript before record_turn_activity locks    *)
(* the user.  Of the keys of a talk's turns the model follows one.          *)

InTurn == {"turn", "upserted", "replied"}
KeyRows(t) == {"claim", "reply"} \X {t}
\* A saved turn that has yet to store its reply under its key.
WillReply(r, t) == Doing(r, "replied") /\ TalkOf(r) = t /\ request[r].keyed

\* A turn without a key.
BeginTurn(r, t) ==
    /\ Doing(r, "idle") /\ t \in Conversations \cap opened
    /\ Starts(r, "claimed", t, FALSE, FALSE)
    /\ UNCHANGED <<speech, opened, eraser, locks>>

\* claim of idempotency: a new key is inserted, whether the session is there or not,
\* and a pending one that is stale is taken over.  Of a key that is in flight or
\* completed nothing changes.  A reply on its way will find a key inserted here.
ClaimKey(r, t) ==
    /\ Doing(r, "idle") /\ t \in Conversations \cap opened /\ <<"reply", t>> \notin speech
    /\ IF <<"claim", t>> \in speech THEN <<"claim", t>> \notin dropped ELSE MayReferToUser
    /\ Add({"claim"}, t)
    /\ late' = IF t \in erased /\ \E o \in Requests : WillReply(o, t)
               THEN late \cup {<<"reply", t>>} ELSE late
    /\ Starts(r, "claimed", t, FALSE, TRUE)
    /\ UNCHANGED <<opened, step, dropped, erased, locks>>

\* What a turn that comes to nothing does: its key, if any, is still to be released.
GivesUp(r) == IF request[r].keyed THEN Proceeds(r, "releasing") ELSE Ends(r)

\* The turn lock admits one turn at a time; prepare_turn looks up the session.
PrepareTurn(r) ==
    LET t == TalkOf(r) IN
    /\ Doing(r, "claimed") /\ MayReferToUser
    /\ IF Exists(t) /\ \A o \in Requests : request[o].pc \in InTurn => TalkOf(o) # t
       THEN Proceeds(r, "turn") ELSE GivesUp(r)
    /\ UNCHANGED <<speech, opened, eraser, locks>>

\* The upsert waits for a deletion of its row; without the session it violates the key.
UpsertTranscript(r) ==
    LET t == TalkOf(r) IN
    /\ Doing(r, "turn") /\ MayReferTo(t) /\ <<"transcript", t>> \notin dropped
    /\ IF Exists(t)
       THEN Proceeds(r, "upserted") /\ upserting' = [upserting EXCEPT ![t] = r]
       ELSE GivesUp(r) /\ UNCHANGED upserting
    /\ UNCHANGED <<speech, opened, eraser, userLock, userWrite, profileLock>>

\* The session has ended, the LLM fails, or a statement does, before the turn is saved.
TurnFails(r) ==
    /\ request[r].pc \in {"claimed", "turn", "upserted"}
    /\ RolledBack(r) /\ GivesUp(r)
    /\ UNCHANGED <<speech, opened, eraser, userLock>>

\* release of idempotency: the key goes, whoever has claimed or completed it since.
ReleaseKey(r) ==
    LET t == TalkOf(r) IN
    /\ Doing(r, "releasing") /\ KeyRows(t) \cap dropped = {}
    /\ speech' = speech \ KeyRows(t)
    /\ Ends(r)
    /\ UNCHANGED <<opened, eraser, locks>>

\* record_turn_activity: the user is locked, streak and minutes written, all committed.
MeterTurn(r) ==
    LET t == TalkOf(r) IN
    /\ Doing(r, "upserted") /\ MayLockUser
    /\ Add({"transcript", "streak"}, t)
    /\ upserting' = [upserting EXCEPT ![t] = Nobody]
    /\ Proceeds(r, "replied")
    /\ UNCHANGED <<opened, eraser, userLock, userWrite, profileLock>>

\* Metering raises and the transcript is committed alone, or it finds the session
\* ended and returns without a commit: the scope rolls the upsert back.
MeterFails(r) ==
    LET t == TalkOf(r) IN
    /\ Doing(r, "upserted")
    /\ Add({"transcript"}, t) \/ UNCHANGED speech
    /\ upserting' = [upserting EXCEPT ![t] = Nobody]
    /\ Proceeds(r, "replied")
    /\ UNCHANGED <<opened, eraser, userLock, userWrite, profileLock>>

\* complete of idempotency: an UPDATE of the row of the key, if there is one.
CompleteKey(r) ==
    LET t == TalkOf(r) IN
    /\ Doing(r, "replied")
    /\ request[r].keyed => KeyRows(t) \cap dropped = {}
    /\ speech' = IF request[r].keyed /\ KeyRows(t) \cap speech # {}
                 THEN (speech \ KeyRows(t)) \cup {<<"reply", t>>} ELSE speech
    /\ Ends(r)
    /\ UNCHANGED <<opened, eraser, locks>>

-----------------------------------------------------------------------------
(* A debrief: the LLM answers, the query of save flushes the nudged level   *)
(* and the memory, the commit inserts the debrief, and the enrichment       *)
(* stores words, review items and events in transactions of their own.      *)

InDebrief == {"debrief", "flushed", "saved", "captured", "scheduled"}

BeginDebrief(r, t) ==
    /\ Doing(r, "idle") /\ <<"transcript", t>> \in speech
    /\ \A o \in Requests : TalkOf(o) = t => request[o].pc \notin InDebrief
    /\ \E nudge \in BOOLEAN : Starts(r, "debrief", t, nudge, FALSE)
    /\ UNCHANGED <<speech, opened, eraser, locks>>

FlushDebrief(r) ==
    /\ Doing(r, "debrief")
    /\ profileLock = Nobody /\ profileLock' = r
    /\ IF request[r].nudge THEN MayLockUser /\ userWrite' = r ELSE UNCHANGED userWrite
    /\ Proceeds(r, "flushed")
    /\ UNCHANGED <<speech, opened, eraser, userLock, upserting>>

Freed(r) == /\ profileLock' = Nobody
            /\ userWrite' = IF userWrite = r THEN Nobody ELSE userWrite

CommitDebrief(r) ==
    LET t == TalkOf(r) IN
    /\ Doing(r, "flushed") /\ MayReferTo(t)
    /\ IF Exists(t)
       THEN /\ speech' = {x \in speech : x[1] # "memory"}
                         \cup ({"debrief", "memory"} \X {t})
                         \cup (IF request[r].nudge THEN {<<"level", t>>} ELSE {})
            /\ Proceeds(r, "saved")
       ELSE Ends(r) /\ UNCHANGED speech
    /\ Freed(r)
    /\ UNCHANGED <<opened, eraser, userLock, upserting>>

\* capture of vocabulary: the upsert by (user, word); a failure is swallowed.
CaptureVocabulary(r) ==
    LET t == TalkOf(r) IN
    /\ Doing(r, "saved") /\ MayReferToUser /\ MayReferTo(t)
    /\ IF Exists(t) THEN Add({"vocabulary"}, t) ELSE UNCHANGED speech
    /\ Proceeds(r, "captured")
    /\ UNCHANGED <<opened, eraser, locks>>

\* record_session: review items refer to the user only.  A failure is swallowed.
ScheduleReviewOf(r) ==
    /\ Doing(r, "captured") /\ MayReferToUser
    /\ Add({"review"}, TalkOf(r)) \/ UNCHANGED speech
    /\ Proceeds(r, "scheduled")
    /\ UNCHANGED <<opened, eraser, locks>>

\* session_completed, and transfer_started: so do analytics events.
EmitEvents(r) ==
    /\ Doing(r, "scheduled") /\ MayReferToUser
    /\ Add({"event"}, TalkOf(r)) \/ UNCHANGED speech
    /\ Ends(r)
    /\ UNCHANGED <<opened, eraser, locks>>

-----------------------------------------------------------------------------
(* purge                                                                    *)

Rows(kind) == {x \in speech : x[1] \in Covers(kind)}

\* Deleting sessions cascades to the transcripts and debriefs of the moment.
Cascade(kind) == IF kind = "session"
                 THEN {x \in speech : x[1] \in {"transcript", "debrief"}} ELSE {}

\* A statement waits for the rows, and the keys, that other transactions hold.
EraseWaits(kind) ==
    \/ kind = "transcript" /\ \E t \in Talks : <<"transcript", t>> \in speech /\ upserting[t] # Nobody
    \/ kind = "session" /\ \E t \in Talks : upserting[t] # Nobody
    \/ kind = "memory" /\ Rows("memory") # {} /\ profileLock \notin {Nobody, Eraser}

\* A purge that does not lock the user first.
BeginEraseUnlocked ==
    /\ step = NotErasing
    /\ step' = 0
    /\ UNCHANGED <<speech, opened, dropped, locks, request, erased, late>>

BeginErase ==
    /\ step = NotErasing /\ MayLockUser
    /\ step' = 0 /\ userLock' = Eraser
    /\ UNCHANGED <<speech, opened, dropped, userWrite, profileLock, upserting, request, erased, late>>

EraseNext ==
    /\ step \in 0..(Len(EraseOrder) - 1)
    /\ LET kind == EraseOrder[step + 1] IN
         /\ ~EraseWaits(kind)
         /\ dropped' = dropped \cup Rows(kind) \cup Cascade(kind)
         /\ profileLock' = IF kind = "memory" /\ Rows(kind) # {} THEN Eraser ELSE profileLock
    /\ step' = step + 1
    /\ UNCHANGED <<speech, opened, userLock, userWrite, upserting, request, erased, late>>

EraseReleases == /\ step' = NotErasing /\ dropped' = {}
                 /\ userLock' = IF userLock = Eraser THEN Nobody ELSE userLock
                 /\ profileLock' = IF profileLock = Eraser THEN Nobody ELSE profileLock
                 /\ UNCHANGED <<opened, userWrite, upserting>>

\* What a request that is past its session may still store when purge commits.
Pending(pc) == CASE pc = "compiling" -> {"mission", "event"}
                 [] pc = "placing" -> {"level"}
                 [] pc \in {"saved", "captured"} -> {"review", "event"}
                 [] pc = "scheduled" -> {"event"}
                 [] OTHER -> {}

EraseCommit ==
    /\ step = Len(EraseOrder)
    /\ speech' = speech \ dropped
    /\ erased' = erased \cup opened
    /\ late' = UNION {Pending(request[r].pc) \X {TalkOf(r)} : r \in Requests}
    /\ EraseReleases /\ UNCHANGED request

\* A statement fails, or the database drops: the session closes and rolls back.
EraseFails ==
    /\ step # NotErasing
    /\ EraseReleases /\ UNCHANGED <<speech, erased, late, request>>

-----------------------------------------------------------------------------
(* Two transactions that wait for each other: Postgres aborts one.          *)

EraseWaitsFor(r) ==
    /\ step \in 0..(Len(EraseOrder) - 1)
    /\ LET kind == EraseOrder[step + 1] IN
         \/ kind = "transcript" /\ \E t \in Talks : <<"transcript", t>> \in speech /\ upserting[t] = r
         \/ kind = "session" /\ \E t \in Talks : upserting[t] = r
         \/ kind = "memory" /\ Rows("memory") # {} /\ profileLock = r
WaitsForErase(r) == \/ Doing(r, "upserted") /\ userLock = Eraser
                    \/ Doing(r, "flushed") /\ ~MayReferTo(TalkOf(r))
Deadlocked(r) == EraseWaitsFor(r) /\ WaitsForErase(r)

\* A request dies: its worker is killed, it is the victim of a deadlock, or a debrief,
\* a mission or a placement fails.  The purge as the victim is EraseFails.
RequestDies(r) ==
    /\ ~Doing(r, "idle")
    /\ RolledBack(r) /\ Ends(r)
    /\ UNCHANGED <<speech, opened, eraser, userLock>>

ErasureNext ==
    \/ \E t \in Talks : StartTalk(t)
    \/ \E r \in Requests, t \in Talks : \/ BeginTurn(r, t) \/ ClaimKey(r, t) \/ BeginDebrief(r, t)
                                       \/ BeginMission(r, t) \/ BeginPlacement(r, t)
    \/ \E r \in Requests : \/ PrepareTurn(r) \/ UpsertTranscript(r) \/ MeterTurn(r) \/ MeterFails(r)
                           \/ CompleteKey(r) \/ TurnFails(r) \/ ReleaseKey(r)
                           \/ FlushDebrief(r) \/ CommitDebrief(r) \/ CaptureVocabulary(r)
                           \/ ScheduleReviewOf(r) \/ EmitEvents(r)
                           \/ StoreMission(r) \/ StoreLevel(r) \/ RequestDies(r)
    \/ BeginErase \/ EraseNext \/ EraseCommit \/ EraseFails

ErasureSpec == ErasureInit /\ [][ErasureNext]_erasureVars

-----------------------------------------------------------------------------
(* Properties.                                                              *)

(* Once an erasure has committed, nothing derived from the learner's words  *)
(* before it is stored or comes back, whatever request was in flight at any *)
(* of its statements (purge, #290), save what purge does not hold back: a   *)
(* mission being compiled, a level being placed, the review items and the   *)
(* events of a debrief already saved, each stored by a request in flight at *)
(* the commit, and the reply of such a turn when its key was claimed again. *)
(* A claimed key holds no words.  The session, its transcript, debrief and  *)
(* sentences, the memory and the streak never come back.                    *)
SpeechErased ==
    \A x \in speech : x[2] \in erased => x[1] = "claim" \/ (x[1] \in LateKinds /\ x \in late)

-----------------------------------------------------------------------------
(* What comments say and the code does not keep; no run checks these.       *)

(* "an erasure leaves no voice trace behind" (voice_data/service.py): not   *)
(* so for what SpeechErased excepts.                                        *)
NoVoiceTrace == \A t \in erased, x \in speech : x[2] # t

(* The erasure "shares the USER->SESSION lock acquisition order" of a turn, *)
(* so the two never wait for each other (voice_data/repository.py, #381):   *)
(* but a turn locks its transcript before the user.                         *)
NoEraseDeadlock == \A r \in Requests : ~Deadlocked(r)
=============================================================================
