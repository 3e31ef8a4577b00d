----------------------------- MODULE Migrations -----------------------------
(* The schema migrations of the backend (migrations/versions), run by      *)
(* alembic up and down over a database that the application keeps writing   *)
(* to between two commands, and the ORM models they must arrive at.         *)
(*                                                                          *)
(* The schema is a set of objects <<table, columns, kind>>: columns (kind   *)
(* "required" is NOT NULL), indexes, unique constraints and foreign keys    *)
(* (their second column names the table they point at).  Column types,      *)
(* names of constraints and server defaults are left out, except that a     *)
(* required column added without a default is refused by a table that has   *)
(* rows.  Of the rows, those a migration rewrites or trips over are kept:   *)
(* one learner's sessions and activation events, the accounts that differ   *)
(* only by case, and one idempotency key.                                   *)
EXTENDS Integers, FiniteSets, Sequences
LOCAL INSTANCE SequencesExt

CONSTANTS MaxId,   \* the ids of sessions and of activation events are 1..MaxId
          MaxStart \* sessions start at the instants 1..MaxStart
ASSUME MigrationAssumption == MaxId \in Nat /\ MaxStart \in Nat

VARIABLES database, \* the schema and the rows
          revision, \* alembic_version: how many revisions are applied
          outcome   \* what the last command came to, until the next write

migrationVars == <<database, revision, outcome>>

Ids == 1..MaxId
Spellings == {"jean", "Jean"}
Lower(email) == "jean"

-----------------------------------------------------------------------------
(* The vocabulary of the scripts: sets of objects, and operations.          *)

Required(t, columns) == {<<t, <<c>>, "required">> : c \in columns}
Optional(t, columns) == {<<t, <<c>>, "optional">> : c \in columns}
Index(t, columns) == {<<t, columns, "index">>}
Unique(t, columns) == {<<t, columns, "unique">>}
UniqueWhere(t, c, condition) == {<<t, <<c>>, condition>>}
Refers(t, c, to) == {<<t, <<c, to>>, "cascade">>}
RefersOrNull(t, c, to) == {<<t, <<c, to>>, "set null">>}

Op(does, t, what) == [does |-> does, table |-> t, what |-> what]
Create(what) == Op("create", "", what)
Drop(what) == Op("drop", "", what)
DropTable(t) == Op("drop table", t, {})
DropColumn(t, c) == Op("drop column", t, {c})
AddUndefaulted(t, c) == Op("add undefaulted", t, Required(t, {c}))
Relax(t, c) == Op("relax", t, {c})
Tighten(t, c) == Op("tighten", t, {c})
Execute(statement) == Op(statement, "", {})

IsColumn(o) == o[3] \in {"required", "optional"}
IsForeignKey(o) == o[3] \in {"cascade", "set null"}
Columns(schema, t) == {o[2][1] : o \in {x \in schema : x[1] = t /\ IsColumn(x)}}
Tables(schema) == {o[1] : o \in {x \in schema : IsColumn(x)}}

\* The indexes, constraints and keys stand on columns and tables that exist.
Supported(objects, schema) ==
    \A o \in objects : IF IsForeignKey(o)
                       THEN o[2][1] \in Columns(schema, o[1]) /\ o[2][2] \in Tables(schema)
                       ELSE ToSet(o[2]) \subseteq Columns(schema, o[1])

OpenSessions(db) == {s \in db.sessions : s.open}

\* The rows that a unique index would refuse.
Duplicates(db, o) ==
    CASE o[3] = "unique while open" -> Cardinality(OpenSessions(db)) > 1
      [] o[3] = "unique activation" -> Cardinality(db.activations) > 1
      [] o[3] = "unique lower" -> \E a, b \in db.accounts : a # b /\ Lower(a) = Lower(b)
      [] OTHER -> FALSE

-----------------------------------------------------------------------------
(* The statements the scripts execute on rows.                              *)

\* A statement that keeps the oldest of the active sessions.
CloseExtrasOldest(db) ==
    LET Extra(x) == \E k \in OpenSessions(db) :
                       \/ x.started > k.started
                       \/ x.started = k.started /\ x.id > k.id
    IN  [db EXCEPT !.sessions =
            {IF s.open /\ Extra(s) THEN [s EXCEPT !.open = FALSE] ELSE s : s \in @}]

\* extra is closed when a keeper started later, or together under a lower id.
CloseExtras(db) ==
    LET Extra(x) == \E k \in OpenSessions(db) :
                       \/ x.started < k.started
                       \/ x.started = k.started /\ x.id < k.id
    IN  [db EXCEPT !.sessions =
            {IF s.open /\ Extra(s) THEN [s EXCEPT !.open = FALSE] ELSE s : s \in @}]

DropDuplicateActivations(db) ==
    [db EXCEPT !.activations = {a \in @ : ~ \E b \in @ : a > b}]

LowercaseEmails(db) == [db EXCEPT !.accounts = {Lower(a) : a \in @}]

BackfillResponses(db) == [db EXCEPT !.claim = IF @ = "null" THEN "empty" ELSE @]

\* What each operation needs of the database, or Postgres refuses it.
Accepts(db, o) ==
    CASE o.does = "create" ->
            /\ o.what \cap db.schema = {}
            /\ Supported(o.what, db.schema \cup o.what)
            /\ \A x \in o.what : ~Duplicates(db, x)
      [] o.does = "drop" -> o.what \subseteq db.schema
      [] o.does = "drop table" -> /\ o.table \in Tables(db.schema)
                                  /\ \A x \in db.schema : IsForeignKey(x) /\ x[2][2] = o.table
                                                           => x[1] = o.table
      [] o.does \in {"drop column", "relax"} ->
            o.what \subseteq Columns(db.schema, o.table)
      [] o.does = "tighten" -> db.claim # "null"
      [] o.does = "add undefaulted" -> /\ o.what \cap db.schema = {}
                                       /\ o.table = "sessions" => db.sessions = {}
      [] o.does = "lowercase emails" ->
            \A a, b \in db.accounts : a # b => Lower(a) # Lower(b)
      [] OTHER -> TRUE

Emptied(db, t) ==
    CASE t = "sessions" -> [db EXCEPT !.sessions = {}]
      [] t = "analytics_events" -> [db EXCEPT !.activations = {}]
      [] t = "users" -> [db EXCEPT !.accounts = {}]
      [] t = "idempotency_keys" -> [db EXCEPT !.claim = "absent"]
      [] OTHER -> db

\* Dropping a column takes the indexes and constraints that stand on it.
StandsOn(x, t, columns) == x[1] = t /\ ToSet(x[2]) \cap columns # {}

Applied(db, o) ==
    CASE o.does \in {"create", "add undefaulted"} -> [db EXCEPT !.schema = @ \cup o.what]
      [] o.does = "drop" -> [db EXCEPT !.schema = @ \ o.what]
      [] o.does = "drop table" ->
            Emptied([db EXCEPT !.schema = {x \in @ : x[1] # o.table}], o.table)
      [] o.does = "drop column" ->
            [db EXCEPT !.schema = {x \in @ : ~StandsOn(x, o.table, o.what)}]
      [] o.does = "relax" ->
            [db EXCEPT !.schema = (@ \ Required(o.table, o.what)) \cup Optional(o.table, o.what)]
      [] o.does = "tighten" ->
            [db EXCEPT !.schema = (@ \ Optional(o.table, o.what)) \cup Required(o.table, o.what)]
      [] o.does = "close extras" -> CloseExtras(db)
      [] o.does = "drop duplicate activations" -> DropDuplicateActivations(db)
      [] o.does = "lowercase emails" -> LowercaseEmails(db)
      [] o.does = "backfill responses" -> BackfillResponses(db)

-----------------------------------------------------------------------------
(* The scripts, in the order of their down_revision links.                  *)

Script(up, down) == [up |-> up, down |-> down]

rev_fed9f2ac9d04 == Script(
    <<Create(Required("users", {"id", "email", "hashed_password", "native_language",
                 "cefr_level", "tier", "minutes_used_today", "created_at"})
             \cup Optional("users", {"quota_date"})),
      Create(Unique("users", <<"email">>))>>,
    <<Drop(Unique("users", <<"email">>)), DropTable("users")>>)

rev_c680843e1e0a == Script(
    <<Create(Required("learner_profiles", {"user_id", "interests", "correction_intensity", "accent"})
             \cup Optional("learner_profiles", {"goal"})
             \cup Refers("learner_profiles", "user_id", "users"))>>,
    <<DropTable("learner_profiles")>>)

rev_4c4cd5d33301 == Script(
    <<Create(Required("sessions", {"id", "user_id", "mode", "room_name", "voice_engine", "started_at"})
             \cup Optional("sessions", {"scenario_id", "ended_at", "duration_minutes"})
             \cup Refers("sessions", "user_id", "users")
             \cup Unique("sessions", <<"room_name">>)),
      Create(Index("sessions", <<"user_id">>))>>,
    <<Drop(Index("sessions", <<"user_id">>)), DropTable("sessions")>>)

rev_a580567ea83a == Script(
    <<Create(Required("refresh_tokens", {"id", "user_id", "token_hash", "expires_at", "created_at"})
             \cup Optional("refresh_tokens", {"revoked_at"})
             \cup Refers("refresh_tokens", "user_id", "users")),
      Create(Unique("refresh_tokens", <<"token_hash">>)),
      Create(Index("refresh_tokens", <<"user_id">>))>>,
    <<Drop(Index("refresh_tokens", <<"user_id">>)),
      Drop(Unique("refresh_tokens", <<"token_hash">>)), DropTable("refresh_tokens")>>)

rev_1aca44166335 == Script(
    <<Create(Required("transcripts", {"id", "session_id", "turns", "created_at"})
             \cup Refers("transcripts", "session_id", "sessions")),
      Create(Unique("transcripts", <<"session_id">>))>>,
    <<Drop(Unique("transcripts", <<"session_id">>)), DropTable("transcripts")>>)

rev_ba64d112828d == Script(
    <<Create(Required("debriefs", {"id", "session_id", "cefr_estimate", "summary", "errors",
                 "created_at"})
             \cup Refers("debriefs", "session_id", "sessions")),
      Create(Unique("debriefs", <<"session_id">>))>>,
    <<Drop(Unique("debriefs", <<"session_id">>)), DropTable("debriefs")>>)

rev_f3a4b2c1d0e9 == Script(<<Create(Required("learner_profiles", {"memory_summary"}))>>,
                           <<DropColumn("learner_profiles", "memory_summary")>>)

rev_fb4423db1c92 == Script(
    <<Create(Required("missions", {"id", "user_id", "source_type", "persona", "goal",
                 "likely_questions", "system_prompt", "created_at"})
             \cup Refers("missions", "user_id", "users")),
      Create(Index("missions", <<"user_id">>)),
      Create(Optional("sessions", {"mission_id"})),
      Create(Index("sessions", <<"mission_id">>)),
      Create(RefersOrNull("sessions", "mission_id", "missions"))>>,
    <<Drop(RefersOrNull("sessions", "mission_id", "missions")),
      Drop(Index("sessions", <<"mission_id">>)), DropColumn("sessions", "mission_id"),
      Drop(Index("missions", <<"user_id">>)), DropTable("missions")>>)

rev_02cf10ba6ab7 == Script(<<Create(Required("users", {"is_admin"}))>>,
                           <<DropColumn("users", "is_admin")>>)

rev_fc233850563a == Script(<<Create(Required("sessions", {"last_activity_at"}))>>,
                           <<DropColumn("sessions", "last_activity_at")>>)

rev_a1b2c3d4e5f6 == Script(
    <<Create(Required("vocabulary_entries", {"id", "user_id", "word", "phonetic", "translation",
                 "example", "status", "created_at"})
             \cup Optional("vocabulary_entries", {"session_id"})
             \cup Refers("vocabulary_entries", "user_id", "users")
             \cup RefersOrNull("vocabulary_entries", "session_id", "sessions")
             \cup Unique("vocabulary_entries", <<"user_id", "word">>)),
      Create(Index("vocabulary_entries", <<"user_id">>))>>,
    <<Drop(Index("vocabulary_entries", <<"user_id">>)), DropTable("vocabulary_entries")>>)

rev_b2c3d4e5f6a7 == Script(
    <<Create(Required("review_items", {"id", "user_id", "error_type", "latest_correction", "stage",
                 "clean_streak", "status", "updated_at"})
             \cup Optional("review_items", {"next_review_at"})
             \cup Refers("review_items", "user_id", "users")
             \cup Unique("review_items", <<"user_id", "error_type">>)),
      Create(Index("review_items", <<"user_id">>))>>,
    <<Drop(Index("review_items", <<"user_id">>)), DropTable("review_items")>>)

rev_c3d4e5f6a7b8 == Script(
    <<Create(Required("users", {"current_streak"})), Create(Required("users", {"longest_streak"})),
      Create(Optional("users", {"last_active_date"})),
      Create(Required("users", {"weekly_goal_minutes"}))>>,
    <<DropColumn("users", "weekly_goal_minutes"), DropColumn("users", "last_active_date"),
      DropColumn("users", "longest_streak"), DropColumn("users", "current_streak")>>)

rev_d4e5f6a7b8c9 == Script(
    <<Create(Required("voice_consents", {"id", "user_id", "transcription", "scoring", "b2b_share",
                 "model_training", "updated_at"})
             \cup Refers("voice_consents", "user_id", "users")
             \cup Unique("voice_consents", <<"user_id">>)),
      Create(Index("voice_consents", <<"user_id">>))>>,
    <<Drop(Index("voice_consents", <<"user_id">>)), DropTable("voice_consents")>>)

rev_e5f6a7b8c9d0 == Script(
    <<Create(Required("idempotency_keys", {"id", "user_id", "key", "response", "created_at"})
             \cup Refers("idempotency_keys", "user_id", "users")
             \cup Unique("idempotency_keys", <<"user_id", "key">>)),
      Create(Index("idempotency_keys", <<"user_id">>))>>,
    <<Drop(Index("idempotency_keys", <<"user_id">>)), DropTable("idempotency_keys")>>)

rev_f6a7b8c9d0e1 == Script(
    <<Create(Required("analytics_events", {"id", "name", "user_id", "properties", "created_at"})
             \cup Refers("analytics_events", "user_id", "users")),
      Create(Index("analytics_events", <<"name">>)),
      Create(Index("analytics_events", <<"user_id">>)),
      Create(Index("analytics_events", <<"created_at">>))>>,
    <<Drop(Index("analytics_events", <<"created_at">>)),
      Drop(Index("analytics_events", <<"user_id">>)),
      Drop(Index("analytics_events", <<"name">>)), DropTable("analytics_events")>>)

rev_a7b8c9d0e1f2 == Script(
    <<Relax("idempotency_keys", "response")>>,
    <<Execute("backfill responses"), Tighten("idempotency_keys", "response")>>)

ActivationOnce == UniqueWhere("analytics_events", "user_id", "unique activation")
rev_b8c9d0e1f2a3 == Script(<<Execute("drop duplicate activations"), Create(ActivationOnce)>>,
                           <<Drop(ActivationOnce)>>)

EmailLower == UniqueWhere("users", "email", "unique lower")
rev_c1d2e3f4a5b6 == Script(<<Execute("lowercase emails"), Create(EmailLower)>>,
                           <<Drop(EmailLower)>>)

rev_d2e3f4a5b6c7 == Script(<<Create(Required("users", {"is_active"}))>>,
                           <<DropColumn("users", "is_active")>>)

rev_1a2b3c4d5e6f == Script(
    <<Create(Index("refresh_tokens", <<"expires_at">>)),
      Create(Index("idempotency_keys", <<"created_at">>))>>,
    <<Drop(Index("idempotency_keys", <<"created_at">>)),
      Drop(Index("refresh_tokens", <<"expires_at">>))>>)

\* A downgrade that brings the column back without its constraint.
rev_f2a1b0c9d8e7Lossy == Script(<<DropColumn("sessions", "room_name")>>,
                                <<AddUndefaulted("sessions", "room_name")>>)

rev_f2a1b0c9d8e7 == Script(
    <<DropColumn("sessions", "room_name")>>,
    <<AddUndefaulted("sessions", "room_name"), Create(Unique("sessions", <<"room_name">>))>>)

rev_eea2e957ec48 == Script(
    <<Drop(Index("review_items", <<"user_id">>)),
      Create(Index("review_items", <<"user_id", "next_review_at">>))>>,
    <<Drop(Index("review_items", <<"user_id", "next_review_at">>)),
      Create(Index("review_items", <<"user_id">>))>>)

rev_b9ee2fa53721 == Script(<<Create(Index("vocabulary_entries", <<"session_id">>))>>,
                           <<Drop(Index("vocabulary_entries", <<"session_id">>))>>)

rev_22c153382454 == Script(
    <<Drop(Index("sessions", <<"user_id">>)), Create(Index("sessions", <<"user_id", "started_at">>))>>,
    <<Drop(Index("sessions", <<"user_id", "started_at">>)), Create(Index("sessions", <<"user_id">>))>>)

OneActive == UniqueWhere("sessions", "user_id", "unique while open")
rev_a4b5c6d7e8f9 == Script(<<Execute("close extras"), Create(OneActive)>>, <<Drop(OneActive)>>)

rev_b5c6d7e8f9a0 == Script(
    <<Create(Optional("users", {"reset_token_hash"})),
      Create(Optional("users", {"reset_token_expires_at"})),
      Create(Unique("users", <<"reset_token_hash">>))>>,
    <<Drop(Unique("users", <<"reset_token_hash">>)), DropColumn("users", "reset_token_expires_at"),
      DropColumn("users", "reset_token_hash")>>)

Revisions ==
    <<rev_fed9f2ac9d04, rev_c680843e1e0a, rev_4c4cd5d33301, rev_a580567ea83a, rev_1aca44166335,
      rev_ba64d112828d, rev_f3a4b2c1d0e9, rev_fb4423db1c92, rev_02cf10ba6ab7, rev_fc233850563a,
      rev_a1b2c3d4e5f6, rev_b2c3d4e5f6a7, rev_c3d4e5f6a7b8, rev_d4e5f6a7b8c9, rev_e5f6a7b8c9d0,
      rev_f6a7b8c9d0e1, rev_a7b8c9d0e1f2, rev_b8c9d0e1f2a3, rev_c1d2e3f4a5b6, rev_d2e3f4a5b6c7,
      rev_1a2b3c4d5e6f, rev_f2a1b0c9d8e7, rev_eea2e957ec48, rev_b9ee2fa53721, rev_22c153382454,
      rev_a4b5c6d7e8f9, rev_b5c6d7e8f9a0>>
HeadRevision == Len(Revisions)
LowercaseRevision == 19 \* the place of rev_c1d2e3f4a5b6
RoomNameRevision == 22  \* the place of rev_f2a1b0c9d8e7

-----------------------------------------------------------------------------
(* The ORM models that app.registry gathers on Base.metadata.  unique=True  *)
(* with index=True on one column is a single unique index.                  *)

Owned(t) == Required(t, {"user_id"}) \cup Refers(t, "user_id", "users")

User ==
    Required("users", {"id", "email", "hashed_password", "native_language", "cefr_level", "tier",
        "is_admin", "is_active", "minutes_used_today", "current_streak", "longest_streak",
        "weekly_goal_minutes", "created_at"})
    \cup Optional("users", {"quota_date", "last_active_date", "reset_token_hash",
        "reset_token_expires_at"})
    \cup Unique("users", <<"email">>) \cup UniqueWhere("users", "email", "unique lower")
    \cup Unique("users", <<"reset_token_hash">>)

RefreshToken ==
    Owned("refresh_tokens")
    \cup Required("refresh_tokens", {"id", "token_hash", "expires_at", "created_at"})
    \cup Optional("refresh_tokens", {"revoked_at"}) \cup Unique("refresh_tokens", <<"token_hash">>)
    \cup Index("refresh_tokens", <<"user_id">>) \cup Index("refresh_tokens", <<"expires_at">>)

LearnerProfile ==
    Owned("learner_profiles") \cup Optional("learner_profiles", {"goal"})
    \cup Required("learner_profiles", {"interests", "memory_summary", "correction_intensity", "accent"})

ConversationSession ==
    Owned("sessions")
    \cup Required("sessions", {"id", "mode", "voice_engine", "started_at", "last_activity_at"})
    \cup Optional("sessions", {"scenario_id", "mission_id", "ended_at", "duration_minutes"})
    \cup RefersOrNull("sessions", "mission_id", "missions") \cup Index("sessions", <<"mission_id">>)
    \cup Index("sessions", <<"user_id", "started_at">>)
    \cup UniqueWhere("sessions", "user_id", "unique while open")

\* session_id is Mapped[int]: not nullable, though the column does not say so.
TranscriptRow ==
    Required("transcripts", {"id", "session_id", "turns", "created_at"})
    \cup Refers("transcripts", "session_id", "sessions") \cup Unique("transcripts", <<"session_id">>)

DebriefRow ==
    Required("debriefs", {"id", "session_id", "cefr_estimate", "summary", "errors", "created_at"})
    \cup Refers("debriefs", "session_id", "sessions") \cup Unique("debriefs", <<"session_id">>)

Mission ==
    Owned("missions") \cup Index("missions", <<"user_id">>)
    \cup Required("missions", {"id", "source_type", "persona", "goal", "likely_questions",
        "system_prompt", "created_at"})

VocabularyEntry ==
    Owned("vocabulary_entries") \cup Index("vocabulary_entries", <<"user_id">>)
    \cup Required("vocabulary_entries", {"id", "word", "phonetic", "translation", "example", "status",
        "created_at"})
    \cup Optional("vocabulary_entries", {"session_id"})
    \cup RefersOrNull("vocabulary_entries", "session_id", "sessions")
    \cup Index("vocabulary_entries", <<"session_id">>)
    \cup Unique("vocabulary_entries", <<"user_id", "word">>)

ReviewItem ==
    Owned("review_items") \cup Unique("review_items", <<"user_id", "error_type">>)
    \cup Index("review_items", <<"user_id", "next_review_at">>)
    \cup Required("review_items", {"id", "error_type", "latest_correction", "stage", "clean_streak",
        "status", "updated_at"})
    \cup Optional("review_items", {"next_review_at"})

VoiceConsent ==
    Owned("voice_consents") \cup Unique("voice_consents", <<"user_id">>)
    \cup Index("voice_consents", <<"user_id">>)
    \cup Required("voice_consents", {"id", "transcription", "scoring", "b2b_share", "model_training",
        "updated_at"})

IdempotencyKey ==
    Owned("idempotency_keys") \cup Unique("idempotency_keys", <<"user_id", "key">>)
    \cup Index("idempotency_keys", <<"user_id">>) \cup Index("idempotency_keys", <<"created_at">>)
    \cup Required("idempotency_keys", {"id", "key", "created_at"})
    \cup Optional("idempotency_keys", {"response"})

AnalyticsEventRow ==
    Owned("analytics_events") \cup UniqueWhere("analytics_events", "user_id", "unique activation")
    \cup Required("analytics_events", {"id", "name", "properties", "created_at"})
    \cup UNION {Index("analytics_events", <<c>>) : c \in {"name", "user_id", "created_at"}}

Metadata == User \cup RefreshToken \cup LearnerProfile \cup ConversationSession
            \cup TranscriptRow \cup DebriefRow \cup Mission \cup VocabularyEntry
            \cup ReviewItem \cup VoiceConsent \cup IdempotencyKey \cup AnalyticsEventRow

-----------------------------------------------------------------------------
(* The commands.  env.py opens one transaction around every revision of a   *)
(* command: the first operation the database refuses undoes them all.       *)

EmptyDatabase == [schema |-> {}, sessions |-> {}, activations |-> {}, accounts |-> {},
                  claim |-> "absent"]

\* One operation more, unless an earlier one was refused.
RunOp(run, o) == IF run.ok /\ Accepts(run.db, o)
                 THEN [run EXCEPT !.db = Applied(run.db, o)]
                 ELSE [run EXCEPT !.ok = FALSE]

\* A script, continuing a run.
RunOps(start, ops) ==
    LET run[i \in 0..Len(ops)] == IF i = 0 THEN start ELSE RunOp(run[i - 1], ops[i])
    IN  run[Len(ops)]

\* The scripts that lead from one place in the chain to another.
Ups(from, to) == [i \in 1..(to - from) |-> Revisions[from + i].up]
Downs(from, to) == [i \in 1..(from - to) |-> Revisions[from + 1 - i].down]

Begun(db) == [ok |-> TRUE, db |-> db]
RunScripts(db, scripts) ==
    LET run[i \in 0..Len(scripts)] == IF i = 0 THEN Begun(db) ELSE RunOps(run[i - 1], scripts[i])
    IN  run[Len(scripts)]

Command(kind, to) ==
    LET run == RunScripts(database, IF kind = "upgrade" THEN Ups(revision, to) ELSE Downs(revision, to))
    IN  IF run.ok
        THEN database' = run.db /\ revision' = to /\ outcome' = "done"
        ELSE outcome' = kind /\ UNCHANGED <<database, revision>>

Upgrade == revision < HeadRevision /\ \E to \in {revision + 1, HeadRevision} : Command("upgrade", to)
Downgrade == revision > 0 /\ \E to \in {revision - 1, 0} : Command("downgrade", to)

-----------------------------------------------------------------------------
(* Between two commands, an application of any age, or a script, writes     *)
(* whatever the schema accepts.                                             *)

Write(db) == /\ \A x \in db.schema : ~Duplicates(db, x)
             /\ database' = db /\ outcome' = "done" /\ UNCHANGED revision
Has(t) == t \in Tables(database.schema)

OpenSession(id, started) ==
    /\ Has("sessions") /\ \A s \in database.sessions : s.id # id
    /\ Write([database EXCEPT !.sessions = @ \cup {[id |-> id, started |-> started, open |-> TRUE]}])

EndSession(s) ==
    /\ s \in OpenSessions(database)
    /\ Write([database EXCEPT !.sessions = (@ \ {s}) \cup {[s EXCEPT !.open = FALSE]}])

\* voice_data deletes a learner's sessions.
EraseSessions == /\ database.sessions # {}
                 /\ Write([database EXCEPT !.sessions = {}])

Activate(id) == /\ Has("analytics_events") /\ id \notin database.activations
                /\ Write([database EXCEPT !.activations = @ \cup {id}])

Register(email) == /\ Has("users") /\ email \notin database.accounts
                   /\ Write([database EXCEPT !.accounts = @ \cup {email}])

\* Two accounts that differ by case are merged by hand.
MergeAccounts == /\ Cardinality(database.accounts) = 2
                 /\ Write([database EXCEPT !.accounts = {"jean"}])

Claim == /\ Has("idempotency_keys") /\ database.claim = "absent"
         /\ Write([database EXCEPT !.claim =
                IF Optional("idempotency_keys", {"response"}) \subseteq database.schema
                THEN "null" ELSE "reply"])

Complete == database.claim = "null" /\ Write([database EXCEPT !.claim = "reply"])

MigrationInit == database = EmptyDatabase /\ revision = 0 /\ outcome = "done"

SessionWrites == \/ \E id \in Ids, started \in 1..MaxStart : OpenSession(id, started)
                 \/ \E s \in database.sessions : EndSession(s)
                 \/ EraseSessions
ActivationWrites == \E id \in Ids : Activate(id)
AccountWrites == (\E email \in Spellings : Register(email)) \/ MergeAccounts
ClaimWrites == Claim \/ Complete

MigrationNext == Upgrade \/ Downgrade
                 \/ SessionWrites \/ ActivationWrites \/ AccountWrites \/ ClaimWrites
MigrationSpec == MigrationInit /\ [][MigrationNext]_migrationVars

-----------------------------------------------------------------------------
(* Properties.                                                              *)

\* The schema of an empty database upgraded revision by revision.
SchemaAt ==
    LET at[k \in 0..HeadRevision] ==
            IF k = 0 THEN {}
            ELSE RunOps(Begun([EmptyDatabase EXCEPT !.schema = at[k - 1]]), Revisions[k].up).db.schema
    IN  [k \in 0..HeadRevision |-> at[k]]

(* Wherever a walk of upgrades, downgrades and refused commands over a      *)
(* database in use has led, the schema is the one its alembic_version says: *)
(* every downgrade script undoes its upgrade to the last index, and a       *)
(* refused command leaves no half of a chain behind (migrations/env.py).    *)
(* At head it is also what the models declare, so the code and autogenerate *)
(* find the columns, indexes and keys they expect.  And a command is        *)
(* refused only where its script says it will be: an upgrade over accounts  *)
(* that differ only by case, a downgrade of the dropped room_name over a    *)
(* sessions table that has rows.  Duplicate active sessions, duplicate      *)
(* activations and pending keys never stop one.                             *)
SchemaIsRevisions ==
    /\ database.schema = SchemaAt[revision]
    /\ revision = HeadRevision => database.schema = Metadata
    /\ outcome = "upgrade" => /\ Cardinality(database.accounts) = 2
                              /\ revision < LowercaseRevision
    /\ outcome = "downgrade" => database.sessions # {} /\ revision >= RoomNameRevision

Newest(rows) == CHOOSE s \in rows : \A o \in rows :
                    o.started < s.started \/ (o.started = s.started /\ o.id <= s.id)

(* An upgrade loses nothing of a learner: every session row stays, the      *)
(* session they are in (the most recently started) stays active, their      *)
(* first activation stays, and no account disappears into another.          *)
UpgradeKeepsLearners ==
    [][revision' > revision =>
        /\ {s.id : s \in database'.sessions} = {s.id : s \in database.sessions}
        /\ OpenSessions(database) # {} => Newest(OpenSessions(database)) \in database'.sessions
        /\ \A a \in database.activations :
               (\A b \in database.activations : a <= b) => a \in database'.activations
        /\ Cardinality(database'.accounts) = Cardinality(database.accounts)
        /\ database'.claim = database.claim]_migrationVars
=============================================================================
