----------------------------- MODULE MCPlatform -----------------------------
(* One model of the parts of the platform that share no state: each          *)
(* behaviour has a focus and follows that part alone.                        *)
EXTENDS VoiceErasure, VoiceExport, VoiceConsents, RateLimit, Migrations,
        ReplyStream, ConnectionPool, Reports, ProcessLife, Accounts, Attempts, TLC
CONSTANTS c1, p1, p2
VARIABLE focus

MigrationSubjects == {"sessions", "activations", "accounts", "claims"}
Focuses == {"erasure", "export", "consent", "rate", "reply", "pool", "reports", "life",
            "clients", "credentials", "attempts"} \cup MigrationSubjects

ProxyChain == <<p1, p2>>
\* Sentences cut at a space only, an abbreviation, a blank tail, no text at all.
Texts == {<<"word", "stop", "word", "stop", "space", "word">>,
          <<"abbr", "stop", "space", "word", "stop", "space", "word">>,
          <<"word", "stop", "space">>, <<>>}
\* Sessions 2 and 3 started at one instant.
StartedAt(s) == s \div 2
\* A longer session with more errors but fewer per turn, a blank type, a malformed entry.
Samples == {[errors |-> <<1>>, turns |-> 1], [errors |-> <<1, Blank, 1>>, turns |-> 4],
            [errors |-> <<2, Malformed, 1>>, turns |-> 2], [errors |-> <<>>, turns |-> 0]}

\* A chain whose second provider has no key; a single provider with every other client.
Chained == [voice |-> "groq_fallback", keys |-> {"groq"}, stt |-> TRUE, tts |-> TRUE, scorer |-> "fake",
            mails |-> FALSE, cached |-> FALSE]
Equipped == [voice |-> "groq", keys |-> {"groq"}, stt |-> FALSE, tts |-> TRUE, scorer |-> "gop",
             mails |-> TRUE, cached |-> TRUE]
Settings == {Chained, Equipped}

\* Words said again, a blank, hyphenated ones; recordings of one to four frames over
\* two phonemes, long enough or not; a phoneme that the model does not know.
The == <<<<"the">>>>
Ice == <<<<"ice">>>>
IceCream == <<<<"ice">>, <<"cream">>>>
Dash == <<>>
Sayings == {<<>>, <<The>>, <<Dash, The>>, <<The, Ice>>, <<Ice, The, The>>, <<The, IceCream, The>>}
Flat == [p \in 0..2 |-> -1]
Frame(x, y) == [p \in 0..2 |-> CASE p = 0 -> -1 [] p = 1 -> x [] p = 2 -> y]
Frames == {Frame(-3, 0), Frame(0, 0), Frame(0, -2)}
Silence == [kind |-> "phrase", target |-> <<The>>, other |-> <<>>, spoken |-> <<>>,
            recording |-> <<>>, expected |-> <<1>>]
Utterances == {Silence}
    \cup {[Silence EXCEPT !.target = t, !.spoken = s, !.recording = <<Flat>>] :
             t \in {<<The>>, <<The, Dash, The>>, <<The, Ice, The>>, <<IceCream, The>>}, s \in Sayings}
    \cup {[Silence EXCEPT !.kind = "pair", !.other = Ice, !.spoken = s, !.recording = <<Flat>>] : s \in Sayings}
    \cup {[Silence EXCEPT !.recording = r, !.expected = e] :
             r \in UNION {[1..n -> Frames] : n \in 1..4}, e \in {<<1, 2>>, <<1, 1>>, <<1, 1, 2>>}}
    \cup {[Silence EXCEPT !.recording = r, !.expected = e] :
             r \in UNION {[1..n -> Frames] : n \in 1..2}, e \in {<<1, 9, 2>>, <<9>>}}

PlatformInit ==
    /\ focus \in Focuses
    /\ ErasureInit /\ ExportInit /\ ConsentInit /\ MigrationInit /\ ReplyInit /\ ReportsInit /\ AccountsInit
    /\ AttemptsInit /\ (focus # "attempts" => try = Silence /\ mayScore /\ engine = "gop")
    /\ RateInit /\ (focus # "rate" => backend = "memory" /\ ~failOpen)
    /\ PoolInit /\ (focus # "pool" => \A c \in Calls : todo[c] = Export)
    /\ LifeInit /\ (focus # "clients" => settings = Chained)
       /\ (focus = "clients" => Cardinality({i \in Instances : stage[i] = "warmUp"}) = 1)
       /\ (focus \notin {"life", "clients"} => shared /\ \A i \in Instances : stage[i] = "down")

MigrationStep == \/ focus \in MigrationSubjects /\ (Upgrade \/ Downgrade)
                 \/ focus = "sessions" /\ SessionWrites
                 \/ focus = "activations" /\ ActivationWrites
                 \/ focus = "accounts" /\ AccountWrites
                 \/ focus = "claims" /\ ClaimWrites
RateStep == RateNext /\ (backend = "redis" => \A c \in counters' : c.key = c1)

\* The purge loops of several processes, and the clients of one that does not purge.
LifeStep == \/ focus = "life" /\ LifeNext /\ resolving' = resolving
            \/ focus = "clients" /\ LifeNext /\ lockedFor' = lockedFor /\ sinceLock' = sinceLock
               /\ (sleep' = sleep \/ sweeper' # sweeper)

\* At most one erasure of anything commits; those before it may fail any number of times.
ErasureStep == ErasureNext /\ (step = NotErasing /\ step' = 0 => erased = {})

PlatformNext ==
    /\ UNCHANGED focus
    /\ \/ /\ focus = "erasure" /\ ErasureStep
          /\ UNCHANGED <<exportVars, consentVars, rateVars, migrationVars, replyVars, poolVars, reportVars, lifeVars, accountVars, attemptVars>>
       \/ /\ focus = "export" /\ ExportNext
          /\ UNCHANGED <<erasureVars, consentVars, rateVars, migrationVars, replyVars, poolVars, reportVars, lifeVars, accountVars, attemptVars>>
       \/ /\ focus = "consent" /\ ConsentNext
          /\ UNCHANGED <<erasureVars, exportVars, rateVars, migrationVars, replyVars, poolVars, reportVars, lifeVars, accountVars, attemptVars>>
       \/ /\ focus = "rate" /\ RateStep
          /\ UNCHANGED <<erasureVars, exportVars, consentVars, migrationVars, replyVars, poolVars, reportVars, lifeVars, accountVars, attemptVars>>
       \/ /\ MigrationStep
          /\ UNCHANGED <<erasureVars, exportVars, consentVars, rateVars, replyVars, poolVars, reportVars, lifeVars, accountVars, attemptVars>>
       \/ /\ focus = "reply" /\ ReplyNext
          /\ UNCHANGED <<erasureVars, exportVars, consentVars, rateVars, migrationVars, poolVars, reportVars, lifeVars, accountVars, attemptVars>>
       \/ /\ focus = "pool" /\ PoolNext
          /\ UNCHANGED <<erasureVars, exportVars, consentVars, rateVars, migrationVars, replyVars, reportVars, lifeVars, accountVars, attemptVars>>
       \/ /\ focus = "reports" /\ ReportsNext
          /\ UNCHANGED <<erasureVars, exportVars, consentVars, rateVars, migrationVars, replyVars, poolVars, lifeVars, accountVars, attemptVars>>
       \/ /\ LifeStep
          /\ UNCHANGED <<erasureVars, exportVars, consentVars, rateVars, migrationVars, replyVars, poolVars, reportVars, accountVars, attemptVars>>
       \/ /\ focus = "credentials" /\ AccountsNext
          /\ UNCHANGED <<erasureVars, exportVars, consentVars, rateVars, migrationVars, replyVars, poolVars, reportVars, lifeVars, attemptVars>>
       \/ /\ focus = "attempts" /\ AttemptsNext
          /\ UNCHANGED <<erasureVars, exportVars, consentVars, rateVars, migrationVars, replyVars, poolVars, reportVars, lifeVars, accountVars>>

PlatformSpec == PlatformInit /\ [][PlatformNext]_<<focus, erasureVars, exportVars, consentVars, rateVars,
                    migrationVars, replyVars, poolVars, reportVars, lifeVars, accountVars, attemptVars>>

\* The requests of the erasure are interchangeable.
Symmetry == Permutations(Requests)
=============================================================================
