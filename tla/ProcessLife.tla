---------------------------- MODULE ProcessLife ----------------------------
(* The life of the server's processes (lifespan): the HTTP and Redis clients *)
(* that are built on first use and cached by configuration, the purge loop   *)
(* with the Redis lock that the processes share, and the shutdown, which     *)
(* ends the loop and then closes every client.  The dependencies of a route  *)
(* run in threads, so two of them may build one client at once.              *)
EXTENDS Integers, Sequences, FiniteSets
LOCAL INSTANCE SequencesExt

CONSTANTS Instances,   \* the processes of the deployment
          Threads,     \* those that resolve the dependencies of routes
          Deployments, \* settings: [voice, keys, stt, tts, scorer, mails, cached]
          Features,    \* who asks for an LLM, each with a max_tokens of its own
          CacheSize,   \* maxsize of shared_llm_provider
          MaxBuilds,   \* bound on the clients a process builds
          Interval     \* purge_interval_seconds; 0 turns the loop off
ASSUME LifeAssumption == CacheSize \in Nat \ {0} /\ MaxBuilds \in Nat /\ Interval \in Nat

VARIABLES stage,      \* where lifespan is, per process
          settings,   \* the configuration of the deployment
          resolving,  \* per thread: the providers it still needs, and whether it builds the first
          cache,      \* shared_llm_provider, least recently used first: <<config, client>>
          single,     \* the other cached providers
          registered, \* _registered: the clients to close
          clients,    \* the state of every client that was built
          sweeper,    \* the purge task
          sleep,      \* how much longer it sleeps
          shared,     \* whether REDIS_URL is set
          lockedFor,  \* what is left of apm:purge:lock
          sinceLock   \* time since the lock was last taken, capped

clientVars == <<settings, resolving, cache, single, registered, clients>>
purgeVars == <<sweeper, sleep, lockedFor, sinceLock>>
lifeVars == <<stage, shared, clientVars, purgeVars>>

NotResolving == [needs |-> <<>>, builds |-> FALSE]

\* A limiter is built when the modules are imported, with a Redis client if there
\* is a Redis.
BuildRateLimiter(i) == IF shared /\ stage[i] = "warmUp" THEN 1 ELSE 0

\* Without Redis there is one process.
LifeInit ==
    /\ shared \in BOOLEAN /\ settings \in Deployments
    /\ stage \in {f \in [Instances -> {"warmUp", "down"}] :
                     shared \/ \E i \in Instances : \A j \in Instances : f[j] = "warmUp" <=> j = i}
    /\ resolving = [i \in Instances |-> [t \in Threads |-> NotResolving]]
    /\ cache = [i \in Instances |-> <<>>] /\ single = [i \in Instances |-> {}]
    /\ registered = [i \in Instances |-> [k \in 1..BuildRateLimiter(i) |-> k]]
    /\ clients = [i \in Instances |-> [k \in 1..BuildRateLimiter(i) |-> "open"]]
    /\ sweeper = [i \in Instances |-> "none"] /\ sleep = [i \in Instances |-> 0]
    /\ lockedFor = 0 /\ sinceLock = 2 * Interval

-----------------------------------------------------------------------------
(* Providers.  What a builder returns: "client", a provider that owns one;  *)
(* "plain", one that does not; "error", nothing.                            *)

BuildLlmProvider(engine) == IF engine = "fake" THEN "plain"
                            ELSE IF engine \in settings.keys THEN "client" ELSE "error"
BuildSttProvider == IF "groq" \in settings.keys THEN "client" ELSE "error"
BuildPronunciationProvider == IF settings.scorer = "gop" THEN "client" ELSE "plain"
BuildMailer == IF settings.mails THEN "client" ELSE "plain"
BuildTtsCache == IF shared THEN "client" ELSE "plain"
SharedTtsProvider == IF settings.cached THEN BuildTtsCache ELSE "plain"

Result(config) == CASE config[1] = "llm" -> BuildLlmProvider(config[2])
                  []   config[1] = "stt" -> BuildSttProvider
                  []   config[1] = "scorer" -> BuildPronunciationProvider
                  []   config[1] = "mailer" -> BuildMailer
                  []   config[1] = "tts" -> SharedTtsProvider

\* The chain has an impatient client of its own for its first provider.
FallbackPrimaryProvider(feature) == <<"llm", "groq", "impatient", feature>>
SharedEngineProvider(engine, feature) == <<"llm", engine, "patient", feature>>
BuildFeatureLlm(feature) ==
    IF settings.voice = "groq_fallback"
    THEN <<FallbackPrimaryProvider(feature), SharedEngineProvider("deepseek", feature)>>
    ELSE <<SharedEngineProvider(settings.voice, feature)>>
\* Without a key, or with the recogniser or the voice of the device, the route answers 404.
GetSttProvider == IF settings.stt /\ "groq" \in settings.keys THEN {<<<<"stt">>>>} ELSE {}
GetTtsProvider == IF settings.tts THEN {<<<<"tts">>>>} ELSE {}

\* The start asks for the voice, the recogniser and an LLM, one after another.
WarmUps == GetTtsProvider \cup GetSttProvider \cup {BuildFeatureLlm("warm-up")}
Demands == GetTtsProvider \cup GetSttProvider \cup {BuildFeatureLlm(f) : f \in Features}
           \cup {<<<<"scorer">>>>, <<<<"mailer">>>>}

Running(i) == stage[i] \in {"warmUp", "serving"}
AllIdle(i) == \A t \in Threads : resolving[i][t] = NotResolving
Providers(i) == ToSet(cache[i]) \cup single[i]
Hit(i, config) == \E p \in Providers(i) : p[1] = config
Ask(i, t, demand) ==
    /\ resolving[i][t] = NotResolving
    /\ \/ stage[i] = "warmUp" /\ AllIdle(i) /\ demand \in WarmUps
       \/ stage[i] = "serving" /\ demand \in Demands
    /\ resolving' = [resolving EXCEPT ![i][t].needs = demand]
    /\ UNCHANGED <<stage, shared, settings, cache, single, registered, clients, purgeVars>>

\* lru_cache: a provider that is cached moves to the end, another is built.
MovedToEnd(s, config) ==
    LET k == CHOOSE j \in DOMAIN s : s[j][1] = config
    IN  IF \E j \in DOMAIN s : s[j][1] = config THEN Append(RemoveAt(s, k), s[k]) ELSE s
LookUp(i, t) ==
    LET need == resolving[i][t] IN
    /\ need.needs # <<>> /\ ~need.builds
    /\ \/ /\ Hit(i, Head(need.needs))
          /\ cache' = [cache EXCEPT ![i] = MovedToEnd(@, Head(need.needs))]
          /\ resolving' = [resolving EXCEPT ![i][t].needs = Tail(@)]
       \/ /\ ~Hit(i, Head(need.needs))
          /\ resolving' = [resolving EXCEPT ![i][t].builds = TRUE]
          /\ UNCHANGED cache
    /\ UNCHANGED <<stage, shared, settings, single, registered, clients, purgeVars>>

\* register_closeable by whoever keeps only the newest.
RegisterNewest(i, client) == [registered EXCEPT ![i] = <<client>>]
RegisterCloseable(i, client) == [registered EXCEPT ![i] = Append(@, client)]

\* The least recently used LLM falls out of the cache, still open; what another
\* thread has cached meanwhile stays cached.
Trim(s) == IF Len(s) > CacheSize THEN Tail(s) ELSE s
Cached(i, config, client) ==
    /\ cache' = IF config[1] = "llm" /\ ~Hit(i, config)
                THEN [cache EXCEPT ![i] = Trim(Append(@, <<config, client>>))] ELSE cache
    /\ single' = IF config[1] # "llm" /\ ~Hit(i, config)
                 THEN [single EXCEPT ![i] = @ \cup {<<config, client>>}] ELSE single

Build(i, t) ==
    LET config == Head(resolving[i][t].needs)
        client == Len(clients[i]) + 1
    IN
    /\ resolving[i][t].builds /\ Result(config) # "error"
    /\ resolving' = [resolving EXCEPT ![i][t] = [needs |-> Tail(@.needs), builds |-> FALSE]]
    /\ \/ /\ Result(config) = "client" /\ client <= MaxBuilds
          /\ Cached(i, config, client)
          /\ registered' = RegisterCloseable(i, client)
          /\ clients' = [clients EXCEPT ![i] = Append(@, "open")]
       \/ /\ Result(config) = "plain"
          /\ Cached(i, config, 0)
          /\ UNCHANGED <<registered, clients>>
    /\ UNCHANGED <<stage, shared, settings, purgeVars>>
\* The builder raises; what was built before for the same demand stays cached.
BuildFails(i, t) ==
    /\ resolving[i][t].builds /\ Result(Head(resolving[i][t].needs)) = "error"
    /\ resolving' = [resolving EXCEPT ![i][t] = NotResolving]
    /\ UNCHANGED <<stage, shared, settings, cache, single, registered, clients, purgeVars>>

-----------------------------------------------------------------------------
(* The purge loop.                                                          *)

\* The warm-ups, whatever came of them, are followed by the start of the loop.
Serve(i) ==
    /\ stage[i] = "warmUp" /\ AllIdle(i)
    /\ stage' = [stage EXCEPT ![i] = "serving"]
    /\ sweeper' = [sweeper EXCEPT ![i] = IF Interval > 0 THEN "asleep" ELSE "none"]
    /\ sleep' = [sleep EXCEPT ![i] = Interval]
    /\ UNCHANGED <<clientVars, shared, lockedFor, sinceLock>>

Awake(i) == sweeper[i] = "asleep" /\ sleep[i] = 0

LockTime == Interval

\* SET NX EX; without Redis the process is alone.
TakeLock(i) ==
    /\ Awake(i) /\ lockedFor = 0
    /\ sweeper' = [sweeper EXCEPT ![i] = "sweeping"]
    /\ lockedFor' = IF shared THEN LockTime ELSE 0
    /\ sinceLock' = 0
    /\ UNCHANGED <<stage, clientVars, shared, sleep>>
\* Another has it, or Redis does not answer: the tick is skipped.
SkipTick(i) ==
    /\ Awake(i) /\ shared
    /\ sleep' = [sleep EXCEPT ![i] = Interval]
    /\ UNCHANGED <<stage, clientVars, shared, sweeper, lockedFor, sinceLock>>
\* The sweep is committed or rolled back; the loop goes on either way.
Swept(i) ==
    /\ sweeper[i] = "sweeping"
    /\ sweeper' = [sweeper EXCEPT ![i] = "asleep"]
    /\ sleep' = [sleep EXCEPT ![i] = Interval]
    /\ UNCHANGED <<stage, clientVars, shared, lockedFor, sinceLock>>

Less(n) == IF n > 0 THEN n - 1 ELSE 0
PassTime ==
    /\ \E i \in Instances : sweeper[i] # "none"
    /\ sleep' = [i \in Instances |-> Less(sleep[i])]
    /\ lockedFor' = Less(lockedFor)
    /\ sinceLock' = IF sinceLock < 2 * Interval THEN sinceLock + 1 ELSE sinceLock
    /\ UNCHANGED <<stage, clientVars, shared, sweeper>>

-----------------------------------------------------------------------------
(* Shutdown.                                                                *)

\* The server has answered the requests in progress.
Shutdown(i) ==
    /\ stage[i] = "serving" /\ AllIdle(i)
    /\ stage' = [stage EXCEPT ![i] = "cancelling"]
    /\ UNCHANGED <<clientVars, shared, purgeVars>>
\* The loop is cancelled wherever it is and awaited: a sweep is rolled back.
AwaitSweeper(i) ==
    /\ stage[i] = "cancelling"
    /\ sweeper' = [sweeper EXCEPT ![i] = "none"] /\ sleep' = [sleep EXCEPT ![i] = 0]
    /\ stage' = [stage EXCEPT ![i] = "closing"]
    /\ UNCHANGED <<clientVars, shared, lockedFor, sinceLock>>
\* close_all: the last one registered is closed; one that fails does not stop it.
CloseNext(i, outcome) ==
    /\ stage[i] = "closing" /\ registered[i] # <<>>
    /\ clients' = [clients EXCEPT ![i][Last(registered[i])] = outcome]
    /\ registered' = [registered EXCEPT ![i] = Front(@)]
    /\ UNCHANGED <<stage, shared, settings, resolving, cache, single, purgeVars>>
Exit(i) ==
    /\ stage[i] = "closing" /\ registered[i] = <<>>
    /\ stage' = [stage EXCEPT ![i] = "down"]
    /\ UNCHANGED <<clientVars, shared, purgeVars>>

LifeNext ==
    \/ PassTime
    \/ \E i \in Instances :
         \/ \E t \in Threads : \/ \E demand \in WarmUps \cup Demands : Ask(i, t, demand)
                               \/ LookUp(i, t) \/ Build(i, t) \/ BuildFails(i, t)
         \/ Serve(i) \/ TakeLock(i) \/ SkipTick(i) \/ Swept(i)
         \/ Shutdown(i) \/ AwaitSweeper(i) \/ Exit(i)
         \/ \E outcome \in {"closed", "failed"} : CloseNext(i, outcome)

LifeSpec == LifeInit /\ [][LifeNext]_lifeVars

-----------------------------------------------------------------------------
(* A process that has shut down leaves no client open that it ever built,   *)
(* one that fell out of its cache, was built twice by two threads or stood  *)
(* behind one that would not close included (#280, #303), and no purge runs *)
(* once the clients are being closed; until then a cached client is usable. *)
(* And of all the processes one sweeps per interval: a tick is refused only *)
(* within an interval of the last lock, and no two locks are taken within   *)
(* one (#446).                                                              *)
OrderlyProcesses ==
    /\ \A i \in Instances :
         /\ stage[i] = "down" => \A k \in 1..Len(clients[i]) : clients[i][k] # "open"
         /\ stage[i] \in {"closing", "down"} => sweeper[i] = "none"
         /\ Running(i) => \A p \in Providers(i) : p[2] # 0 => clients[i][p[2]] = "open"
    /\ shared => (lockedFor > 0 <=> sinceLock < Interval)
=============================================================================
