----------------------------- MODULE RateLimit -----------------------------
(* The two rate limiters of core/rate_limit and the client address they are *)
(* keyed by.  InMemoryRateLimiter keeps the hits of a sliding window in a   *)
(* dict of bounded size; RedisRateLimiter counts the hits of fixed windows  *)
(* in a Redis that all workers share and that may be out of reach.          *)
(* Callers come through trusted proxies, each of which appends the address  *)
(* it sees to X-Forwarded-For; what stands before is the caller's own.      *)
EXTENDS Integers, Sequences, FiniteSets
LOCAL INSTANCE SequencesExt

CONSTANTS Callers,   \* client addresses
          Proxies,   \* addresses of the trusted proxies, nearest to the client first
          Garbage,   \* an X-Forwarded-For entry that is no address
          MaxHits, Window, MaxKeys,
          LastSecond \* bound of the clock
ASSUME RateAssumption == /\ MaxHits \in Nat \ {0} /\ Window \in Nat \ {0} /\ MaxKeys \in Nat \ {0}
                         /\ LastSecond \in Nat /\ Garbage \notin Callers
                         /\ Proxies \in Seq({Proxies[i] : i \in DOMAIN Proxies}) /\ Len(Proxies) > 0

VARIABLES second,   \* the clock
          backend,  \* "memory" or "redis": build_rate_limiter
          failOpen, \* of the Redis limiter
          hits,     \* _hits: the instants of the hits of each key
          inserted, \* the keys of _hits, in the order they were inserted
          counters, \* the keys of Redis: [key, window, count]
          granted,  \* (history) the calls accepted after a count, in the last Window
                    \* seconds, of the callers not forgotten: [caller, at, nth]
          uncounted,\* (history) callers let through while Redis was out of reach
          forgotten \* (history) callers whose live hits were evicted

rateVars == <<second, backend, failOpen, hits, inserted, counters, granted, uncounted, forgotten>>

-----------------------------------------------------------------------------
(* client_ip                                                                *)

IsAddress(hop) == hop # Garbage

\* The header the application receives: each proxy appends the peer it saw.
Forwarded(caller, claimed) ==
    claimed \o <<caller>> \o SubSeq(Proxies, 1, Len(Proxies) - 1)

ClientIp(hops, peer) ==
    IF Len(hops) >= Len(Proxies) /\ IsAddress(hops[Len(hops) + 1 - Len(Proxies)])
    THEN hops[Len(hops) + 1 - Len(Proxies)] ELSE peer

KeyOf(caller, claimed) == ClientIp(Forwarded(caller, claimed), Proxies[Len(Proxies)])

Claims == {<<>>} \cup {<<x>> : x \in Callers \cup {Garbage}}

-----------------------------------------------------------------------------
RateInit == /\ second = 0 /\ backend \in {"memory", "redis"}
            /\ failOpen \in (IF backend = "redis" THEN BOOLEAN ELSE {FALSE})
            /\ hits = [k \in {} |-> <<>>] /\ inserted = <<>> /\ counters = {}
            /\ granted = {} /\ uncounted = {} /\ forgotten = {}

NextSecond == /\ second < LastSecond /\ second' = second + 1
              /\ counters' = {c \in counters : c.expires > second + 1}
              /\ granted' = {g \in granted : second + 1 - g.at <= Window}
              /\ UNCHANGED <<backend, failOpen, hits, inserted, uncounted, forgotten>>

Grant(caller) ==
    granted \cup {[caller |-> caller, at |-> second,
                   nth |-> Cardinality({g \in granted : g.caller = caller /\ g.at = second}) + 1]}

-----------------------------------------------------------------------------
(* InMemoryRateLimiter.check, on one thread                                 *)

\* The hits of the last second of the window are dropped, too.
PoppedEarly(at, n) == /\ \A i \in 1..n : second - at[i] >= Window
                      /\ n < Len(at) => second - at[n + 1] < Window

\* The first n hits have left the window and are popped, the next one has not.
Popped(at, n) == /\ \A i \in 1..n : second - at[i] > Window
                 /\ n < Len(at) => second - at[n + 1] <= Window
Bucket(key) == IF key \in DOMAIN hits THEN hits[key] ELSE <<>>
HasKey(order, key) == \E i \in 1..Len(order) : order[i] = key

\* A key without hits goes.
Cleaned(order, key, live) ==
    IF live = <<>> /\ HasKey(order, key) THEN RemoveAt(order, CHOOSE i \in 1..Len(order) : order[i] = key)
    ELSE order

\* A new key at capacity takes the place of the first one inserted.
Evicted(order, key) == IF ~HasKey(order, key) /\ Len(order) >= MaxKeys THEN {Head(order)} ELSE {}
Admitted(order, key) ==
    IF HasKey(order, key) THEN order
    ELSE Append(IF Len(order) >= MaxKeys THEN Tail(order) ELSE order, key)

Counted(grants, lost) == {g \in grants : g.caller \notin lost}
Full(at) == Len(at) >= MaxHits

CheckInMemory(caller, claimed) ==
    LET key == KeyOf(caller, claimed) IN
    /\ backend = "memory"
    /\ \E n \in 0..Len(Bucket(key)) :
         LET live == SubSeq(Bucket(key), n + 1, Len(Bucket(key)))
             order == Cleaned(inserted, key, live)
             evicted == Evicted(order, key)
         IN  /\ Popped(Bucket(key), n)
             /\ inserted' = Admitted(order, key)
             /\ hits' = [k \in (DOMAIN hits \ evicted) \cup {key} |->
                           IF k # key THEN hits[k] ELSE IF Full(live) THEN live ELSE Append(live, second)]
             /\ forgotten' = forgotten \cup (evicted \cap Callers)
             /\ granted' = Counted(IF Full(live) THEN granted ELSE Grant(caller), forgotten')
    /\ UNCHANGED <<second, backend, failOpen, counters, uncounted>>

-----------------------------------------------------------------------------
(* RedisRateLimiter.check, by any worker                                    *)

CurrentWindow == second \div Window
Counter(key) == {c \in counters : c.key = key /\ c.window = CurrentWindow}
Count(key) == IF Counter(key) = {} THEN 0 ELSE (CHOOSE c \in Counter(key) : TRUE).count

\* A count is kept up to the first that is refused.
Capped(count) == IF count > MaxHits + 1 THEN MaxHits + 1 ELSE count

\* The script: INCR, and on the first hit EXPIRE after the window and one second more.
Increment(key) ==
    counters' = (counters \ Counter(key)) \cup
        {[key |-> key, window |-> CurrentWindow, count |-> Capped(Count(key) + 1),
          expires |-> IF Counter(key) = {} THEN second + Window + 1
                      ELSE (CHOOSE c \in Counter(key) : TRUE).expires]}

CheckInRedis(caller, claimed) ==
    LET key == KeyOf(caller, claimed)
    IN  /\ backend = "redis" /\ Increment(key)
        /\ IF Count(key) + 1 > MaxHits THEN UNCHANGED granted ELSE granted' = Grant(caller)
        /\ UNCHANGED <<second, backend, failOpen, hits, inserted, uncounted, forgotten>>

\* RedisError: the script did not run, or its answer was lost on the way back.  A
\* limiter that fails open lets the call through uncounted; one that fails closed
\* refuses it.
CheckInOutage(caller, claimed) ==
    /\ backend = "redis"
    /\ Increment(KeyOf(caller, claimed)) \/ UNCHANGED counters
    /\ uncounted' = IF failOpen THEN uncounted \cup {caller} ELSE uncounted
    /\ UNCHANGED <<granted, second, backend, failOpen, hits, inserted, forgotten>>

RateNext == \/ NextSecond
            \/ \E caller \in Callers, claimed \in Claims :
                 \/ CheckInMemory(caller, claimed) \/ CheckInRedis(caller, claimed)
                 \/ CheckInOutage(caller, claimed)
RateSpec == RateInit /\ [][RateNext]_rateVars

-----------------------------------------------------------------------------
GrantsOf(caller, from) ==
    Cardinality({g \in granted : g.caller = caller /\ g.at >= from})

\* Whatever a caller puts in its headers, the sliding window grants it at most
\* MaxHits calls in any Window seconds, as long as its bucket was not evicted for
\* another key (InMemoryRateLimiter.check).
SlidingLimit == backend = "memory" => \A c \in Callers \ forgotten : \A from \in 0..second :
    second - from <= Window => GrantsOf(c, from) <= MaxHits

\* The dict never outgrows max_keys, whatever keys are tried (#234).
BoundedKeys == Cardinality(DOMAIN hits) <= MaxKeys

\* With Redis a fixed window grants MaxHits and any Window seconds at most twice
\* that, whatever outages come between; only a route that fails open lets calls
\* through uncounted during one.
SharedLimit == backend = "redis" =>
    /\ ~failOpen => uncounted = {}
    /\ \A c \in Callers :
        /\ \A from \in 0..second : second - from < Window => GrantsOf(c, from) <= 2 * MaxHits
        /\ GrantsOf(c, CurrentWindow * Window) <= MaxHits

(* Whatever backend serves it, the limiter keeps its promise: a sliding     *)
(* window per key, a bounded table of keys, and a shared window that an     *)
(* outage of Redis opens only on the routes that fail open                  *)
(* (core/rate_limit.py).                                                    *)
LimitHolds == SlidingLimit /\ BoundedKeys /\ SharedLimit
=============================================================================
