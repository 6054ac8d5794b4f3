-------------------------------- MODULE Service --------------------------------
(***************************************************************************)
(* One worker from its environment to its answers: the settings are        *)
(* resolved and validated (Settings), create_app builds the routes and the *)
(* limiter from them, and then requests arrive over proxies, are counted   *)
(* under a key (ClientKey), find their endpoint, show a token (Principal), *)
(* or ask for the cached time.  What Redis holds is shared by all workers, *)
(* so a request here may just as well be another worker's.                 *)
(*                                                                         *)
(* All requests fall into one rate-limit window, and every step a handler  *)
(* takes without waiting for Redis is one action.  The middlewares around  *)
(* this are RequestPipeline's subject, the counters MemoryRateLimit's and  *)
(* RedisRateLimit's, the in-process cache MemoryCache's.                   *)
(***************************************************************************)
EXTENDS ClientKey, Principal, FiniteSets

CONSTANTS
    Request,
    Offered(_, _),   \* what a request may bring, to a service with these settings
    Habit,           \* what each host, as a proxy, makes of the headers
    RequestTimeout,  \* ticks a handler is given
    Latency,         \* ticks a command takes to Redis once nobody waits for it
    MaxTime          \* bound on the clock

ASSUME TimeAssumption ==
    RequestTimeout \in Nat \ {0} /\ Latency \in Nat /\ MaxTime \in Nat

ASSUME OfferAssumption ==
    \A r \in Request, e \in Environment : \A o \in Offered(r, e) :
        /\ o.client \in Address /\ o.via \in Seq(Address)
        /\ o.headers \in Headers

\* A proxy joins the lines of X-Forwarded-For and appends to them, adds a line,
\* replaces them all or keeps them as they are.  What it writes is the bare
\* address it hears from or something else, and it names it in X-Real-IP or not.
ASSUME HabitAssumption ==
    Habit \in [Address -> [forwarded : {"joined", "added", "replaced", "kept"},
                          bare : BOOLEAN, names : BOOLEAN]]

VARIABLES
    routes,  \* the routes of the application, in the order they are tried
    clock,
    hits,    \* what the limiter's counters count: where, under which key, which request
    held,    \* the entry of the cache, and until when it lives
    req      \* of each request: how far it is, what it brought, how it was answered

vars == <<given, derived, stage, routes, clock, hits, held, req>>

NoEntry == [time |-> 0, until |-> 0]

Init ==
    /\ SettingsInit
    /\ routes = <<>>
    /\ clock = 0
    /\ hits = {}
    /\ held = NoEntry
    /\ req = [r \in Request |->
                [pc |-> "unsent", offer |-> <<>>, hop |-> 0, headers |-> <<>>, since |-> 0,
                 seen |-> NoEntry, time |-> 0, age |-> 0, status |-> 0]]

----------------------------------------------------------------------------
(* create_app                                                              *)

Route(path, endpoint) == <<[path |-> path, endpoint |-> endpoint]>>
When(enabled, rs) == IF enabled THEN rs ELSE <<>>

Build(from, to, ok) ==
    /\ stage = from
    /\ stage' = IF ok THEN to ELSE "refused"
    /\ UNCHANGED <<given, derived, clock, hits, held, req>>

\* FastAPI serves no documentation page without the schema it shows.
DocRoutes ==
    When(given.app.openapi_enabled,
         Route("/openapi.json", "openapi")
         \o When(given.app.docs_enabled, Route("/docs", "docs"))
         \o When(given.app.docs_enabled, Route("/docs/oauth2-redirect", "oauth2"))
         \o When(given.app.redoc_enabled, Route("/redoc", "redoc")))

Construct ==
    /\ Build("admitted", "constructed", TRUE)
    /\ routes' = DocRoutes

\* setup_logging: a file that cannot be read ends the process.
SetupLogging ==
    /\ Build("constructed", "logged", derived.logging_config_path # "missing")
    /\ UNCHANGED routes

MetricRoutes == When(given.metrics_enabled, Route("/metrics", "metrics"))

SetupMetrics ==
    /\ Build("logged", "measured", TRUE)
    /\ routes' = routes \o MetricRoutes

\* create_health_router
HealthRoutes(p) ==
    Route("/", "root")
    \o Route(p.health_check_path, "health")
    \o Route(p.readiness_check_path, "ready")
    \o Route("/favicon.ico", "favicon")
    \o When(p.info_endpoint_enabled, Route("/info", "info"))
    \o When(p.endpoints_listing_enabled, Route("/endpoints", "endpoints"))

\* routes/api.py
ApiRoutes ==
    Route("/api/v1/me", "me") \o Route("/api/v1/reports", "reports")
    \o Route("/api/v1/admin", "admin") \o Route("/api/v1/cached-time", "cached_time")

SetupRoutes ==
    /\ Build("measured", "serving", TRUE)
    /\ routes' = routes \o HealthRoutes(given.paths) \o ApiRoutes

\* The first route that matches.
FirstMatch(rs, path) ==
    LET matches == {i \in 1..Len(rs) : rs[i].path = path}
    IN IF matches = {} THEN "none"
       ELSE rs[CHOOSE i \in matches : \A j \in matches : i <= j].endpoint
EndpointAt(path) == FirstMatch(routes, path)

----------------------------------------------------------------------------
(* The way of a request to the worker                                      *)

Progress(r, next) ==
    /\ stage = "serving"
    /\ req' = [req EXCEPT ![r] = next]
    /\ UNCHANGED <<given, derived, stage, routes, clock>>

\* An answered request: what it was waiting for is forgotten.
Done(q, status) ==
    [q EXCEPT !.pc = "done", !.status = status, !.since = 0, !.seen = NoEntry, !.time = 0]

\* A client sends what it likes.
Send(r) ==
    /\ req[r].pc = "unsent"
    /\ \E o \in Offered(r, given) :
        Progress(r, [req[r] EXCEPT !.pc = "travelling", !.offer = o, !.headers = o.headers])
    /\ UNCHANGED <<hits, held>>

\* The client and the proxies on the way, in order; the last is the worker's peer.
Chain(o) == <<o.client>> \o o.via

\* The headers a host passes on, with this habit, when it heard them from another.
Relayed(h, habit, heard) ==
    LET entry == IF habit.bare THEN heard ELSE Garbled
        more == Append(h.forwarded, entry)
        named == [h EXCEPT !.real_ip = IF habit.names THEN heard ELSE @]
    IN CASE habit.forwarded = "kept" -> named
         [] habit.forwarded = "replaced" ->
                [named EXCEPT !.forwarded = <<entry>>, !.first = 1, !.last = 0]
         [] habit.forwarded = "joined" ->
                [named EXCEPT !.forwarded = more, !.first = Len(more), !.last = 0]
         [] OTHER ->
                [named EXCEPT !.forwarded = more, !.first = IF @ = 0 THEN 1 ELSE @,
                              !.last = Len(h.forwarded)]

Relay(r) ==
    LET q == req[r]
        chain == Chain(q.offer)
    IN /\ q.pc = "travelling" /\ q.hop < Len(q.offer.via)
       /\ Progress(r, [q EXCEPT !.hop = @ + 1,
                         !.headers = Relayed(@, Habit[chain[q.hop + 2]], chain[q.hop + 1])])
       /\ UNCHANGED <<hits, held>>

Arrived(q) == q.pc = "travelling" /\ q.hop = Len(q.offer.via)

Exempt ==
    {given.paths.health_check_path, given.paths.readiness_check_path, "/metrics", "/favicon.ico"}

Limited(o) == given.rate_limit.enabled /\ o.path \notin Exempt

Admit(r) ==
    LET q == req[r]
    IN /\ Arrived(q) /\ ~Limited(q.offer)
       /\ Progress(r, [q EXCEPT !.pc = "admitted", !.since = clock])
       /\ UNCHANGED <<hits, held>>

Counter(key) == {h \in hits : h[1] = derived.rate_limit_storage_url /\ h[2] = key}

KeyOf(q) ==
    RateLimitKey(Chain(q.offer)[Len(q.offer.via) + 1], q.headers, q.offer.authorization)

Hit(r) ==
    LET q == req[r]
        key == KeyOf(q)
    IN /\ Arrived(q) /\ Limited(q.offer)
       /\ hits' = hits \cup {<<derived.rate_limit_storage_url, key, r>>}
       /\ Progress(r, IF Cardinality(Counter(key)) < given.rate_limit.requests
                      THEN [q EXCEPT !.pc = "admitted", !.since = clock]
                      ELSE Done(q, 429))
       /\ UNCHANGED held

----------------------------------------------------------------------------
(* The endpoints                                                           *)

At(r, endpoint) == req[r].pc = "admitted" /\ EndpointAt(req[r].offer.path) = endpoint

\* Readiness may fail, and what that takes is Lifespan's subject.
Statuses(endpoint) ==
    CASE endpoint = "none" -> {404}
      [] endpoint = "ready" -> {200, 503}
      [] endpoint = "favicon" -> {204}
      [] OTHER -> {200}

Answer(r) ==
    /\ \E e \in {"none", "openapi", "docs", "oauth2", "redoc", "metrics", "root", "health", "ready",
                 "favicon", "info", "endpoints"} :
        At(r, e) /\ \E status \in Statuses(e) : Progress(r, Done(req[r], status))
    /\ UNCHANGED <<hits, held>>

\* The provider may not list the token's key, or not answer.
Authorize(r) ==
    /\ \E e \in DOMAIN Required, listed \in BOOLEAN :
        At(r, e) /\ Progress(r, Done(req[r],
                                     Verdict(given.auth, e, req[r].offer.authorization, listed)))
    /\ UNCHANGED <<hits, held>>

----------------------------------------------------------------------------
(* /api/v1/cached-time                                                     *)

\* create_cache_store
Redis == given.cache.enabled /\ given.cache.backend = "redis"

\* A bug: an entry is found in the very moment it expires.
FreshLate(entry) == clock <= entry.until

Fresh(entry) == clock < entry.until
\* A bug: an entry is stored for good.
EntryForGood(time) == [time |-> time, until |-> MaxTime + 1]

Entry(time) == [time |-> time, until |-> clock + given.cache.default_ttl_seconds]

\* A 200 with this time in its body.
Told(q, time) == [Done(q, 200) EXCEPT !.age = clock - time]

LiveTime(r) ==
    /\ At(r, "cached_time") /\ ~given.cache.enabled
    /\ Progress(r, Told(req[r], clock))
    /\ UNCHANGED <<hits, held>>

\* The in-process store answers at once: get and set are one step.
MemoryTime(r) ==
    /\ At(r, "cached_time") /\ given.cache.enabled /\ ~Redis
    /\ held' = IF Fresh(held) THEN held ELSE Entry(clock)
    /\ Progress(r, Told(req[r], held'.time))
    /\ UNCHANGED hits

\* GET, at the server.
Get(r) ==
    /\ At(r, "cached_time") /\ Redis
    /\ Progress(r, [req[r] EXCEPT !.pc = "got", !.seen = IF Fresh(held) THEN held ELSE NoEntry])
    /\ UNCHANGED <<hits, held>>

\* Its reply: the time it holds is told, or the time it is now sent to be stored.
GetReplied(r) ==
    LET q == req[r]
    IN /\ q.pc = "got"
       /\ Progress(r, IF q.seen # NoEntry THEN Told(q, q.seen.time)
                      ELSE [q EXCEPT !.pc = "storing", !.time = clock])
       /\ UNCHANGED <<hits, held>>

\* SETEX, at the server: whoever is last wins, even if the request has timed out.
SetEx(r) ==
    LET q == req[r]
    IN /\ q.pc = "storing"
       /\ held' = Entry(q.time)
       /\ Progress(r, IF q.status = 0 THEN Told(q, q.time) ELSE Done(q, q.status))
       /\ UNCHANGED hits

Waiting(q) == q.pc \in {"admitted", "got", "storing"} /\ q.status = 0

\* The connection to Redis fails and takes a command or its reply with it.
Disconnect(r) ==
    LET q == req[r]
    IN /\ Redis /\ (At(r, "cached_time") \/ q.pc \in {"got", "storing"})
       /\ Progress(r, Done(q, IF q.status = 0 THEN 500 ELSE q.status))
       /\ UNCHANGED <<hits, held>>

\* TimeoutMiddleware gives up; a command that was sent is still on its way.
Timeout(r) ==
    LET q == req[r]
    IN /\ Waiting(q) /\ clock = q.since + RequestTimeout
       /\ Progress(r, IF q.pc = "storing" THEN [q EXCEPT !.status = 504] ELSE Done(q, 504))
       /\ UNCHANGED <<hits, held>>

\* CacheStore.clear: the dictionary, or FLUSHDB of the database the cache is in.
Clear ==
    /\ stage = "serving" /\ given.cache.enabled
    /\ held' = NoEntry
    /\ hits' = IF Redis THEN {h \in hits : h[1] # derived.cache_storage_url} ELSE hits
    /\ UNCHANGED <<given, derived, stage, routes, clock, req>>

\* No handler outlives its timeout, and no command its latency.  Nothing else
\* here reads the clock, which stands still without a cache.
Tick ==
    /\ stage = "serving" /\ given.cache.enabled /\ clock < MaxTime
    /\ \A r \in Request :
        /\ Waiting(req[r]) => clock < req[r].since + RequestTimeout
        /\ req[r].pc = "storing" => clock < req[r].since + RequestTimeout + Latency
    /\ clock' = clock + 1
    /\ UNCHANGED <<given, derived, stage, routes, hits, held, req>>

Next ==
    \/ SettingsNext /\ UNCHANGED <<routes, clock, hits, held, req>>
    \/ Construct
    \/ SetupLogging
    \/ SetupMetrics
    \/ SetupRoutes
    \/ \E r \in Request :
        \/ Send(r)
        \/ Relay(r)
        \/ Admit(r)
        \/ Hit(r)
        \/ Answer(r)
        \/ Authorize(r)
        \/ LiveTime(r)
        \/ MemoryTime(r)
        \/ Get(r)
        \/ GetReplied(r)
        \/ SetEx(r)
        \/ Disconnect(r)
        \/ Timeout(r)
    \/ Clear
    \/ Tick

Spec == Init /\ [][Next]_vars

----------------------------------------------------------------------------

Building == {"admitted", "constructed", "logged", "measured", "serving"}

\* What the resolvers and validators have established by the time they have run.
Staged ==
    /\ given.cache.default_ttl_seconds \in Nat \ {0}
    /\ DOMAIN derived = {"logging_config_path", "database_url", "alembic_database_url",
            "otel_service_name", "rate_limit_storage_url", "cache_storage_url",
            "content_security_policy"}
    /\ stage \in {"logging", "database", "otel", "rate_limit", "cache", "csp", "auth", "proxy",
                  "cors", "paths", "refused"} \cup Building
    /\ stage \notin {"logging", "database", "refused"} =>
        /\ derived.database_url = DatabaseUrl(given.database)
        /\ derived.alembic_database_url = AlembicUrl(given.database)
        /\ derived.alembic_database_url # NoUrl
    /\ stage \in {"cache", "csp", "auth", "proxy", "cors", "paths"} \cup Building =>
        derived.rate_limit_storage_url = RateLimitUrl(given)
    /\ stage \in {"csp", "auth", "proxy", "cors", "paths"} \cup Building =>
        derived.cache_storage_url = CacheUrl(given)
    /\ stage \in {"proxy", "cors", "paths"} \cup Building => AuthAccepted(given.auth)
    /\ stage \in Building => PathsAccepted(given.paths)

\* The operator's own proxies: those the limiter looks behind.
Proxies(e) ==
    IF e.proxy.trust_proxy_headers THEN e.proxy.trusted_proxies ELSE e.forwarded_allow_ips

\* The hosts behind the i-th of a chain, up to the n-th, are the operator's, and
\* by their habits the address of the i-th stays where it is read: in the first
\* line by the limiter, in the last by uvicorn, and in X-Real-IP if that is
\* asked before X-Forwarded-For.
Vouched(e, chain, i, n) ==
    LET limiter == e.proxy.trust_proxy_headers
    IN /\ \A j \in (i + 1)..n : chain[j] \in Proxies(e) /\ Habit[chain[j]].bare
       /\ i < n =>
            /\ Habit[chain[i + 1]].forwarded
                    \in {"joined", "replaced"} \cup (IF limiter THEN {} ELSE {"added"})
            /\ limiter /\ e.proxy.proxy_headers[1] # "x-forwarded-for" =>
                    Habit[chain[i + 1]].names
       /\ \A j \in (i + 2)..n :
            Habit[chain[j]].forwarded
                \in {"joined", "kept"} \cup (IF limiter THEN {"added"} ELSE {})

\* An address in the headers with nothing but the operator's proxies behind it.
Vouches(e, h, address) ==
    LET limiter == e.proxy.trust_proxy_headers
    IN /\ \E p \in 1..Len(h.forwarded) :
            /\ h.forwarded[p] = address
            /\ \A x \in (p + 1)..Len(h.forwarded) : h.forwarded[x] \in Address \cap Proxies(e)
            /\ IF limiter THEN p <= h.first ELSE h.last < p
       /\ limiter /\ e.proxy.proxy_headers[1] # "x-forwarded-for" =>
            h.real_ip \in {address} \cup Proxies(e)

\* A request that is under way carries the addresses that proxies have vouched
\* for on its way where they are read, one that waits
\* for Redis asks for the cached time, and one with a 200 from a protected
\* endpoint has got it from Verdict.
TracedRequest(r, q) ==
    /\ DOMAIN q = {"pc", "offer", "hop", "headers", "since", "seen", "time", "age", "status"}
    /\ q.pc = "unsent" => q.hop = 0
    /\ q.pc # "unsent" =>
        /\ stage = "serving"
        /\ q.offer \in Offered(r, given)
        /\ q.hop \in 0..Len(q.offer.via)
        /\ q.headers \in Headers
        /\ \A i \in 1..q.hop :
            Vouched(given, Chain(q.offer), i, q.hop + 1) =>
                Vouches(given, q.headers, Chain(q.offer)[i])
    /\ q.pc \in {"got", "storing"} => Redis /\ EndpointAt(q.offer.path) = "cached_time"
    /\ q.status \in IF q.pc = "storing" THEN {0, 504}
                    ELSE IF q.pc = "done" THEN {200, 204, 401, 403, 404, 429, 500, 503, 504} ELSE {0}
    /\ q.status = 200 /\ EndpointAt(q.offer.path) \in DOMAIN Required =>
        \E listed \in BOOLEAN :
            Verdict(given.auth, EndpointAt(q.offer.path), q.offer.authorization, listed) = 200

Traced == DOMAIN req = Request /\ \A r \in Request : TracedRequest(r, req[r])

\* What is counted is a request that has arrived, under its own key.
Counted ==
    \A h \in hits :
        /\ h[3] \in Request /\ req[h[3]].pc \notin {"unsent", "travelling"}
        /\ req[h[3]].hop = Len(req[h[3]].offer.via)
        /\ h = <<derived.rate_limit_storage_url, KeyOf(req[h[3]]), h[3]>>

\* The most an entry can be older than its time in the store.
Delay == IF Redis THEN RequestTimeout + Latency ELSE 0

Aged(entry) ==
    /\ entry \in [time : Nat, until : Nat]
    /\ entry.time <= clock
    /\ entry.until <= entry.time + Delay + given.cache.default_ttl_seconds

\* A time is told this many ticks after it was taken, at most.
MaxAge ==
    IF given.cache.enabled
    THEN given.cache.default_ttl_seconds - 1 + Delay + (IF Redis THEN RequestTimeout ELSE 0)
    ELSE 0

TimedRequest(q) ==
    /\ q.since \in Nat /\ q.since <= clock
    /\ q.time \in Nat /\ q.age \in Nat
    /\ q.age <= MaxAge
    /\ Waiting(q) => clock <= q.since + RequestTimeout
    /\ q.pc = "got" =>
        Aged(q.seen) /\ (q.seen # NoEntry => q.since < q.seen.until)
    /\ q.pc = "storing" =>
        /\ q.since <= q.time /\ q.time <= clock
        /\ clock <= q.since + RequestTimeout + Latency

Timed == clock \in Nat /\ Aged(held) /\ \A r \in Request : TimedRequest(req[r])

\* The inductive invariant: settings are as the stage promises, requests as
\* they were sent and relayed, counters as the requests were, times as old as
\* the timeout and the store allow.
IInv == Staged /\ Traced /\ Counted /\ Timed

\* The client a request counts for is the last address on its way that is not
\* one of the operator's proxies, whatever the client and those before it write
\* into X-Forwarded-For and X-Real-IP, in however many lines
\* (_build_rate_limit_key, get_forwarded_client_ip).  This asks of the operator:
\*  - uvicorn trusts no proxy the limiter does not, and the limiter reads
\*    X-Forwarded-For at all;
\*  - every proxy of theirs behind that address writes bare addresses;
\*  - the first of them joins the lines, as nginx does in
\*    docs/vm-deployment.md:375, or replaces them: the limiter reads the first
\*    line, uvicorn the last, so to add a line is enough only for uvicorn;
\*  - those behind it leave what it wrote: they join or keep, or add a line
\*    where it is the limiter that reads;
\*  - the first of them writes X-Real-IP, if the limiter is told to ask for that
\*    before X-Forwarded-For.
\* The last three are Vouched's; of a request that comes without a proxy nothing
\* is asked.
KeyIsReal ==
    \A h \in hits :
        LET chain == Chain(req[h[3]].offer)
        IN (/\ h[2][1] = "ip"
            /\ given.forwarded_allow_ips \subseteq Proxies(given)
            /\ given.proxy.trust_proxy_headers =>
                \E i \in 1..Len(given.proxy.proxy_headers) :
                    given.proxy.proxy_headers[i] = "x-forwarded-for")
           => \A i \in 1..Len(chain) :
                chain[i] \notin Proxies(given) /\ Vouched(given, chain, i, Len(chain))
                => h[2] = <<"ip", chain[i]>>

\* Nobody gets a 200 from a protected endpoint but with a token that the
\* material the operator configured has signed, of its own kind of algorithm,
\* not expired, for the issuer and audience the settings require, and with the
\* grant of the endpoint: whatever combination of auth settings was admitted
\* (_validate_auth_settings, JWTAuthService, require_scopes, require_roles).
TokenDuly ==
    \A r \in Request :
        LET a == given.auth
            o == req[r].offer
            c == Claims[o.authorization.token]
        IN req[r].status = 200 /\ EndpointAt(o.path) \in DOMAIN Required =>
            /\ a.enabled
            /\ CASE c.signer = "secret" -> a.jwt_secret >= 32
                 [] c.signer = "public_key" -> a.jwt_public_key # ""
                 [] c.signer = "provider" -> a.jwks_url = "https"
                 [] OTHER -> FALSE
            /\ c.signer = "secret" <=> Family[c.alg] = "HS"
            /\ c.exp # "past" /\ (a.require_exp => c.exp = "ahead")
            /\ a.require_issuer => c.iss = a.jwt_issuer /\ c.iss # ""
            /\ a.require_audience => a.jwt_audience \in c.aud /\ a.jwt_audience # ""
            /\ EndpointAt(o.path) = "reports" =>
                "reports:read" \in c.scope.names \cup c.scp.names
            /\ EndpointAt(o.path) = "admin" => "admin" \in c.roles.names

\* The cached time is never older than its lifetime, and with Redis what the
\* request that stored it and the one that tells it may take besides, although
\* requests that miss together overwrite each other in any order, and one that
\* timed out still stores (get_cached_time, RedisCacheStore, TimeoutMiddleware).
CachedTimeFresh == \A r \in Request : req[r].status = 200 => req[r].age <= MaxAge

\* Clearing the cache, which flushes a Redis database (RedisCacheStore.clear),
\* takes rate-limit counters with it only if both are in one database by what the
\* operator named, or left at its default: a URL, or the host with redis.db for
\* the counters and cache.redis_db for the cache, which differ unless someone
\* sets one of them to the other's value.
SharesDatabase(e) ==
    LET Named(url, db) == IF url # NoRedis THEN url ELSE [host |-> e.redis.host, db |-> db]
    IN Named(e.rate_limit.storage_url, e.redis.db) = Named(e.cache.storage_url, e.cache.redis_db)

CountersSurviveClear == [][hits \subseteq hits' \/ SharesDatabase(given)]_vars

\* A probe at the path the operator gave it finds its own endpoint and is never
\* told that it came too often, unless the path is one that the framework or
\* the root serve before it (setup_routes, setup_middleware, _validate_health_paths).
ProbesAnswer ==
    \A r \in Request :
        LET path == req[r].offer.path
        IN req[r].pc = "done" /\ path \notin {"/", "/metrics", "/openapi.json", "/docs", "/docs/oauth2-redirect", "/redoc"} =>
            /\ path = given.paths.health_check_path =>
                EndpointAt(path) = "health" /\ req[r].status \in {200, 504}
            /\ path = given.paths.readiness_check_path =>
                EndpointAt(path) = "ready" /\ req[r].status \in {200, 503, 504}

\* The routes so far, in the order create_app adds them.
Routed ==
    /\ stage \in {"constructed", "logged"} => routes = DocRoutes
    /\ stage = "measured" => routes = DocRoutes \o MetricRoutes
    /\ stage = "serving" =>
        routes = DocRoutes \o MetricRoutes \o HealthRoutes(given.paths) \o ApiRoutes

\* What a path that is not counted is told at the end is the endpoint's answer
\* or the timeout's.
ProbeRequest(q) ==
    q.pc = "done" /\ q.offer.path \in Exempt =>
        /\ EndpointAt(q.offer.path) = "health" => q.status \in {200, 504}
        /\ EndpointAt(q.offer.path) = "ready" => q.status \in {200, 503, 504}

\* What makes ProbesAnswer inductive, along with IInv.
ProbeInv == Routed /\ \A r \in Request : ProbeRequest(req[r])

\* A service that is up queries the database its migrations run against, unless
\* the operator sent them elsewhere; a URL the operator gave is the one in use
\* (_resolve_database_defaults, alembic/env.py).
MigrationsReachRuntime ==
    stage = "serving" =>
        /\ given.database.alembic_url = NoUrl =>
            derived.alembic_database_url.at = derived.database_url.at
        /\ given.database.url # NoUrl => derived.database_url = given.database.url
================================================================================
