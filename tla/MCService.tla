-------------------------------- MODULE MCService --------------------------------
(***************************************************************************)
(* Services of six kinds of operators, each concerned with one thing (its  *)
(* app_name says which), and what their clients send.                      *)
(***************************************************************************)
EXTENDS Service

AuthEnvironment ==
    LET a == [AuthDefaults EXCEPT !.enabled = TRUE, !.jwt_issuer = "idp", !.jwt_audience = "api"]
        keys == {[a EXCEPT !.jwt_algorithms = algs, !.jwt_secret = n, !.jwt_public_key = k, !.jwks_url = u] :
                    algs \in {{}, {"HS256"}, {"RS256", "RS512"}, {"HS256", "ES256"}, {"EdDSA"}},
                    n \in {0, 31, 32}, k \in {"", "pem"}, u \in {"", "https", "http"}}
        claims == {[a EXCEPT !.jwt_secret = 32, !.jwt_issuer = i, !.jwt_audience = au,
                             !.require_exp = x, !.require_issuer = ri, !.require_audience = ra] :
                    i \in {"", "idp"}, au \in {"", "api"}, x, ri, ra \in BOOLEAN}
    IN {[Defaults EXCEPT !.app.app_name = "auth", !.auth = b] :
            b \in keys \cup claims \cup {[a EXCEPT !.enabled = FALSE, !.jwt_secret = 32]}}

DatabaseEnvironment ==
    {[Defaults EXCEPT !.app.app_name = "database", !.otel_service_name = "api", !.logging_config_path = l,
        !.database = [DatabaseDefaults EXCEPT !.backend = b, !.postgres_password = pw,
                                              !.url = u, !.alembic_url = v]] :
        l \in {"", "missing"}, b \in {"sqlite", "postgres", "custom"}, pw \in {"", "secret"},
        u \in {NoUrl, [driver |-> "sqlite+aiosqlite", at |-> "/srv/app.db"],
               [driver |-> "postgresql+asyncpg", at |-> "orders"],
               [driver |-> "mysql+aiomysql", at |-> "orders"]},
        v \in {NoUrl, [driver |-> "postgresql+psycopg", at |-> "primary"]}}

PathEnvironment ==
    {[Defaults EXCEPT !.app = [app_name |-> "paths", docs_enabled |-> d, redoc_enabled |-> rd,
                               openapi_enabled |-> o],
        !.metrics_enabled = n, !.rate_limit.enabled = TRUE, !.rate_limit.requests = 1,
        !.cors.allow_credentials = n, !.cors.allowed_origins = IF rd THEN {"*"} ELSE @,
        !.security.content_security_policy = IF o THEN @ ELSE "default-src 'self'",
        !.paths = [health_check_path |-> h, readiness_check_path |-> y,
                   info_endpoint_enabled |-> n, endpoints_listing_enabled |-> ~n]] :
        d, rd, o, n \in BOOLEAN,
        h \in {"/healthcheck", "/live", "/docs"}, y \in {"/ready", "/live", "/info", "/"}}

ProxyEnvironment ==
    {[Defaults EXCEPT !.app.app_name = "proxies", !.forwarded_allow_ips = f,
        !.security.trust_proxy_proto_header = t, !.security.trusted_proxies = p,
        !.rate_limit = [@ EXCEPT !.enabled = TRUE, !.key_strategy = s],
        !.proxy = [trust_proxy_headers |-> t, proxy_headers |-> n, trusted_proxies |-> p]] :
        f \in {{}, {"edge"}, {"edge", "inner"}}, t \in BOOLEAN,
        p \in {{}, {"edge"}, {"edge", "inner"}, {"cdn", "edge", "other", "plain", "relay"}, {"edge", "no network"}},
        s \in {"ip", "authorization"},
        n \in {<<"x-forwarded-for", "x-real-ip">>, <<"x-real-ip", "x-forwarded-for">>, <<"x-real-ip">>}}

\* Of the operators that count by token, those with one proxy are enough.
CountingEnvironment ==
    {e \in ProxyEnvironment :
        e.rate_limit.key_strategy = "authorization" => e.proxy.trusted_proxies = {"edge"}}

TimeCache == [CacheDefaults EXCEPT !.enabled = TRUE, !.default_ttl_seconds = 1]

CacheEnvironment ==
    {[Defaults EXCEPT !.app.app_name = "cache", !.cache = c] :
        c \in {TimeCache, [TimeCache EXCEPT !.backend = "redis"]}}

CounterEnvironment ==
    LET limiter == [RateLimitDefaults EXCEPT !.enabled = TRUE, !.requests = 2]
    IN {[Defaults EXCEPT !.app.app_name = "counters", !.rate_limit = l, !.cache = c] :
            l \in {limiter, [limiter EXCEPT !.storage_backend = "redis"],
                   [limiter EXCEPT !.storage_url = [host |-> "redis", db |-> 1]]},
            c \in {CacheDefaults, TimeCache, [TimeCache EXCEPT !.backend = "redis"],
                   [TimeCache EXCEPT !.backend = "redis", !.redis_db = 0]}}

MCEnvironment ==
    AuthEnvironment \cup DatabaseEnvironment \cup PathEnvironment \cup CountingEnvironment
    \cup CacheEnvironment \cup CounterEnvironment

MCAddress == {"client", "someone", "cdn", "edge", "inner", "other", "plain", "relay"}

\* edge is the nginx of docs/vm-deployment.md; the others differ from it, each
\* in its way, but for the two that never are proxies.
MCHabit ==
    LET edge == [forwarded |-> "joined", bare |-> TRUE, names |-> TRUE]
    IN [client |-> edge, someone |-> edge,
        relay |-> [edge EXCEPT !.forwarded = "kept"],
        other |-> [edge EXCEPT !.bare = FALSE],
        cdn |-> [edge EXCEPT !.forwarded = "replaced"],
        edge |-> edge,
        plain |-> [edge EXCEPT !.names = FALSE],
        inner |-> [edge EXCEPT !.forwarded = "added", !.names = FALSE]]

Text(names) == [shape |-> "text", names |-> names]
Unclaimed == [shape |-> "none", names |-> {}]
GoodClaims ==
    [alg |-> "HS256", signer |-> "secret", sub |-> TRUE, exp |-> "ahead", aud |-> {"api", "web"},
     iss |-> "idp", scope |-> Text({"reports:read"}), scp |-> Unclaimed, roles |-> Text({"admin"})]
MCClaims ==
    [good |-> GoodClaims,
     anonymous |-> [GoodClaims EXCEPT !.sub = FALSE],
     past |-> [GoodClaims EXCEPT !.exp = "past"],
     lasting |-> [GoodClaims EXCEPT !.exp = "none"],
     foreign |-> [GoodClaims EXCEPT !.aud = {"web"}, !.iss = "elsewhere"],
     bare |-> [GoodClaims EXCEPT !.aud = {}, !.scope = Unclaimed, !.scp = Text({"reports:read"})],
     json |-> [GoodClaims EXCEPT !.scope = [shape |-> "json", names |-> {"reports:read"}],
                                 !.roles = [shape |-> "json", names |-> {"admin"}]],
     confused |-> [GoodClaims EXCEPT !.signer = "public_key"],
     public |-> [GoodClaims EXCEPT !.alg = "RS256", !.signer = "public_key", !.roles = Text({"user"})],
     curve |-> [GoodClaims EXCEPT !.alg = "EdDSA", !.signer = "public_key"],
     provided |-> [GoodClaims EXCEPT !.alg = "RS512", !.signer = "provider"]]

Nobody == [scheme |-> "", token |-> ""]
Plain == [forwarded |-> <<>>, first |-> 0, last |-> 0, real_ip |-> "absent"]
Ask(path) == [path |-> path, client |-> "client", via |-> <<>>, headers |-> Plain, authorization |-> Nobody]

AuthOffers ==
    {[Ask(p) EXCEPT !.authorization = a] :
        p \in {"/api/v1/me", "/api/v1/reports", "/api/v1/admin"},
        a \in {Nobody, [scheme |-> "Basic", token |-> "good"]}
              \cup [scheme : {"Bearer"}, token : DOMAIN MCClaims]}

PathOffers ==
    {Ask(p) : p \in {"/", "/healthcheck", "/live", "/ready", "/info", "/endpoints", "/metrics", "/docs", "/redoc",
                     "/docs/oauth2-redirect", "/openapi.json", "/favicon.ico", "/nowhere"}}

ProxyOffers ==
    {[Ask("/") EXCEPT !.client = c, !.via = v, !.authorization = a,
                      !.headers = [f EXCEPT !.real_ip = i]] :
        c \in {"client", "inner"},
        v \in {<<>>, <<"edge">>, <<"cdn">>, <<"relay">>, <<"other">>, <<"cdn", "edge">>, <<"edge", "cdn">>,
               <<"plain">>, <<"inner">>, <<"inner", "edge">>, <<"cdn", "edge", "inner">>},
        f \in {Plain, [Plain EXCEPT !.forwarded = <<"edge", "garbled">>, !.first = 2],
               [Plain EXCEPT !.forwarded = <<"someone", "edge">>, !.first = 2],
               [Plain EXCEPT !.forwarded = <<"someone", "edge">>, !.first = 1, !.last = 1]},
        i \in {"absent", "someone", "edge", "garbled"},
        a \in {Nobody, [scheme |-> "bearer", token |-> "good"], [scheme |-> "Basic", token |-> "good"]}}

MCOffered(r, e) ==
    CASE e.app.app_name = "auth" -> IF r = "r1" THEN AuthOffers ELSE {}
      [] e.app.app_name = "database" -> {}
      [] e.app.app_name = "paths" ->
            CASE r = "r1" -> PathOffers
              [] r = "r2" -> {o \in PathOffers : o.path \in {"/live", "/ready"}}
              [] OTHER -> {}
      [] e.app.app_name = "proxies" -> IF r = "r1" THEN ProxyOffers ELSE {}
      [] e.app.app_name = "cache" -> {Ask("/api/v1/cached-time")}
      [] e.app.app_name = "counters" -> IF r = "r3" THEN {} ELSE {Ask("/api/v1/cached-time")}
================================================================================
