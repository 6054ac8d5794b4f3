-------------------------------- MODULE Settings --------------------------------
(***************************************************************************)
(* Settings (src/src/app/settings.py): the fields the environment may set, *)
(* in groups, with their defaults, and the resolvers and validators that   *)
(* run over them, one after the other, before anything else of the         *)
(* application exists.  Each derives some fields or refuses the lot.       *)
(*                                                                         *)
(* A string is what the code tells apart of it: "" when it is not set, the *)
(* scheme of a URL, the length of a secret, the driver of a database URL   *)
(* and the database it leads to, the addresses a network covers.           *)
(***************************************************************************)
EXTENDS Naturals, Sequences

CONSTANTS
    Address,      \* IP addresses
    Environment   \* what operators set: records with the fields of Defaults

ASSUME EnvironmentAssumption ==
    \A e \in Environment :
        /\ e.cache.default_ttl_seconds \in Nat \ {0}
        /\ e.redis.host # ""
        /\ e.proxy.proxy_headers \in Seq(STRING)

NoUrl == [driver |-> "", at |-> ""]
NoRedis == [host |-> "", db |-> 0]

AppDefaults ==
    [app_name |-> "FastAPI Chassis", docs_enabled |-> FALSE, redoc_enabled |-> FALSE,
     openapi_enabled |-> FALSE]

DatabaseDefaults ==
    [backend |-> "sqlite", sqlite_path |-> "./data/app.db", postgres_name |-> "fastapi_chassis",
     postgres_password |-> "", url |-> NoUrl, alembic_url |-> NoUrl]

AuthDefaults ==
    [enabled |-> FALSE, jwt_issuer |-> "", jwt_audience |-> "", jwt_algorithms |-> {"HS256"},
     jwt_secret |-> 0, jwt_public_key |-> "", jwks_url |-> "",
     require_exp |-> TRUE, require_issuer |-> TRUE, require_audience |-> TRUE]

CorsDefaults ==
    [allowed_origins |-> {"http://localhost:3000"}, allow_credentials |-> FALSE]

SecurityDefaults ==
    [content_security_policy |-> "default-src 'none'",
     trust_proxy_proto_header |-> FALSE, trusted_proxies |-> {}]

PathDefaults ==
    [health_check_path |-> "/healthcheck", readiness_check_path |-> "/ready",
     info_endpoint_enabled |-> FALSE, endpoints_listing_enabled |-> FALSE]

RateLimitDefaults ==
    [enabled |-> FALSE, requests |-> 100, key_strategy |-> "ip",
     storage_url |-> NoRedis, storage_backend |-> "memory"]

ProxyDefaults ==
    [trust_proxy_headers |-> FALSE, proxy_headers |-> <<"x-forwarded-for", "x-real-ip">>,
     trusted_proxies |-> {}]

RedisDefaults == [host |-> "redis", db |-> 0]

CacheDefaults ==
    [enabled |-> FALSE, backend |-> "memory", default_ttl_seconds |-> 300,
     redis_db |-> 1, storage_url |-> NoRedis]

Defaults ==
    [app |-> AppDefaults, database |-> DatabaseDefaults, auth |-> AuthDefaults,
     cors |-> CorsDefaults, security |-> SecurityDefaults, paths |-> PathDefaults,
     rate_limit |-> RateLimitDefaults, proxy |-> ProxyDefaults, redis |-> RedisDefaults,
     cache |-> CacheDefaults, metrics_enabled |-> FALSE, otel_service_name |-> "",
     logging_config_path |-> "",
     forwarded_allow_ips |-> {}]  \* the last is uvicorn's own

VARIABLES
    given,    \* the settings as the environment and the defaults give them
    derived,  \* the fields the resolvers fill in
    stage     \* the resolver or validator to run next, or what came of it

settingsVars == <<given, derived, stage>>

----------------------------------------------------------------------------

Family ==
    [HS256 |-> "HS", RS256 |-> "RS", RS512 |-> "RS", ES256 |-> "ES", PS256 |-> "PS",
     EdDSA |-> "EdDSA"]

\* _derive_database_url; NoUrl where it raises.
DerivedDatabaseUrl(db) ==
    CASE db.backend = "sqlite" -> [driver |-> "sqlite+aiosqlite", at |-> db.sqlite_path]
      [] db.backend = "postgres" /\ db.postgres_password # "" ->
            [driver |-> "postgresql+asyncpg", at |-> db.postgres_name]
      [] OTHER -> NoUrl

\* A bug: the migrations' URL is derived from the backend's fields.
AlembicFromBackend(url) ==
    IF given.database.backend = "sqlite"
    THEN [driver |-> "sqlite", at |-> given.database.sqlite_path]
    ELSE [driver |-> "postgresql+psycopg", at |-> given.database.postgres_name]

\* _derive_alembic_database_url: the sync driver for the same database.
DerivedAlembicUrl(url) ==
    CASE url.driver = "sqlite+aiosqlite" -> [driver |-> "sqlite", at |-> url.at]
      [] url.driver = "postgresql+asyncpg" -> [driver |-> "postgresql+psycopg", at |-> url.at]
      [] OTHER -> NoUrl

DatabaseUrl(db) == IF db.url # NoUrl THEN db.url ELSE DerivedDatabaseUrl(db)
AlembicUrl(db) ==
    IF db.alembic_url # NoUrl THEN db.alembic_url ELSE DerivedAlembicUrl(DatabaseUrl(db))

\* _build_redis_url
RedisUrl(redis, db) == [host |-> redis.host, db |-> db]

ProxyListAccepted(trust, proxies) == (trust => proxies # {}) /\ proxies \subseteq Address

\* Where the limiter counts and where the cache is: the URL the operator gave,
\* or the one made of the Redis fields; NoRedis is the process's own memory.
RateLimitUrl(e) ==
    IF e.rate_limit.storage_url # NoRedis \/ e.rate_limit.storage_backend # "redis"
    THEN e.rate_limit.storage_url
    ELSE RedisUrl(e.redis, e.redis.db)

\* A bug: the cache's URL is built with the limiter's database index.
CacheUrlOfLimiter(e) ==
    IF e.cache.storage_url # NoRedis \/ e.cache.backend # "redis"
    THEN e.cache.storage_url
    ELSE RedisUrl(e.redis, e.redis.db)

CacheUrl(e) ==
    IF e.cache.storage_url # NoRedis \/ e.cache.backend # "redis"
    THEN e.cache.storage_url
    ELSE RedisUrl(e.redis, e.cache.redis_db)

----------------------------------------------------------------------------

SettingsInit ==
    /\ given \in Environment
    /\ derived = [logging_config_path |-> "", database_url |-> NoUrl,
                  alembic_database_url |-> NoUrl, otel_service_name |-> "",
                  rate_limit_storage_url |-> NoRedis, cache_storage_url |-> NoRedis,
                  content_security_policy |-> ""]
    /\ stage = "logging"

\* One call of _resolve_paths_and_defaults; a ValueError ends the process.
Call(name, next, ok) ==
    /\ stage = name
    /\ stage' = IF ok THEN next ELSE "refused"
    /\ UNCHANGED given

ResolveLoggingDefaults ==
    /\ Call("logging", "database", TRUE)
    /\ derived' = [derived EXCEPT !.logging_config_path =
                    IF given.logging_config_path = "" THEN "config.json"
                    ELSE given.logging_config_path]

ResolveDatabaseDefaults ==
    LET url == DatabaseUrl(given.database)
        sync == AlembicUrl(given.database)
    IN /\ Call("database", "otel", url # NoUrl /\ sync # NoUrl)
       /\ derived' = [derived EXCEPT !.database_url = url, !.alembic_database_url = sync]

ResolveOtelDefaults ==
    /\ Call("otel", "rate_limit", TRUE)
    /\ derived' = [derived EXCEPT !.otel_service_name =
                    IF given.otel_service_name = "" THEN given.app.app_name
                    ELSE given.otel_service_name]

ResolveRateLimitStorageDefaults ==
    /\ Call("rate_limit", "cache", TRUE)
    /\ derived' = [derived EXCEPT !.rate_limit_storage_url = RateLimitUrl(given)]

ResolveCacheStorageDefaults ==
    /\ Call("cache", "csp", TRUE)
    /\ derived' = [derived EXCEPT !.cache_storage_url = CacheUrl(given)]

\* The strict default makes way for a policy the documentation pages work under;
\* ReDoc's has fonts and workers besides.
ResolveCspForDocs ==
    /\ Call("csp", "auth", TRUE)
    /\ derived' = [derived EXCEPT !.content_security_policy =
            LET policy == given.security.content_security_policy
            IN CASE policy # SecurityDefaults.content_security_policy -> policy
                 [] given.app.redoc_enabled -> "redoc"
                 [] given.app.docs_enabled -> "docs"
                 [] OTHER -> policy]

\* _validate_auth_key_material
KeyMaterialAccepted(a, shared) ==
    /\ shared => a.jwt_secret >= 32 /\ a.jwt_public_key = "" /\ a.jwks_url = ""
    /\ ~shared => a.jwt_secret = 0 /\ (a.jwks_url # "" \/ a.jwt_public_key # "")

\* A bug: the claims are checked only when they are configured.
ClaimsOptional(a) == TRUE

\* _validate_auth_claim_requirements
ClaimRequirementsAccepted(a) ==
    /\ a.require_issuer => a.jwt_issuer # ""
    /\ a.require_audience => a.jwt_audience # ""

\* _validate_auth_settings, with _jwt_algorithm_family, which knows five families.
AuthAccepted(a) ==
    /\ a.jwks_url \in {"", "https"}
    /\ a.enabled =>
        /\ a.jwt_algorithms \subseteq DOMAIN Family
        /\ \E f \in {Family[alg] : alg \in a.jwt_algorithms} :
            /\ \A alg \in a.jwt_algorithms : Family[alg] = f
            /\ KeyMaterialAccepted(a, f = "HS")
        /\ ClaimRequirementsAccepted(a)

ValidateAuthSettings ==
    /\ Call("auth", "proxy", AuthAccepted(given.auth))
    /\ UNCHANGED derived

ValidateProxySettings ==
    /\ Call("proxy", "cors",
            /\ ProxyListAccepted(given.proxy.trust_proxy_headers, given.proxy.trusted_proxies)
            /\ ProxyListAccepted(given.security.trust_proxy_proto_header,
                                 given.security.trusted_proxies))
    /\ UNCHANGED derived

ValidateCorsCredentials ==
    /\ Call("cors", "paths",
            ~(given.cors.allow_credentials /\ "*" \in given.cors.allowed_origins))
    /\ UNCHANGED derived

\* A bug: the two paths are not compared.
PathsUnchecked(p) == TRUE

\* _validate_health_paths
PathsAccepted(p) == p.health_check_path # p.readiness_check_path

ValidateHealthPaths ==
    /\ Call("paths", "admitted", PathsAccepted(given.paths))
    /\ UNCHANGED derived

SettingsNext ==
    \/ ResolveLoggingDefaults
    \/ ResolveDatabaseDefaults
    \/ ResolveOtelDefaults
    \/ ResolveRateLimitStorageDefaults
    \/ ResolveCacheStorageDefaults
    \/ ResolveCspForDocs
    \/ ValidateAuthSettings
    \/ ValidateProxySettings
    \/ ValidateCorsCredentials
    \/ ValidateHealthPaths
================================================================================
