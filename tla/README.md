# fastapi-chassis: a verification project

TLA+ models of the parts of fastapi-chassis that keep state across `await`s,
processes, crashes and restarts; TLC configurations that check them on small
instances; and TLAPS proofs of the results that matter most, for every value of
the constants. Paths are relative to the repository; `PROJECT.json` maps every
definition to the lines it translates.

## 1. The system

One process is a FastAPI application on one asyncio event loop, behind uvicorn.
Its code runs atomically between two suspension points, so a step of a model
goes from one suspension point to the next. Several workers or replicas share
nothing but Redis, the database and the identity provider.

| Component | Code | State | Operations | Talks to |
| --- | --- | --- | --- | --- |
| JWKS cache | `src/app/auth/service.py` | key set, load time, stale flag, asyncio lock and its queue | authenticate, readiness check, warm-up, refresh (forced or not) | identity provider over HTTP; lifespan; every request with a token |
| Keys, claims, authorization | `auth/service.py`, `auth/dependencies.py` | none | decode, normalise claims, require scopes or roles | routes |
| Rate limiter, in process | `middleware/rate_limit.py` | a counter per client and window | hit, prune, headers | every request that is not exempt |
| Rate limiter, Redis | same file | counters with a time to live in Redis | INCR, then EXPIRE | other workers, through Redis |
| Client keys and proxies | same file, `utils/proxy.py` | none | resolve the client of a request | the limiter |
| Cache, in process | `cache/store.py` | values with expiry times | get, exists, set, delete, clear, close | `routes/api.py` |
| Cache, Redis | same file | keys under a prefix in Redis | the same, one command each | other workers |
| Middleware stack | `app_builder.py`, `middleware/*.py` | per request: flags of the timeout, bytes received, the log record, the messages in flight | pass, refuse, annotate, cut off | the application inside, uvicorn outside |
| Lifespan and readiness | `lifespan.py`, `readiness/registry.py`, `*/health.py` | engine, HTTP client, auth service, cache store; the registered checks | start, serve, shut down, probe | all of the above |
| Database | `db/*.py`, `alembic/` | SQLAlchemy's pool | engine, session per request, ping | routes, readiness |
| Settings | `settings.py` | the settings, resolved once | derive defaults, validate | everything |
| Application builder, routes | `app_builder.py`, `__init__.py`, `routes/*.py` | the routes, in their order | register routes, answer | all of the above |
| Errors, logging, tracing, metrics | `errors/`, `log_config/`, `logging_setup.py`, `observability/` | context variables, two once-only flags | format, record | requests |
| Image deployment | `ops/docker-deploy-image.sh` | two container names on a Docker host | replace, wait, verify, roll back | Docker |
| Compose deployment | `ops/docker-deploy-compose.sh` | an image tag, a Compose service | the same | Docker |
| Entry point, probe, chart, developer scripts | `ops/`, `chart/` | none of their own | | |

What is hard here, and what correctness means for each:

- **JWKS cache.** Tasks interleave at the lock and at the HTTP exchange, are
  cancelled there by the request timeout, and read an answer that may be older
  than a rotation. A revoked key must stop working within a bound; a key that
  was rotated in must be found; readiness must report what the cache is good
  for; nobody may be left waiting for the lock.
- **Rate limiter.** The quota must hold at the boundary of a window; the
  dictionary must not grow with the clients of the past. With Redis, INCR and
  EXPIRE are two commands between which other workers run, replies get lost and
  workers die: the quota must hold over all workers, nobody may be refused
  without the quota being used up, and counters must not stay for ever.
- **Cache.** Expired entries stay in the dictionary and count against its size:
  they must neither be served nor cost a live entry its place.
- **Middleware stack.** The order decides what is logged and annotated. The
  timeout can strike before the response, in the middle of it, or inside a send
  that waits for a slow client. Each request must be logged once and truthfully
  and get a complete response or a good reason.
- **Lifespan.** Startup goes on degraded or stops; shutdown must close what was
  opened, whatever fails.
- **Settings, keys and principals.** Issuer, audience and key are compared only if
  they are configured, so what the validators admit in one module decides what the
  authentication checks in another. Two libraries and two lists of trusted proxies
  read the same forwarded headers, which clients write too. Redis URLs, database URLs
  and paths are derived from fields that operators may also set by hand.
- **Cached time.** Requests that miss together overwrite each other, one that timed
  out may still store, and a clear flushes a Redis database that others may share.
- **Deployment.** A script may die between any two commands and be run again;
  two containers must never run on the same data directory, and the last one
  that works must not be lost. With Compose, the rollback tag of a run that was cut
  short is still there when the next run goes back to "the previous image".

`PROJECT.json` lists each of these hazards at its line, with the properties that
would catch it.

## 2. The modules

| Module | What it is |
| --- | --- |
| `KeyTrust` | abstract: a service trusts one key set, which moves only forward, and favours a client only by it |
| `JwksCache` | the JWKS side of `JWTAuthService`, with lock, queue, HTTP exchanges, cancellation and the warm-up |
| `WindowQuota` | abstract: a fixed-window limiter that admits or refuses |
| `MemoryRateLimit` | `MemoryRateLimitStore` and the middleware's use of it |
| `RedisRateLimit` | `RedisRateLimitStore`: INCR, EXPIRE, lost replies, retries, failures, delay without bound |
| `CacheContract` | abstract: a bounded cache whose values live exactly as long as they were to |
| `MemoryCache` | `MemoryCacheStore`: a dictionary pruned by lookups and evictions |
| `RequestPipeline` | one request through the whole middleware stack, with the server and the timer |
| `Lifespan` | one process from start to stop, with its readiness probes |
| `Settings` | the fields the environment may set, and the resolvers and validators in their order |
| `ClientKey` | under which key the limiter counts a request, over forwarded headers |
| `Principal` | from a bearer token to a verdict |
| `Service` | the composition: settings, what `create_app` builds of them, and what requests then get |
| `ImageDeploy` | the image deployment script on one Docker host, run again and again, killed anywhere |
| `ComposeDeploy` | the Compose deployment script on one host, the same way |
| `*Proofs` | theorems about the module of that name; `ProcessProofs` about `Lifespan` and `RequestPipeline` |
| `MC*` | constants for TLC (`MC*.tla`) and its configurations (`MC*.cfg`) |

### JwksCache and the code

`jwksCache`, `jwksLoadedAt`, `usedStale` are `_jwks_cache`, `_jwks_loaded_at`,
`_jwks_last_fetch_used_stale_cache`; `lock` and `queue` are the asyncio lock,
which is fair; `pc` is where a task is suspended: waiting for the lock, or in
the HTTP exchange it makes while it holds it. `UseCache` and `NeedRefresh` are
the two ways through the check of `_fetch_jwks` before the lock, `FindFilled` and
`StartFetch` those after it; `Deliver`, `FallBack` and `GiveUp` end the exchange;
`CancelWaiting` and `CancelFetching` are the request timeout. A key set is the
number of its publication and `KeysOf` says which kids it has, so that "older"
means something. `jwt.decode` is abstracted to the set `Genuine`. `Respond` is the
moment the provider writes its response, which the task reads up to
`HttpTimeout` later: that gap is what makes the revocation bound `Window`
longer than the cache's own time to live. It is `auth_http_timeout_seconds` for a key
set that comes in one read; httpx applies its timeout to each operation and has none
for the exchange, so with a provider that drips its response `HttpTimeout` is that times
the number of reads (see `Tick`). The history variable `excuse` says
that the provider failed a task or did not publish its key at some moment of
its life.

### MemoryRateLimit and RedisRateLimit

`hit` of the in-process store does not suspend, so `Hit` is one step: decide,
count, prune. `Start` is the moment the application starts its response,
when the headers of the earlier decision are written. With Redis the hit reads
the clock (`Begin`), then INCR is executed and answered (`Replied`) or executed
and its reply lost (`ReplyLost`: the client library retries, or raises), then the
same for EXPIRE (`Expired`, `ExpiredLost`); `Fail` is a command that never
arrives and a worker that dies. Nothing bounds how long a hit is under way: `from_url`
is given no timeout (`rate_limit.py:79`), and the hit is awaited outside
`TimeoutMiddleware`. `charged`, `granted`, `prompt`, `latest` and `orphaned` are
history. Clients share no key, so one client is enough for what is checked.

### MemoryCache

No operation suspends; each is one step. The refinement maps the dictionary to
the entries a get would find, so expiry is a silent step of `Tick`.

### RequestPipeline

`Stack` is the order of the layers from the outside in, which is the reverse of
the order `setup_middleware` registers them in. A message sent by a layer passes
the wrappers of all layers around it in one step, since none of them suspends,
and then awaits the server. `started`, `completed`, `received`, `record` and
`errStarted` are the local variables of the layers. `wire` is what uvicorn has
written. The timer may fire whenever the application runs or its send is
blocked. `AppStatus` is any set of statuses from 200 to 599 but 413, which no route and no
error handler answers. Who refuses a request (host validation, preflight, allowed or not, the quota, the
declared length) is part of the request, `req`, drawn at its start.

### Lifespan

`stage` is the next statement of `LifespanManager.lifespan` that matters; `open` is
what `app.state` holds open. Every statement that may raise has an outcome in which
it does, and the ping of the cache at startup, which has no timeout, has a
dependency that hangs as an outcome that is no outcome. `at` is the check a probe
is in: the registry runs them in the order of registration, each to its end. The
server lets probes in only while serving, and ends them or cuts them before it ends
the lifespan; that is uvicorn's part (`Drained`).

### ImageDeploy

`main` and `spare` are the containers under the two names of the script, `pc` the
next docker command. A command followed by `|| true` may fail without
consequence, another one that fails ends the script there, as `set -e` does, whether
or not Docker has carried it out. `if docker container inspect` cannot tell a Docker
that does not answer from one that has no such container (`Overlook`); `blind` records
that this has happened in the run, and `tainted` that some run was blind, killed or
ended by `set -e`. `Kill` is the script's death between two commands; `Health` is what
Docker's health check, restart policy and the process itself do to a running container.

### ComposeDeploy

`app` is the container of the service, `tag` what `ROLLBACK_IMAGE_REF` names. A failing
command ends the script (`set -e`), except in the rollback: it is called as
`rollback_compose_deployment || true`, which switches `set -e` off inside, so it goes
on past a failing `compose up` and checks whichever container is there.

### Settings, ClientKey, Principal and Service

`given` are the fields as the environment and the defaults give them, `derived` those
that `_resolve_paths_and_defaults` fills in, `stage` the resolver or validator it calls
next; a validator that raises leads to `refused`. A string is abstracted to what the
code tells apart of it: a secret to its length, a URL to its scheme or to host and
database, a network to the addresses it covers, a claim to its JSON shape and its names.
Fields that only a library reads have no place in the record.

`Service` goes on where the settings are admitted: `Construct`, `SetupLogging`,
`SetupMetrics` and `SetupRoutes` are the steps of `create_app` that add routes or may
refuse. A request is sent (`Send`), relayed by proxies (`Relay`), counted (`Hit`) under the key of `ClientKey` or exempt
(`Admit`), and reaches the first route that matches. `Authorize` is the protected
endpoints with the verdict of `Principal`; a token is a model value with claims, and
whether the provider lists its key is free, since `JwksCache` is about that. The cached
time is one step with the in-process store, and with Redis a GET (`Get`), its reply
(`GetReplied`) and a SETEX (`SetEx`), between which other requests run, connections fail
(`Disconnect`) and the request times out (`Timeout`) while a command it has sent is still
on its way, for at most `Latency`. `hits` is the set of counted requests with the
database and the key they are counted under.

`X-Forwarded-For` may come in several lines, which a client may write as well as a proxy,
and the two readers differ: `headers.get` (`proxy.py:50`) returns the first line
(`FirstLine`), uvicorn the last (`LastLine`). What a proxy makes of the headers is its
`Habit`: it joins the lines and appends to them, as the nginx of
`docs/vm-deployment.md:375` does, adds a line of its own, as HAProxy's `forwardfor` does,
replaces them or keeps them; it writes the bare address it hears from or something else
(a port, `unknown`); and it writes `X-Real-IP` or leaves the client's. Nothing under `src`
chooses the proxy, so any habit is admitted, and `KeyIsReal` says which habits it takes
for the counted client to be real (`Vouched`). Behind a proxy that adds a line of its own
the limiter reads a line the client has written.

## 3. The runs

| Run | Instance | What it shows |
| --- | --- | --- |
| `jwks_safety` | 2 tasks, 2 kids, 3 key sets (rotation, then revocation), genuine, forged and keyless tokens, clock to 4 | a revoked key stops working within `Window`; the cache never goes back; a rejection of a genuine token has an excuse; readiness is honest; `KeyTrust` is implemented |
| `jwks_queue` | 3 tasks, cancellation of the holder and of waiters, required warm-up | the lock and its queue agree with the tasks; nothing is served before the warm-up; every task ends |
| `ratelimit_memory` | 2 clients, 2 requests, limit 2, two windows of 2 s | `WindowQuota` is implemented; one window is stored; the burst over a boundary is at most twice the limit; Retry-After is exact |
| `ratelimit_redis` | 1 client, 2 requests in flight, limit 2, clock to 4 in windows of 2 s, hits late without bound, 5 INCRs | the quota over all workers; with late hits one more limit per window in which they get through; refusals are earned; counters are mortal |
| `cache_memory` | 3 keys, 2 values, 2 entries, lifetimes 1 and 2, clock to 4 | `CacheContract` is implemented; the size is bounded |
| `pipeline` | every kind of request, a body limit of 2, two statuses | one truthful log record; annotated refusals; complete responses; bounded bodies; every request ends |
| `lifespan` | both settings, 3 dependencies that are up, down or hung, 1 probe at a time | no check uses what is closed; shutdown leaves nothing open unless a close raises; a readiness verdict stands for something that was so while the probe ran; probes and shutdown end, and startup unless the cache hangs for ever |
| `image_deploy` | 3 runs of the script, up to 2 killed | one container runs at a time; whole runs that overlook no container keep a working one and leave one running; every run ends |
| `compose_deploy` | 3 runs of the script, up to 2 killed | whole runs keep an image that passed its checks, running or tagged; a run that says deployed runs its image, one that says restored runs what is tagged, which is what it found if it saw a container |
| `service` | 532 environments in six groups, 11 tokens, chains of up to 3 proxies of 6 habits, headers in one line or two, 3 requests, a lifetime, a timeout and a latency of 1 tick, clock to 4 | the client counted is real behind proxies that vouch for it; no admitted settings let an undue token through; the cached time is as fresh as the delays allow; probes find their endpoints; migrations reach the database in use; a clear spares the counters |
| `pipeline_traced` | as `pipeline` | *violation*, see Findings |
| `image_deploy_killed` | 2 runs, 1 killed | *violation*, see Findings |

Why the bounds are enough to be interesting:

- Two tasks suffice for one to overtake another; three are needed for a waiter to
  be cancelled between two others. Three key sets are needed for a key to be
  published, accompanied and then revoked. With `Ttl = 1`, `MaxStale = 2` and
  `HttpTimeout = 1` the clock passes every boundary of the cache's two ages
  within four ticks.
- A limit of 2 tells the first hit (which creates a counter and must set its time
  to live), the last admitted one and the first refused one apart. Two windows of
  two seconds have a first and a last second each, so hits at the boundary occur
  on either side of it. Five INCRs are more than `2 * Limit`, so the Redis counter
  runs past the limit while a retry is in flight. At clock 4 a counter of the first
  window may begin its third life; the bound of `LateQuota` is reached with two.
- Three keys in two entries force an eviction; lifetimes of one and two ticks let
  an entry expire while another one lives.
- The body limit of 2 lets a body be below, at and above it, in one chunk or two.
- One probe is enough for the lifespan, since probes write nothing another reads;
  the theorems are for any number.
- The environments of `service` are six groups, by what their operator is concerned
  with (`app_name` says which), for the settings of the groups meet only where the
  groups do: every combination of algorithms, key material and claim requirements;
  of database back ends and URLs; of documentation pages, metrics and colliding paths;
  of both lists of proxies and both orders of the headers, with proxies of which one is
  the documented nginx and each of the others lacks one thing `Vouched` asks for, so that
  `KeyIsReal` fails if any of its conditions is dropped; the two caches; and the
  limiter's and the cache's Redis databases, shared or not. Three requests are needed for
  a third to read what a second stored after the first had timed out; two for the limit
  of 1 that refuses a probe if the exemption is missed. All requests fall into one
  rate-limit window, since windows are the subject of other modules, and the clock only
  ticks where a cache reads it.
- Three runs of a deployment script let a rollback be followed by a success and
  by another rollback; two kills let the clean-up after a kill be killed.

The bounds on time and on counts (`MaxTime`, `MaxCount`, `MaxHits`, `MaxRuns`,
`MaxKills`, `LastVersion`) are guards of the models; the theorems hold for each
value of them.

`CHECK_DEADLOCK FALSE` is given where the system may stop: a startup that the
warm-up aborted, a host on which nobody deploys any more, and in `service` a refused
configuration (the process exits) and clients that have sent their last request.

### Fairness

- `JwksCache`: the event loop runs a task that can run, and every HTTP exchange
  ends, because `httpx.AsyncClient` is built with a timeout
  (`lifespan.py:62`). Cancellation and new requests are not fair.
- `RequestPipeline`: the timer fires in the end (`asyncio.wait_for`), a message
  that awaits the server is taken or its client is given up, and a refusing
  layer acts. The application is *not* assumed to do anything.
- `Lifespan`: the event loop runs what can run; the database and cache checks have
  a timeout (`db/health.py:31`, `cache/health.py:27`) and the HTTP client has one. The
  ping of the startup is answered if the cache stops hanging for good; dependencies
  themselves are not fair.
- `ImageDeploy`: a docker command returns, and the wait for readiness has a
  deadline (line 50). Neither the health of containers nor an answered inspect is fair,
  so the claim that runs end does not depend on them.

## 4. The proofs

Each `*Proofs` module proves that the inductive invariant of its component (`IInv`,
`LifespanInv`, `PipelineInv`) always holds, and derives the others from it. Where a
property needs more than that, a second invariant is proved on top (`ServedInv`,
`LateInv`, and `ProbeInv` of `Service`). The assumptions are those of the
`ASSUME`s of the component's module (positive limits and windows, finite sets,
`None`-like values that are not values); TLC evaluates them in every run.

- **JwksCacheProofs.** `IInv` needs `LockDiscipline` first: that only the holder of
  the lock is in an exchange is what lets `AnswerInv` bound the age of *the*
  response under way, and say that it is no older than the cache. From it follow
  `CacheInv` (the cached key set was current less than `HttpTimeout` before it was
  loaded), the revocation bound, that the cache never regresses, that every
  rejection of a genuine token has an excuse, that the probe is honest, and that
  `JwksCache` implements `KeyTrust`.
- **MemoryRateLimitProofs.** The invariant says that all stored counters are of one
  window and none of a future one; with it every hit is a hit of `WindowQuota`.
  `RetryIsHonest` is arithmetic on `\div`. `BurstBound` speaks of any span of a window's
  length in the history `served`, which no step reads, so nothing about it is inductive by
  itself; `ServedInv` is proved on top: `Counted`, that what was served in the stored window is no
  more than its counter and nothing was served later, and `Spaced`, that of `Limit + 1`
  hits in a row the last is in a later window than the first. Two applications of
  `Spaced` put `2 * Limit + 1` hits two windows apart, which is more than a window's
  length. So no sum over a history is needed.
- **RedisRateLimitProofs.** The key is that a counter is never dropped before its
  window is over, because EXPIRE gives it a whole window to live from a moment that
  is no earlier than the window's start (`CounterInv`): so what was granted promptly in
  a window is at most what its counter shows. With hits that arrive late a counter can be
  dropped and begun anew, and `LateQuota` needs to know how often. `LateInv` follows the
  lives of a counter (`Lives`): a life that began in window `s` grants at most what the
  counter shows, and lasts until `s` is over, for its EXPIRE was sent after it began and
  gives it a whole window; so the next life begins in a later window. A life that grants
  something is still alive, or begins, when `latest` is set. Hence one limit per window
  from the counter's own to `latest`, however late a hit is.
  `RefusalIsEarned` rests on a counter never showing more
  than was charged to it.
- **MemoryCacheProofs.** If the dictionary is full and every entry is alive, the
  victim is one of those with least to live; if some entry has expired, so has
  the victim, and nothing alive is lost. With the finite-set lemma that a subset of the
  same size is the whole set this gives the refinement.
- **ProcessProofs**, on `Lifespan`. `OpenInv` lists what is open at each stage, `ProbeInv`
  that probes run only while serving or draining and that a check passed or failed for a
  reason seen during the probe. The steps of the lifespan share one lemma, which needs that
  a stage without probes is only entered when there are none.
- **ProcessProofs**, on `RequestPipeline`. None of its properties is inductive: at the
  end of a request they relate the log to the response, which were written at different
  moments by different layers. `PipelineInv` says at every suspension point on the way
  what the others will find there: that nothing was sent yet (`IdleInv`, `AppAtWork`); that
  the application is at work or in a send and what it has begun is noted (`RunningInv`,
  `AppSendingInv`); that another layer answers in its place, or closes its response, and
  the record tells whose status the client sees (`RefusingInv`); that the outermost layer
  answers an exception that the logging layer has already logged as a 500 (`ErrorsInv`);
  and that what the server wrote carries the headers of the layers around its sender
  (`WireInv`). A message cut off by the timeout, or refused by the server, is where these
  agreements end, hence `garbled`. The lemmas `WrapsIs`, `HeadersAre` and `AnswererIs`
  compute the order of the stack once; ending a request (`EndStep`) and starting an answer
  (`RefusalStep`, `ErrorsStep`) are lemmas that all steps share.
- **ImageDeployProofs.** `Places` says which container has which name at every
  command and that the rollback container never runs; `Keeping` that the one to
  go back to is where the rollback will look for it, or, in a run that overlooked it,
  still where it was found until the rollback removes what has the name.
- **ComposeDeployProofs.** `Places` says that from its second command on a run that found a
  container has tagged it, so a tag of an earlier run cannot be what it goes back to;
  `Keeping` that in the middle of a whole run it is the image found at first that has
  passed the checks, whatever becomes of the container. `Excused` and `Onwards` carry
  `Keeping` over all commands that decide nothing.
- **ServiceProofs.** For every set of environments and offers, any number of requests,
  proxies and headers, and every timeout, latency and lifetime. The invariant is kept with
  `given \in Environment` (`Kept`) and has four parts: `Staged`, what the resolvers and
  validators have established by the stage they have reached; `Traced`, that a request
  carries every address its proxies have vouched for where it is read, with nothing but the
  operator's proxies behind it; `Counted`,
  that a counter holds requests that have arrived, under their own key; `Timed`, that
  entries and replies are as old as the store and the delays allow. `FirstVouches`
  and `NextVouches` carry the vouching over one proxy of each habit. `KeyIsReal` follows by
  `StrangerCounts`: uvicorn's walk over the last line ends at the last stranger on the way
  or, where the limiter looks further, at one of the operator's proxies (`VouchedScope`),
  and the limiter's walk over the first line ends at that stranger. `TokenDuly` combines `Staged` with the definition of `Verdict`.

  `ProbesAnswer` is `ProbeInv` on top: what a request is answered follows from the
  first route with its path (`Routed`), and the route table is cut into documentation,
  metrics and API (`DocRoutes`, `MetricRoutes`, `ApiRoutes`), so that being first is a
  matter of paths that the validators have told apart by the time the application is built
  (`Staged`).

Only model-checked: liveness (`EveryTaskEnds`, `RequestsEnd`, `LifecycleEnds`, `RunsEnd`),
which needs `ENABLED` and fairness and is out of the prover's reach. Every other property
of a passing run is a theorem for all values of the constants.

## 5. Findings

1. **A response without tracing headers** (`pipeline_traced`). `docs/api-usage.md:264`
   says every response has them; those written outside `RequestIDMiddleware` (400 of
   host validation, preflights, the 500 of an unhandled exception) do not.
2. **A deployment that deletes the last working container**
   (`image_deploy_killed`). A run that died after it had renamed the old container
   is followed by one whose first command removes the rollback container.

Divergences between code and documentation met while modelling, for which no run was
made since each shows in a line or two:

- `except TimeoutError` in `middleware/timeout.py:67` also takes a `TimeoutError` the
  application raised, and the body (`timeout.py:85`) then says that the request exceeded
  its limit. `AppTimeout` of `RequestPipeline` is that step.
- `README.md:506` has `APP_DOCS_ENABLED` expose Swagger UI; without `openapi_enabled`
  (`settings.py:54-57`) FastAPI serves no documentation at all (`Construct`).
- "Explicit configuration always wins" (`settings.py:651-652`) does not hold for a policy
  that is set explicitly to the strict default while the documentation is on
  (`ResolveCspForDocs` cannot tell the two apart).
- `_validate_health_paths` compares the two probe paths with each other only: one at `/`,
  or at a path registered earlier, is shadowed. `ProbesAnswer` says which.
- ADR 0004, line 33, has a chain of trusted proxies alone fall back to the direct peer;
  the code tries `X-Real-IP` first (`ForwardedClientIp`).
- The docstring of `get_forwarded_client_ip` (`proxy.py:43-45`) says that the walk from the
  right "matches append-style proxy chains". A proxy that appends by adding a line of its
  own, which HTTP takes for the same list, is not matched: only the first line is read
  (`FirstLine`).
- `docs/architecture.md:99-124` draws the middlewares in another order than
  `app_builder.py:251-331` registers them in (`Stack`).
- With several workers, `docker-entrypoint.sh:14-18` refuses a Redis limiter whose URL the
  settings would have derived (`ResolveRateLimitStorageDefaults`).
- "Rollback restored the previous compose deployment" (`docker-deploy-compose.sh:159`) is
  also printed when the rollback's `compose up` failed and it is the new container that
  passes the checks meanwhile; hence `before` or `run` in `EndsSettled`. It is printed,
  too, when `compose ps` had failed or listed nothing (line 163), so that nothing was
  tagged, and an earlier run had left its tag: what is then restored is that run's image,
  hence `before # Nothing` in `EndsSettled`. And a first
  `compose up`, `docker exec` or `compose logs` that fails ends that script without a
  rollback, which is why `KeptByWholeRuns` is about whole runs.

## 6. Not modelled

- *Database engine and sessions, migrations, error bodies, logging, tracing, chart and developer
  scripts*: no state machine of this repository, or one of a library's (see the notes in
  `PROJECT.json`). Their settings are in `Settings`, the statuses in `RequestPipeline` and
  `Service`.
- *Cryptography and JSON*: who signed a token is one of its fields.
- *`delete`, `exists`, `ping` and `close` of the Redis cache*: single commands that no
  handler calls; the probe and the shutdown are in `Lifespan`.
- *A clock that is set back*: `time.time()` is taken to be monotone.
- *Several requests in one `RequestPipeline`*: the layers share no state between
  requests except the limiter, which has models of its own.
- *Redis losing data*: a restarted Redis forgets counters, which gives quotas anew.

## 7. Plan

Done, in the order of what a running service depends on most: 1. `KeyTrust`,
`JwksCache`; 2. `WindowQuota`, `MemoryRateLimit`, `RedisRateLimit`; 3.
`RequestPipeline`; 4. `CacheContract`, `MemoryCache`; 5. `ImageDeploy`; 6. `Lifespan`;
7. `Settings`, `ClientKey`, `Principal`, `Service`; 8. `ComposeDeploy`; with the proofs
of all of them.

## 8. Running it

    tlc -config MCJwksCache.cfg MCJwksCache
    tlc -config MCRequestPipeline.cfg RequestPipeline
    tlc -config MCService.cfg MCService
    tlapm JwksCacheProofs.tla
    tlapm ProcessProofs.tla

`PROJECT.json` names the module and the configuration of every run.
