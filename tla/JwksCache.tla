------------------------------- MODULE JwksCache -------------------------------
(***************************************************************************)
(* The JWKS side of JWTAuthService (src/src/app/auth/service.py): a cache  *)
(* of the identity provider's signing keys, filled under an asyncio lock,  *)
(* shared by every request that carries a bearer token, by the readiness   *)
(* probe and by the warm-up of the application's lifespan.                 *)
(*                                                                         *)
(* A step of a task runs from one suspension point (the lock, the HTTP     *)
(* exchange) to the next, as the event loop schedules it.  The provider's  *)
(* key sets are numbered 1, 2, ... in the order it publishes them; 0 is    *)
(* Python's None.  Time is a counter that stands for time.monotonic().     *)
(***************************************************************************)
EXTENDS Integers, Sequences

CONSTANTS
    Task,           \* the tasks of the event loop that use the service
    NoTask,         \* the lock is not held
    Kid,            \* key identifiers
    NoKid,          \* the header of a token that names no key
    Token,          \* the bearer tokens clients send
    KidOf,          \* the kid in the header of each token
    Genuine,        \* the tokens whose signature and claims jwt.decode passes
    Probe,          \* what a readiness check asks for, instead of a token
    Boot,           \* what the warm-up asks for
    LastVersion,    \* how many key sets the provider ever publishes
    KeysOf,         \* the kids of each published key set
    Ttl,            \* auth_jwks_cache_ttl_seconds
    MaxStale,       \* auth_jwks_max_stale_seconds
    HttpTimeout,    \* the longest a response is under way (see Tick)
    RequireWarmup,  \* auth_require_warmup
    MaxTime         \* bound on the clock

None == 0
Version == 1..LastVersion

ASSUME TaskAssumption ==
    /\ NoTask \notin Task
    /\ Probe \notin Token
    /\ Boot \notin Token
    /\ Probe # Boot

ASSUME KeyAssumption ==
    /\ NoKid \notin Kid
    /\ KidOf \in [Token -> Kid \cup {NoKid}]
    /\ Genuine \subseteq Token
    /\ LastVersion \in Nat \ {0}
    /\ KeysOf \in [Version -> SUBSET Kid]

ASSUME TimeAssumption ==
    /\ Ttl \in Nat \ {0}
    /\ MaxStale \in Nat
    /\ HttpTimeout \in Nat \ {0}
    /\ MaxTime \in Nat
    /\ RequireWarmup \in BOOLEAN

VARIABLES
    phase,         \* the lifespan: starting, warming, serving or aborted
    clock,
    idp,           \* the key set the provider publishes now
    retiredAt,     \* when each earlier key set was replaced
    jwksCache,     \* _jwks_cache
    jwksLoadedAt,  \* _jwks_loaded_at
    usedStale,     \* _jwks_last_fetch_used_stale_cache
    lock,          \* _jwks_lock: the task inside, and those waiting in order
    queue,
    pc,            \* where each task is suspended, or the verdict it ended with
    want,          \* the token, Probe or Boot each task works on
    force,         \* the force_refresh argument of the call it is inside
    answer,        \* the key set in the HTTP response under way, if any
    answeredAt,    \* when the provider wrote that response
    excuse         \* history: the provider failed this task, or did not
                   \* publish its kid at some moment of the task's life

provider == <<idp, retiredAt>>
keyCache == <<jwksCache, jwksLoadedAt, usedStale>>
exchange == <<answer, answeredAt>>
vars == <<phase, clock, provider, keyCache, lock, queue, pc, want, force,
          exchange, excuse>>

Ended == {"accepted", "rejected", "cancelled", "ready", "degraded", "unready"}

----------------------------------------------------------------------------

\* _jwks_cache is set and _jwks_cache_expired() is false.
Fresh ==
    /\ jwksCache # None
    /\ clock - jwksLoadedAt < Ttl

\* A bug: the age of a stale cache is not looked at.
StaleAtAnyAge ==
    /\ jwksCache # None
    /\ MaxStale > 0

\* The condition under which a failed refresh falls back on the cache.
StaleUsable ==
    /\ jwksCache # None
    /\ MaxStale > 0
    /\ clock - jwksLoadedAt <= MaxStale

\* The kid of w is missing from the key set v.
Unlisted(w, v) == w \in Token /\ KidOf[w] \notin KeysOf[v]

\* A bug: refreshes are not serialised.
AcquireNothing(t, holder, q) ==
    /\ lock' = t
    /\ queue' = q
    /\ pc' = [pc EXCEPT ![t] = "fetching"]

\* asyncio.Lock.acquire by t that finds the lock held by holder and the tasks
\* of q waiting: t gets it only when it is free and nobody waits.
AcquireLock(t, holder, q) ==
    IF holder = NoTask /\ q = <<>>
    THEN /\ lock' = t
         /\ queue' = q
         /\ pc' = [pc EXCEPT ![t] = "fetching"]
    ELSE /\ lock' = holder
         /\ queue' = Append(q, t)
         /\ pc' = [pc EXCEPT ![t] = "waiting"]

\* What a task that asks for w ends with once _fetch_jwks returned key set v and
\* left its mark in _jwks_last_fetch_used_stale_cache.
Verdict(w, v) ==
    IF w \in Token
    THEN IF w \in Genuine /\ ~Unlisted(w, v) THEN "accepted" ELSE "rejected"
    ELSE IF usedStale' THEN "degraded" ELSE "ready"

\* A bug: no refresh on a kid miss.
ContinueWithoutRetry(t, w, f, v, holder, q) ==
    /\ force' = [force EXCEPT ![t] = FALSE]
    /\ pc' = [pc EXCEPT ![t] = Verdict(w, v)]
    /\ lock' = holder
    /\ queue' = q

\* _fetch_jwks(f) returned key set v to t, which leaves the lock to holder and
\* the queue q.  A kid miss after an unforced fetch forces one refresh; anything else
\* ends the task.
Continue(t, w, f, v, holder, q) ==
    IF ~f /\ Unlisted(w, v)
    THEN /\ force' = [force EXCEPT ![t] = TRUE]
         /\ AcquireLock(t, holder, q)
    ELSE /\ force' = [force EXCEPT ![t] = FALSE]
         /\ pc' = [pc EXCEPT ![t] = Verdict(w, v)]
         /\ lock' = holder
         /\ queue' = q

\* A bug: a failed refresh does not release the lock.
RaiseHolding(t) ==
    /\ force' = [force EXCEPT ![t] = FALSE]
    /\ pc' = [pc EXCEPT ![t] = IF want[t] \in Token THEN "rejected" ELSE "unready"]
    /\ UNCHANGED <<lock, queue>>

\* _fetch_jwks(f) raised in t, which leaves the lock: 401, an unready probe,
\* or a failed warm-up.
Raise(t) ==
    /\ force' = [force EXCEPT ![t] = FALSE]
    /\ pc' = [pc EXCEPT ![t] = IF want[t] \in Token THEN "rejected" ELSE "unready"]
    /\ lock' = NoTask
    /\ UNCHANGED queue

\* A bug: a failed warm-up is only logged.
WarmedAnyway(t, ok) ==
    phase' = IF want[t] # Boot THEN phase ELSE "serving"

\* The lifespan awaits the warm-up and goes on to serve, or gives up when the
\* warm-up is required and failed.
Warmed(t, ok) ==
    phase' = IF want[t] # Boot THEN phase
             ELSE IF ok \/ ~RequireWarmup THEN "serving" ELSE "aborted"

----------------------------------------------------------------------------

Init ==
    /\ phase = "starting"
    /\ clock = 0
    /\ idp = 1
    /\ retiredAt = [v \in Version |-> 0]
    /\ jwksCache = None
    /\ jwksLoadedAt = 0
    /\ usedStale = FALSE
    /\ lock = NoTask
    /\ queue = <<>>
    /\ pc = [t \in Task |-> "idle"]
    /\ want = [t \in Task |-> Probe]
    /\ force = [t \in Task |-> FALSE]
    /\ answer = [t \in Task |-> None]
    /\ answeredAt = [t \in Task |-> 0]
    /\ excuse = [t \in Task |-> FALSE]

\* A response is read within HttpTimeout of the moment the provider wrote it, or
\* the exchange has failed.  httpx applies auth_http_timeout_seconds to each
\* operation (pool, connect, write, read), not to the exchange: it is this bound
\* for a key set that comes in one read.  For a provider that drips its response
\* the bound is that times the number of reads.
Tick ==
    /\ clock < MaxTime
    /\ \A t \in Task : answer[t] # None => clock - answeredAt[t] < HttpTimeout
    /\ clock' = clock + 1
    /\ UNCHANGED <<phase, provider, keyCache, lock, queue, pc, want, force,
                   exchange, excuse>>

\* The provider publishes its next key set.
Rotate ==
    /\ idp < LastVersion
    /\ idp' = idp + 1
    /\ retiredAt' = [retiredAt EXCEPT ![idp] = clock]
    /\ excuse' = [t \in Task |-> excuse[t] \/ Unlisted(want[t], idp + 1)]
    /\ UNCHANGED <<phase, clock, keyCache, lock, queue, pc, want, force, exchange>>

\* warm_up, awaited by the lifespan before any request is served.
WarmUp(t) ==
    /\ phase = "starting"
    /\ pc[t] = "idle"
    /\ phase' = "warming"
    /\ want' = [want EXCEPT ![t] = Boot]
    /\ force' = [force EXCEPT ![t] = TRUE]
    /\ AcquireLock(t, lock, queue)
    /\ UNCHANGED <<clock, provider, keyCache, exchange, excuse>>

\* A request with token w, or a readiness check (w = Probe), arrives in t.
Arrive(t, w) ==
    /\ phase = "serving"
    /\ pc[t] = "idle"
    /\ want' = [want EXCEPT ![t] = w]
    /\ excuse' = [excuse EXCEPT ![t] = Unlisted(w, idp)]
    /\ UNCHANGED <<phase, clock, provider, jwksCache, jwksLoadedAt, exchange>>

\* A token without a kid is rejected before any key is looked up.
RejectUnkeyed(t, w) ==
    /\ w \in Token
    /\ KidOf[w] = NoKid
    /\ Arrive(t, w)
    /\ pc' = [pc EXCEPT ![t] = "rejected"]
    /\ UNCHANGED <<usedStale, lock, queue, force>>

Keyed(w) == w = Probe \/ (w \in Token /\ KidOf[w] # NoKid)

\* A bug: the fast path does not look at the age of the cache.
UseCacheOfAnyAge(t, w) ==
    /\ Keyed(w)
    /\ jwksCache # None
    /\ Arrive(t, w)
    /\ usedStale' = FALSE
    /\ Continue(t, w, FALSE, jwksCache, lock, queue)

\* The fast path of _fetch_jwks(False): an unexpired cache, no lock taken.
UseCache(t, w) ==
    /\ Keyed(w)
    /\ Fresh
    /\ Arrive(t, w)
    /\ usedStale' = FALSE
    /\ Continue(t, w, FALSE, jwksCache, lock, queue)

\* _fetch_jwks(False) without an unexpired cache goes for the lock.
NeedRefresh(t, w) ==
    /\ Keyed(w)
    /\ ~Fresh
    /\ Arrive(t, w)
    /\ force' = [force EXCEPT ![t] = FALSE]
    /\ AcquireLock(t, lock, queue)
    /\ UNCHANGED usedStale

\* The first waiter gets the free lock.  A task that waited for it may find
\* that the one before filled the cache; otherwise it asks the provider.
Granted(t) ==
    /\ lock = NoTask
    /\ queue # <<>>
    /\ t = Head(queue)
    /\ UNCHANGED <<phase, clock, provider, jwksCache, jwksLoadedAt, want,
                   exchange, excuse>>

FindFilled(t) ==
    /\ Granted(t)
    /\ ~force[t]
    /\ Fresh
    /\ usedStale' = FALSE
    /\ Continue(t, want[t], FALSE, jwksCache, NoTask, Tail(queue))

StartFetch(t) ==
    /\ Granted(t)
    /\ force[t] \/ ~Fresh
    /\ lock' = t
    /\ queue' = Tail(queue)
    /\ pc' = [pc EXCEPT ![t] = "fetching"]
    /\ UNCHANGED <<usedStale, force>>

\* The provider writes the response to t's request: the key set of the moment.
Respond(t) ==
    /\ pc[t] = "fetching"
    /\ answer[t] = None
    /\ answer' = [answer EXCEPT ![t] = idp]
    /\ answeredAt' = [answeredAt EXCEPT ![t] = clock]
    /\ UNCHANGED <<phase, clock, provider, keyCache, lock, queue, pc, want,
                   force, excuse>>

\* No exchange is under way for t any more.
EndExchange(t) ==
    /\ pc[t] = "fetching"
    /\ answer' = [answer EXCEPT ![t] = None]
    /\ answeredAt' = [answeredAt EXCEPT ![t] = 0]
    /\ UNCHANGED <<clock, provider, want>>

\* A bug: a successful refresh leaves the mark of an earlier failure.
DeliverMarked(t) ==
    /\ answer[t] # None
    /\ EndExchange(t)
    /\ jwksCache' = answer[t]
    /\ jwksLoadedAt' = clock
    /\ usedStale' = usedStale
    /\ Continue(t, want[t], force[t], answer[t], NoTask, queue)
    /\ Warmed(t, TRUE)
    /\ UNCHANGED excuse

\* The response arrives and is valid: it becomes the cache.
Deliver(t) ==
    /\ answer[t] # None
    /\ EndExchange(t)
    /\ jwksCache' = answer[t]
    /\ jwksLoadedAt' = clock
    /\ usedStale' = FALSE
    /\ Continue(t, want[t], force[t], answer[t], NoTask, queue)
    /\ Warmed(t, TRUE)
    /\ UNCHANGED excuse

\* A bug: falling back on the stale cache makes it young again.
FallBackRenewing(t) ==
    /\ EndExchange(t)
    /\ StaleUsable
    /\ usedStale' = TRUE
    /\ jwksLoadedAt' = clock
    /\ excuse' = [excuse EXCEPT ![t] = TRUE]
    /\ Continue(t, want[t], force[t], jwksCache, NoTask, queue)
    /\ Warmed(t, TRUE)
    /\ UNCHANGED jwksCache

\* The exchange fails (connection, timeout, status, payload) and the cache is
\* young enough to stand in for it.
FallBack(t) ==
    /\ EndExchange(t)
    /\ StaleUsable
    /\ usedStale' = TRUE
    /\ excuse' = [excuse EXCEPT ![t] = TRUE]
    /\ Continue(t, want[t], force[t], jwksCache, NoTask, queue)
    /\ Warmed(t, TRUE)
    /\ UNCHANGED <<jwksCache, jwksLoadedAt>>

\* The exchange fails and there is no such cache.
GiveUp(t) ==
    /\ EndExchange(t)
    /\ ~StaleUsable
    /\ excuse' = [excuse EXCEPT ![t] = TRUE]
    /\ Raise(t)
    /\ Warmed(t, FALSE)
    /\ UNCHANGED keyCache

\* The sequence q without its k-th element.
Without(q, k) == [i \in 1..(Len(q) - 1) |-> IF i < k THEN q[i] ELSE q[i + 1]]

\* TimeoutMiddleware cancels the request.  CancelledError is no Exception: no
\* handler of the service sees it, only the lock and its context manager.
Cancelled(t) ==
    /\ want[t] # Boot
    /\ pc' = [pc EXCEPT ![t] = "cancelled"]
    /\ force' = [force EXCEPT ![t] = FALSE]
    /\ UNCHANGED <<phase, clock, provider, keyCache, want, excuse>>

CancelWaiting(t) ==
    /\ Cancelled(t)
    /\ \E i \in 1..Len(queue) :
        /\ queue[i] = t
        /\ queue' = Without(queue, i)
    /\ UNCHANGED <<lock, exchange>>

CancelFetching(t) ==
    /\ pc[t] = "fetching"
    /\ Cancelled(t)
    /\ lock' = NoTask
    /\ answer' = [answer EXCEPT ![t] = None]
    /\ answeredAt' = [answeredAt EXCEPT ![t] = 0]
    /\ UNCHANGED queue

\* The verdict is out; the next request of t is a new one.
Leave(t) ==
    /\ pc[t] \in Ended
    /\ pc' = [pc EXCEPT ![t] = "idle"]
    /\ want' = [want EXCEPT ![t] = Probe]
    /\ excuse' = [excuse EXCEPT ![t] = FALSE]
    /\ UNCHANGED <<phase, clock, provider, keyCache, lock, queue, force, exchange>>

Next ==
    \/ Tick
    \/ Rotate
    \/ \E t \in Task :
        \/ WarmUp(t)
        \/ \E w \in Token \cup {Probe} :
            RejectUnkeyed(t, w) \/ UseCache(t, w) \/ NeedRefresh(t, w)
        \/ FindFilled(t)
        \/ StartFetch(t)
        \/ Respond(t)
        \/ Deliver(t)
        \/ FallBack(t)
        \/ GiveUp(t)
        \/ CancelWaiting(t)
        \/ CancelFetching(t)
        \/ Leave(t)

Spec == Init /\ [][Next]_vars

\* The event loop runs a task that can run, and httpx ends every exchange.
Fairness ==
    \A t \in Task :
        /\ WF_vars(FindFilled(t) \/ StartFetch(t))
        /\ WF_vars(Deliver(t) \/ FallBack(t) \/ GiveUp(t))

FairSpec == Spec /\ Fairness

----------------------------------------------------------------------------

TypeOK ==
    /\ phase \in {"starting", "warming", "serving", "aborted"}
    /\ clock \in Nat
    /\ idp \in Version
    /\ retiredAt \in [Version -> Nat]
    /\ jwksCache \in Version \cup {None}
    /\ jwksLoadedAt \in Nat
    /\ usedStale \in BOOLEAN
    /\ lock \in Task \cup {NoTask}
    /\ queue \in Seq(Task)
    /\ pc \in [Task -> Ended \cup {"idle", "waiting", "fetching"}]
    /\ want \in [Task -> Token \cup {Probe, Boot}]
    /\ force \in [Task -> BOOLEAN]
    /\ answer \in [Task -> Version \cup {None}]
    /\ answeredAt \in [Task -> Nat]
    /\ excuse \in [Task -> BOOLEAN]

\* The lock is held by exactly the task that is in an HTTP exchange, and its
\* queue holds exactly the tasks that wait, each once, whatever was cancelled
\* (service.py:150).
LockDiscipline ==
    /\ \A t \in Task : pc[t] = "fetching" <=> lock = t
    /\ \A t \in Task : pc[t] = "waiting" <=> \E i \in 1..Len(queue) : queue[i] = t
    /\ \A i, j \in 1..Len(queue) : queue[i] = queue[j] => i = j

\* A response under way is at most HttpTimeout old, and neither older than the
\* cache nor newer than what the provider publishes: since it was written its
\* key set was current.
AnswerInv ==
    \A t \in Task : answer[t] # None =>
        /\ pc[t] = "fetching"
        /\ jwksCache <= answer[t] /\ answer[t] <= idp
        /\ answeredAt[t] <= clock /\ clock <= answeredAt[t] + HttpTimeout
        /\ answer[t] < idp => answeredAt[t] <= retiredAt[answer[t]]

\* The cached key set was published less than HttpTimeout before it was loaded.
CacheInv ==
    jwksCache # None =>
        /\ jwksCache <= idp
        /\ jwksLoadedAt <= clock
        /\ jwksCache < idp => jwksLoadedAt <= retiredAt[jwksCache] + HttpTimeout

\* A key that is not published, or missing from the response a task is about
\* to read, was unpublished at some moment of that task's life.
ExcuseInv ==
    \A t \in Task :
        /\ Unlisted(want[t], idp) => excuse[t]
        /\ answer[t] # None /\ Unlisted(want[t], answer[t]) => excuse[t]

\* A readiness check never forces a refresh, and asks the provider only while
\* the cache is expired: nobody else can fill it meanwhile.
ProbeInv ==
    \A t \in Task :
        /\ want[t] = Probe \/ pc[t] \notin {"waiting", "fetching"} => ~force[t]
        /\ want[t] = Probe /\ pc[t] = "fetching" => ~Fresh

\* With auth_require_warmup no request is served before keys were loaded
\* (lifespan.py:67-81).
WarmBeforeTraffic ==
    RequireWarmup /\ phase = "serving" => jwksCache # None

\* The inductive invariant: each part needs the lock's.
IInv == TypeOK /\ LockDiscipline /\ AnswerInv /\ CacheInv /\ ExcuseInv
        /\ ProbeInv /\ WarmBeforeTraffic

\* The oldest key set a verdict may rest on: Ttl or MaxStale since it was
\* loaded, and the time its response took.
Window == HttpTimeout + (IF Ttl > MaxStale THEN Ttl ELSE MaxStale)

\* Key set v is published now, or was within the last Window.
Recent(v) == v = idp \/ (v < idp /\ clock - retiredAt[v] <= Window)

Ends(t, verdict) == pc[t] # verdict /\ pc'[t] = verdict

\* A token is accepted only when its kid is in a key set the provider published
\* within the last Window: a revoked key stops working by then, whatever
\* fails, is cancelled or is answered late (service.py:145-180).
RevokedKeysExpire ==
    [][\A t \in Task : Ends(t, "accepted") =>
        \E v \in 1..idp : Recent(v) /\ KidOf[want'[t]] \in KeysOf[v]]_vars

\* The cache never goes back to an earlier key set: a response written before
\* a rotation cannot overwrite one written after it (service.py:150-160).
CacheNeverRegresses == [][jwksCache' >= jwksCache]_vars

\* A genuine token with a kid is rejected only if the provider failed this
\* request, or did not publish the kid at some moment of its life: a key set
\* that was rotated in while the old one is cached is always found by the
\* forced refresh (service.py:126-135).
RejectionExcused ==
    [][\A t \in Task :
        /\ Ends(t, "rejected")
        /\ want'[t] \in Genuine
        /\ KidOf[want'[t]] # NoKid
        => excuse'[t]]_vars

\* Readiness tells the truth about the cache the probe leaves behind: "JWKS
\* available" only with an unexpired one, "Using stale" only with an expired one
\* that may still be used, and an error only when no token could be accepted
\* without the provider (service.py:89-99).
ProbeHonest ==
    [][\A t \in Task : want'[t] = Probe =>
        /\ Ends(t, "ready") => Fresh' /\ ~usedStale'
        /\ Ends(t, "degraded") => ~Fresh' /\ StaleUsable' /\ usedStale'
        /\ Ends(t, "unready") => ~Fresh' /\ ~StaleUsable']_vars

\* What a client of the service sees of a task.
Status == [t \in Task |-> IF pc[t] \in {"waiting", "fetching"} THEN "pending" ELSE pc[t]]

Trust == INSTANCE KeyTrust
         WITH trusted <- jwksCache, status <- Status, Lag <- HttpTimeout

\* The lock, the queue, the exchanges and the two ages of the cache implement
\* the promise of KeyTrust (service.py:117-183).
ImplementsKeyTrust == Trust!Spec

\* Every request and every probe is answered: no task waits for ever for the
\* lock, even when all before it are cancelled or fail.
EveryTaskEnds == \A t \in Task : pc[t] \in {"waiting", "fetching"} ~> pc[t] \in Ended
================================================================================
