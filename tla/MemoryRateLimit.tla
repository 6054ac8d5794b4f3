---------------------------- MODULE MemoryRateLimit ----------------------------
(***************************************************************************)
(* RateLimitMiddleware over MemoryRateLimitStore                           *)
(* (src/src/app/middleware/rate_limit.py): one process, whose requests     *)
(* interleave at the awaits of the application behind the middleware.  The *)
(* hit itself awaits nothing.  A counter of 0 is a key that is not in the  *)
(* dictionary; the clock is int(time.time()), which is taken not to be set *)
(* back.                                                                   *)
(***************************************************************************)
EXTENDS Integers, Sequences

CONSTANTS
    Client,     \* the keys _build_rate_limit_key tells apart
    Task,       \* the requests in flight
    Limit,      \* rate_limit_requests
    Window,     \* rate_limit_window_seconds
    Undecided,  \* no decision yet
    MaxTime,    \* bound on the clock
    MaxHits     \* where the model stops counting, above Limit

ASSUME LimitAssumption ==
    /\ Limit \in Nat \ {0}
    /\ Window \in Nat \ {0}
    /\ MaxTime \in Nat
    /\ MaxHits \in Nat
    /\ MaxHits > Limit

VARIABLES
    clock,
    buckets,     \* _buckets: the count of each client in each window
    pc,          \* idle, handling (inside the application), refused, answered
    decision,    \* the RateLimitDecision of each request
    retryAfter,  \* the Retry-After header of the response it got
    served       \* history: when each request of a client was admitted

vars == <<clock, buckets, pc, decision, retryAfter, served>>

WindowOf(time) == time \div Window
Windows == 0..WindowOf(MaxTime)

Larger(m, n) == IF m > n THEN m ELSE n

\* A bug: the last request of the quota is refused.
DecideStrict(c, count, w) ==
    [client |-> c, allowed |-> count < Limit,
     remaining |-> Larger(Limit - count, 0), reset |-> (w + 1) * Window]

\* A bug: one request too many is admitted.
DecideLenient(c, count, w) ==
    [client |-> c, allowed |-> count <= Limit + 1,
     remaining |-> Larger(Limit - count, 0), reset |-> (w + 1) * Window]

\* A bug: the window is taken to start with this request.
DecideFromNow(c, count, w) ==
    [client |-> c, allowed |-> count <= Limit,
     remaining |-> Larger(Limit - count, 0), reset |-> clock + Window]

\* The decision that the count-th hit of client c in window w gets.
Decide(c, count, w) ==
    [client |-> c,
     allowed |-> count <= Limit,
     remaining |-> Larger(Limit - count, 0),
     reset |-> (w + 1) * Window]

\* _decision_headers, when the headers are written.
RetryAfter(d) == Larger(d.reset - clock, 0)

Init ==
    /\ clock = 0
    /\ buckets = [c \in Client |-> [w \in Windows |-> 0]]
    /\ pc = [t \in Task |-> "idle"]
    /\ decision = [t \in Task |-> Undecided]
    /\ retryAfter = [t \in Task |-> 0]
    /\ served = [c \in Client |-> <<>>]

Tick ==
    /\ clock < MaxTime
    /\ clock' = clock + 1
    /\ UNCHANGED <<buckets, pc, decision, retryAfter, served>>

\* A bug: only the buckets of the client itself are pruned.
PruneOwn(c, w) == [buckets EXCEPT ![c] = [v \in Windows |-> IF v < w THEN 0 ELSE @[v]]]

\* _prune_expired_buckets, on a hit of client c in window w.
Prune(c, w) ==
    [d \in Client |-> [v \in Windows |-> IF v < w THEN 0 ELSE buckets[d][v]]]

\* A request of client c: hit, then the application or a 429 written at once.
Hit(t, c) ==
    LET w == WindowOf(clock)
        count == IF buckets[c][w] < MaxHits THEN buckets[c][w] + 1 ELSE MaxHits
    IN /\ pc[t] = "idle"
       /\ buckets' = [Prune(c, w) EXCEPT ![c][w] = count]
       /\ decision' = [decision EXCEPT ![t] = Decide(c, count, w)]
       /\ IF decision'[t].allowed
          THEN /\ pc' = [pc EXCEPT ![t] = "handling"]
               /\ served' = [served EXCEPT ![c] = Append(@, clock)]
               /\ UNCHANGED retryAfter
          ELSE /\ pc' = [pc EXCEPT ![t] = "refused"]
               /\ retryAfter' = [retryAfter EXCEPT ![t] = RetryAfter(decision'[t])]
               /\ UNCHANGED served
       /\ UNCHANGED clock

\* The application starts its response; send_wrapper adds the headers of the
\* decision this request got, however many were decided since.
Start(t) ==
    /\ pc[t] = "handling"
    /\ pc' = [pc EXCEPT ![t] = "answered"]
    /\ retryAfter' = [retryAfter EXCEPT ![t] = RetryAfter(decision[t])]
    /\ UNCHANGED <<clock, buckets, decision, served>>

\* The request is over, also when the application raised and started nothing.
Leave(t) ==
    /\ pc[t] # "idle"
    /\ pc' = [pc EXCEPT ![t] = "idle"]
    /\ decision' = [decision EXCEPT ![t] = Undecided]
    /\ retryAfter' = [retryAfter EXCEPT ![t] = 0]
    /\ UNCHANGED <<clock, buckets, served>>

Next ==
    \/ Tick
    \/ \E t \in Task :
        \/ \E c \in Client : Hit(t, c)
        \/ Start(t)
        \/ Leave(t)

Spec == Init /\ [][Next]_vars

----------------------------------------------------------------------------

Decision == [client : Client, allowed : BOOLEAN, remaining : 0..Limit, reset : Nat]

TypeOK ==
    /\ clock \in 0..MaxTime
    /\ buckets \in [Client -> [Windows -> Nat]]
    /\ pc \in [Task -> {"idle", "handling", "refused", "answered"}]
    /\ decision \in [Task -> Decision \cup {Undecided}]
    /\ \A t \in Task :
        /\ pc[t] = "idle" => decision[t] = Undecided
        /\ pc[t] # "idle" => decision[t] \in Decision
    /\ retryAfter \in [Task -> Nat]
    /\ served \in [Client -> Seq(0..MaxTime)]

\* The store never holds counters of two windows, so its size is bounded by the
\* clients of one window (rate_limit.py:57-64).
OneWindowStored ==
    \A c, d \in Client, v, w \in Windows :
        buckets[c][v] > 0 /\ buckets[d][w] > 0 => v = w

\* No counter belongs to a window that has not begun.
NoFutureWindow ==
    \A c \in Client, w \in Windows : buckets[c][w] > 0 => w <= WindowOf(clock)

\* The inductive invariant.
IInv == TypeOK /\ OneWindowStored /\ NoFutureWindow

\* Around the boundary of two windows a client gets twice its limit and no more:
\* of any 2 * Limit + 1 requests admitted in a row the last is admitted Window
\* seconds after the first or later (rate_limit.py:43, 52).
BurstBound ==
    \A c \in Client : \A i, j \in DOMAIN served[c] :
        j = i + 2 * Limit => served[c][j] >= served[c][i] + Window

\* Nothing was admitted later than now, and the counter of the current window
\* covers what this window admitted, which are the last entries, Limit at most.
Counted ==
    \A c \in Client : \A i \in DOMAIN served[c] :
        /\ served[c][i] <= clock
        /\ WindowOf(served[c][i]) = WindowOf(clock) =>
              /\ Len(served[c]) - i < buckets[c][WindowOf(clock)]
              /\ Len(served[c]) - i < Limit

\* No window admits Limit + 1 requests.
Spaced ==
    \A c \in Client : \A i, j \in DOMAIN served[c] :
        j = i + Limit => WindowOf(served[c][i]) < WindowOf(served[c][j])

\* With IInv, what makes BurstBound inductive.
ServedInv == Counted /\ Spaced

\* A refused client that waits as long as Retry-After says comes in the next
\* window, and not a second later than it could (rate_limit.py:54, 202).
RetryAfterHonest ==
    [][\A t \in Task : pc[t] = "idle" /\ pc'[t] = "refused" =>
        /\ WindowOf(clock + retryAfter'[t]) = WindowOf(clock) + 1
        /\ WindowOf(clock + retryAfter'[t] - 1) = WindowOf(clock)]_vars

\* What the counter of the current window stands for.
Admitted ==
    [c \in Client |-> LET n == buckets[c][WindowOf(clock)]
                      IN IF n < Limit THEN n ELSE Limit]

Quota == INSTANCE WindowQuota WITH admitted <- Admitted

\* The dictionary of counters implements the promise of WindowQuota.
ImplementsQuota == Quota!Spec
================================================================================
