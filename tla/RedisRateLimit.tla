---------------------------- MODULE RedisRateLimit -----------------------------
(***************************************************************************)
(* RedisRateLimitStore (src/src/app/middleware/rate_limit.py): requests of *)
(* any number of worker processes share the counters of one Redis.  A hit  *)
(* reads the clock, then awaits INCR, then, if it created the counter,     *)
(* EXPIRE.  Between any two of these other requests run and time passes,   *)
(* as much as it likes: the client is built without a timeout and no other *)
(* one is around the hit (rate_limit.py:79, 142).  Each command may fail,  *)
(* or be executed and its reply lost, upon which the client library        *)
(* retries it or gives up.                                                 *)
(***************************************************************************)
EXTENDS Integers, Functions

CONSTANTS
    Client,     \* the keys _build_rate_limit_key tells apart
    Task,       \* the requests in flight, in all workers
    Limit,      \* rate_limit_requests
    Window,     \* rate_limit_window_seconds
    MaxTime,    \* bound on the clock
    MaxCount    \* bound on the INCRs that are executed, for all counters

ASSUME LimitAssumption ==
    /\ Limit \in Nat \ {0}
    /\ Window \in Nat \ {0}
    /\ MaxTime \in Nat
    /\ MaxCount \in Nat

VARIABLES
    clock,
    count,     \* the counter rate_limit:{window}:{client}; 0 is no such key
    deadline,  \* when Redis drops it; Never if it has no time to live
    pc,        \* idle, counting (INCR under way), expiring (EXPIRE under way),
               \* allowed, refused
    hit,       \* the client and the window of each hit
    charged,   \* history: how often INCR was executed for each counter
    granted,   \* history: how many of its replies were within the limit,
    prompt,    \* how many of these INCRs were executed in their window,
    latest,    \* and in which window the last of them was
    orphaned   \* history: the reply that created the counter, or the EXPIRE
               \* that followed it, was lost

store == <<count, deadline>>
history == <<charged, granted, prompt, latest, orphaned>>
vars == <<clock, store, pc, hit, history>>

Never == -1

WindowOf(time) == time \div Window
Windows == 0..WindowOf(MaxTime)
Counter == Client \X Windows

\* A bug: the window is not part of the key.
KeyWithoutWindow(h) == <<h.client, 0>>

\* redis_key.
Key(h) == <<h.client, h.window>>

\* A bug: the counter lives for what is left of a window, counted from its start.
LifeTooShort(h) == (h.window + 1) * Window - 1

\* When the counter dies after an EXPIRE that is executed now.
Life(h) == clock + Window

Init ==
    /\ clock = 0
    /\ count = [k \in Counter |-> 0]
    /\ deadline = [k \in Counter |-> Never]
    /\ pc = [t \in Task |-> "idle"]
    /\ hit \in [Task -> [client : Client, window : {0}]]
    /\ charged = [k \in Counter |-> 0]
    /\ granted = [k \in Counter |-> 0]
    /\ prompt = [k \in Counter |-> 0]
    /\ latest = [k \in Counter |-> k[2]]
    /\ orphaned = [k \in Counter |-> FALSE]

Busy(t) == pc[t] \in {"counting", "expiring"}

\* A second passes; Redis drops what is due.
Tick ==
    /\ clock < MaxTime
    /\ clock' = clock + 1
    /\ count' = [k \in Counter |-> IF deadline[k] = clock + 1 THEN 0 ELSE count[k]]
    /\ deadline' = [k \in Counter |-> IF deadline[k] = clock + 1 THEN Never ELSE deadline[k]]
    /\ orphaned' = [k \in Counter |-> orphaned[k] /\ deadline[k] # clock + 1]
    /\ UNCHANGED <<pc, hit, charged, granted, prompt, latest>>

\* A request of client c reads the clock and sends INCR.
Begin(t, c) ==
    /\ pc[t] = "idle"
    /\ pc' = [pc EXCEPT ![t] = "counting"]
    /\ hit' = [hit EXCEPT ![t] = [client |-> c, window |-> WindowOf(clock)]]
    /\ UNCHANGED <<clock, store, history>>

\* Redis executes the INCR of t.
Increment(t) ==
    LET k == Key(hit[t])
    IN /\ pc[t] = "counting"
       /\ FoldFunction(+, 0, charged) < MaxCount
       /\ count' = [count EXCEPT ![k] = @ + 1]
       /\ charged' = [charged EXCEPT ![<<hit[t].client, hit[t].window>>] = @ + 1]
       /\ UNCHANGED <<clock, deadline, hit>>

\* A bug: one request too many is admitted.
WithinLenient(n) == n <= Limit + 1

Within(n) == n <= Limit

\* A reply of n to t counts as granted.
Grant(t, n) ==
    LET k == <<hit[t].client, hit[t].window>>
    IN IF Within(n)
       THEN /\ granted' = [granted EXCEPT ![k] = @ + 1]
            /\ latest' = [latest EXCEPT ![k] = WindowOf(clock)]
            /\ prompt' = IF WindowOf(clock) = hit[t].window
                         THEN [prompt EXCEPT ![k] = @ + 1] ELSE prompt
       ELSE UNCHANGED <<granted, prompt, latest>>

\* A bug: a counter gets its time to live with the last request of the quota.
RepliedLate(t) ==
    LET n == count[Key(hit[t])] + 1
    IN /\ Increment(t)
       /\ Grant(t, n)
       /\ pc' = [pc EXCEPT ![t] = IF n = Limit THEN "expiring"
                                  ELSE IF Within(n) THEN "allowed" ELSE "refused"]
       /\ UNCHANGED orphaned

\* The reply arrives: EXPIRE for a new counter, else the decision.
Replied(t) ==
    LET n == count[Key(hit[t])] + 1
    IN /\ Increment(t)
       /\ Grant(t, n)
       /\ pc' = [pc EXCEPT ![t] = IF n = 1 THEN "expiring"
                                  ELSE IF Within(n) THEN "allowed" ELSE "refused"]
       /\ UNCHANGED orphaned

\* The reply is lost; the client sends INCR again, or raises and the request
\* ends in a 500.
ReplyLost(t) ==
    /\ Increment(t)
    /\ orphaned' = [orphaned EXCEPT ![Key(hit[t])] = @ \/ count[Key(hit[t])] = 0]
    /\ pc' \in {pc, [pc EXCEPT ![t] = "idle"]}
    /\ UNCHANGED <<granted, prompt, latest>>

\* EXPIRE is executed.  When the key is gone it has no effect.
Expire(t) ==
    LET k == Key(hit[t])
    IN /\ pc[t] = "expiring"
       /\ deadline' = IF count[k] > 0 THEN [deadline EXCEPT ![k] = Life(hit[t])] ELSE deadline
       /\ UNCHANGED <<clock, count, hit, charged, granted, prompt, latest>>

Expired(t) ==
    /\ Expire(t)
    /\ pc' = [pc EXCEPT ![t] = "allowed"]
    /\ UNCHANGED orphaned

\* Executed, but the reply is lost: again, or a 500.
ExpiredLost(t) ==
    /\ Expire(t)
    /\ pc' \in {pc, [pc EXCEPT ![t] = "idle"]}
    /\ UNCHANGED orphaned

\* The command does not reach Redis, or the worker dies: the request ends in a
\* 500 and the command in nothing.
Fail(t) ==
    /\ Busy(t)
    /\ pc' = [pc EXCEPT ![t] = "idle"]
    /\ orphaned' = [orphaned EXCEPT ![Key(hit[t])] = @ \/ pc[t] = "expiring"]
    /\ UNCHANGED <<clock, store, hit, charged, granted, prompt, latest>>

Leave(t) ==
    /\ pc[t] \in {"allowed", "refused"}
    /\ pc' = [pc EXCEPT ![t] = "idle"]
    /\ UNCHANGED <<clock, store, hit, history>>

Next ==
    \/ Tick
    \/ \E t \in Task :
        \/ \E c \in Client : Begin(t, c)
        \/ Replied(t)
        \/ ReplyLost(t)
        \/ Expired(t)
        \/ ExpiredLost(t)
        \/ Fail(t)
        \/ Leave(t)

Spec == Init /\ [][Next]_vars

----------------------------------------------------------------------------

TypeOK ==
    /\ clock \in 0..MaxTime
    /\ count \in [Counter -> Nat]
    /\ deadline \in [Counter -> Nat \cup {Never}]
    /\ pc \in [Task -> {"idle", "counting", "expiring", "allowed", "refused"}]
    /\ hit \in [Task -> [client : Client, window : Windows]]
    /\ charged \in [Counter -> Nat]
    /\ granted \in [Counter -> Nat]
    /\ prompt \in [Counter -> Nat]
    /\ latest \in [Counter -> Windows]
    /\ orphaned \in [Counter -> BOOLEAN]

\* A hit carries the window of its start, which is not in the future.
HitInv == \A t \in Task : hit[t].window <= WindowOf(clock)

\* While its window lasts a counter is not dropped, and counts every reply.
CounterInv ==
    \A k \in Counter :
        /\ deadline[k] # Never => /\ deadline[k] > clock
                                  /\ deadline[k] >= (k[2] + 1) * Window
        /\ count[k] > 0 => k[2] <= WindowOf(clock)
        /\ k[2] >= WindowOf(clock) => prompt[k] <= count[k]
        /\ count[k] <= charged[k]

\* At most Limit requests of a client get through in a window, over all workers
\* and whatever is lost, of those Redis counts before the window is over
\* (rate_limit.py:81-92).
PromptQuota == \A k \in Counter : prompt[k] <= Limit

\* The inductive invariant.
IInv == TypeOK /\ HitInv /\ CounterInv /\ PromptQuota

\* Late ones are counted afresh each time the counter has been dropped: however
\* late they are, at most Limit more get through for every later window in which
\* one of them is still let through (rate_limit.py:79-92).
LateQuota == \A k \in Counter : granted[k] <= Limit * (latest[k] - k[2] + 1)

\* The life of a counter that began in window s, or has ended since: it grants as
\* much as it counts, and ends in a later window.
Lives(k, s) ==
    /\ granted[k] <= Limit * (s - k[2] + 1)
    /\ IF count[k] > 0
       THEN /\ s <= WindowOf(clock)
            /\ granted[k] <= Limit * (s - k[2]) + count[k]
            /\ deadline[k] # Never => deadline[k] >= (s + 1) * Window
       ELSE /\ deadline[k] = Never
            /\ granted[k] = 0 \/ s < WindowOf(clock)

\* With IInv, what makes LateQuota inductive.
LivesInv == \A k \in Counter : \E s \in Windows : k[2] <= s /\ Lives(k, s)
LateInv == LateQuota /\ LivesInv

\* A request is refused only when its client has used up the window of its start:
\* INCR was executed for that very window Limit times before, be it for other
\* requests or for this one, whose replies were lost (rate_limit.py:86, 92).
RefusalEarned ==
    [][\A t \in Task : pc[t] = "counting" /\ pc'[t] = "refused" =>
        charged[<<hit[t].client, hit[t].window>>] >= Limit]_vars

\* Redis keeps no counter for ever but those whose creator lost a reply or
\* failed before its EXPIRE (rate_limit.py:88-89).
CountersMortal ==
    \A k \in Counter : count[k] > 0 /\ deadline[k] = Never =>
        \/ orphaned[k]
        \/ \E t \in Task : pc[t] = "expiring" /\ Key(hit[t]) = k
================================================================================
