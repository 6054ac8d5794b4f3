-------------------------------- MODULE Lifespan -------------------------------
(***************************************************************************)
(* One process from start to stop: the LifespanManager opens what requests *)
(* share, the server lets readiness probes in, drains them and has it      *)
(* closed again (src/src/app/lifespan.py).  A probe runs the checks of the *)
(* ReadinessRegistry one after the other, each against its own timeout,    *)
(* while the dependencies come and go.                                     *)
(*                                                                         *)
(* A dependency is up, down (it refuses), or hung (it does not answer).    *)
(* What "auth" being up means, fresh keys or a provider that gives some,   *)
(* is the subject of JwksCache.                                            *)
(***************************************************************************)
EXTENDS Integers

CONSTANT Probe  \* the readiness requests in flight

Check == {"database", "auth", "cache"}  \* registered after "application"

VARIABLES
    settings,    \* cache_enabled and auth_require_warmup
    stage,       \* the next thing the lifespan does
    open,        \* what is open: engine, client (http_client), store (cache_store)
    health,      \* of each dependency
    at,          \* the check each probe is in, or how it ended
    sick,        \* whether a check of it has failed
    seenUp,      \* history: the dependencies that were up at some moment of the
    seenBad,     \* probe, and those that were not
    closeFailed  \* history: a close raised

probing == <<at, sick, seenUp, seenBad>>
lifespanVars == <<settings, stage, open, health, probing, closeFailed>>

Health == {"up", "down", "hung"}
Ended == {"ready", "unready", "cut"}

\* The resource a check works with.
Needs(c) == CASE c = "database" -> "engine" [] c = "auth" -> "client" [] c = "cache" -> "store"

Up == {c \in Check : health[c] = "up"}

LifespanInit ==
    /\ settings \in [cache : BOOLEAN, required : BOOLEAN]
    /\ stage = "engine"
    /\ open = {}
    /\ health \in [Check -> Health]
    /\ at = [p \in Probe |-> "idle"]
    /\ sick = [p \in Probe |-> FALSE]
    /\ seenUp = [p \in Probe |-> {}]
    /\ seenBad = [p \in Probe |-> {}]
    /\ closeFailed = FALSE

----------------------------------------------------------------------------
(* Startup. *)

\* A step of the lifespan itself.
Goto(next) == stage' = next /\ UNCHANGED <<settings, health, probing>>

\* Either step may raise: a directory that cannot be made, a missing driver.
CreateEngine ==
    /\ stage = "engine"
    /\ \/ open' = open \cup {"engine"} /\ Goto("client")
       \/ UNCHANGED open /\ Goto("aborted")
    /\ UNCHANGED closeFailed

CreateClient ==
    /\ stage = "client"
    /\ open' = open \cup {"client"}
    /\ Goto("warmup")
    /\ UNCHANGED closeFailed

\* A provider that hangs is a failure: the client has a timeout.
WarmUp ==
    /\ stage = "warmup"
    /\ Goto(IF settings.required /\ health["auth"] # "up" THEN "aborted" ELSE "store")
    /\ UNCHANGED <<open, closeFailed>>

CreateStore ==
    /\ stage = "store"
    /\ IF settings.cache
       THEN \/ open' = open \cup {"store"} /\ Goto("ping")
            \/ UNCHANGED open /\ Goto("aborted")
       ELSE UNCHANGED open /\ Goto("serving")
    /\ UNCHANGED closeFailed

\* No timeout: only an answer or a refusal ends the ping.
Ping ==
    /\ stage = "ping"
    /\ health["cache"] # "hung"
    /\ Goto("serving")
    /\ UNCHANGED <<open, closeFailed>>

----------------------------------------------------------------------------
(* Readiness. *)

\* A dependency changes, under whatever probe is under way.
Change(c, h) ==
    /\ health[c] # h
    /\ health' = [health EXCEPT ![c] = h]
    /\ seenUp' = [p \in Probe |-> IF at[p] \in Check /\ h = "up" THEN seenUp[p] \cup {c}
                                  ELSE seenUp[p]]
    /\ seenBad' = [p \in Probe |-> IF at[p] \in Check /\ h # "up" THEN seenBad[p] \cup {c}
                                   ELSE seenBad[p]]
    /\ UNCHANGED <<settings, stage, open, at, sick, closeFailed>>

Enter(p) ==
    /\ stage = "serving"
    /\ at[p] = "idle"
    /\ at' = [at EXCEPT ![p] = "database"]
    /\ sick' = [sick EXCEPT ![p] = FALSE]
    /\ seenUp' = [seenUp EXCEPT ![p] = Up]
    /\ seenBad' = [seenBad EXCEPT ![p] = Check \ Up]
    /\ UNCHANGED <<settings, stage, open, health, closeFailed>>

Last == IF settings.cache THEN "cache" ELSE "auth"

\* A bug: only the last check decides.
ResultOfLast(p) == health[at[p]] # "up"

\* Whether some check has failed once the one p is in returns: it fails when
\* the dependency refuses, and when it hangs until the timeout.
Result(p) == sick[p] \/ health[at[p]] # "up"

\* A bug: the checks have no timeout.
RunCheckPatiently(p) ==
    /\ at[p] \in Check
    /\ health[at[p]] # "hung"
    /\ sick' = [sick EXCEPT ![p] = Result(p)]
    /\ at' = [at EXCEPT ![p] = CASE at[p] = Last -> IF Result(p) THEN "unready" ELSE "ready"
                                 [] at[p] = "database" -> "auth"
                                 [] OTHER -> "cache"]
    /\ UNCHANGED <<settings, stage, open, health, seenUp, seenBad, closeFailed>>

\* The check p is in returns; the next begins, or the probe is answered.
RunCheck(p) ==
    /\ at[p] \in Check
    /\ sick' = [sick EXCEPT ![p] = Result(p)]
    /\ at' = [at EXCEPT ![p] = CASE at[p] = Last -> IF Result(p) THEN "unready" ELSE "ready"
                                 [] at[p] = "database" -> "auth"
                                 [] OTHER -> "cache"]
    /\ UNCHANGED <<settings, stage, open, health, seenUp, seenBad, closeFailed>>

\* The request timeout, or the server's when it shuts down.
Cut(p) ==
    /\ at[p] \in Check
    /\ at' = [at EXCEPT ![p] = "cut"]
    /\ UNCHANGED <<settings, stage, open, health, sick, seenUp, seenBad, closeFailed>>

Exit(p) ==
    /\ at[p] \in Ended
    /\ at' = [at EXCEPT ![p] = "idle"]
    /\ UNCHANGED <<settings, stage, open, health, sick, seenUp, seenBad, closeFailed>>

----------------------------------------------------------------------------
(* Shutdown. *)

Shutdown ==
    /\ stage = "serving"
    /\ Goto("draining")
    /\ UNCHANGED <<open, closeFailed>>

\* A bug: the lifespan ends while requests are still running.
DrainedEarly ==
    /\ stage = "draining"
    /\ Goto(IF "store" \in open THEN "closeStore" ELSE "closeClient")
    /\ UNCHANGED <<open, closeFailed>>

\* The server waits for the requests, or cuts them, before it ends the lifespan.
Drained ==
    /\ stage = "draining"
    /\ \A p \in Probe : at[p] \notin Check
    /\ Goto(IF "store" \in open THEN "closeStore" ELSE "closeClient")
    /\ UNCHANGED <<open, closeFailed>>

\* Closes r and goes on; when that raises the rest is skipped.
Close(r, next) ==
    \/ open' = open \ {r} /\ Goto(next) /\ UNCHANGED closeFailed
    \/ UNCHANGED open /\ Goto("stopped") /\ closeFailed' = TRUE

\* A bug: the engine is disposed right after the cache store.
CloseStoreShort == stage = "closeStore" /\ Close("store", "dispose")

CloseStore == stage = "closeStore" /\ Close("store", "closeClient")
CloseClient == stage = "closeClient" /\ Close("client", "dispose")
Dispose == stage = "dispose" /\ Close("engine", "stopped")

Startup == CreateEngine \/ CreateClient \/ WarmUp \/ CreateStore
Closing == Drained \/ CloseStore \/ CloseClient \/ Dispose

LifespanNext ==
    \/ Startup
    \/ Ping
    \/ Shutdown
    \/ Closing
    \/ \E c \in Check, h \in Health : Change(c, h)
    \/ \E p \in Probe : Enter(p) \/ RunCheck(p) \/ Cut(p) \/ Exit(p)

LifespanSpec == LifespanInit /\ [][LifespanNext]_lifespanVars

\* The event loop runs what can run, and every check has a timeout.  The ping
\* of the startup is answered once the cache stops hanging for good.
LifespanFairness ==
    /\ WF_lifespanVars(Startup)
    /\ WF_lifespanVars(Ping)
    /\ WF_lifespanVars(Closing)
    /\ \A p \in Probe : WF_lifespanVars(RunCheck(p))

LifespanFairSpec == LifespanSpec /\ LifespanFairness

----------------------------------------------------------------------------

Stage == {"engine", "client", "warmup", "store", "ping", "serving", "draining",
          "closeStore", "closeClient", "dispose", "stopped", "aborted"}

LifespanTypeOK ==
    /\ settings \in [cache : BOOLEAN, required : BOOLEAN]
    /\ stage \in Stage
    /\ open \subseteq {"engine", "client", "store"}
    /\ health \in [Check -> Health]
    /\ at \in [Probe -> Check \cup Ended \cup {"idle"}]
    /\ sick \in [Probe -> BOOLEAN]
    /\ seenUp \in [Probe -> SUBSET Check]
    /\ seenBad \in [Probe -> SUBSET Check]
    /\ closeFailed \in BOOLEAN

\* What is open at each stage.
Store == IF settings.cache THEN {"store"} ELSE {}

OpenInv ==
    /\ stage = "engine" => open = {}
    /\ stage = "client" => open = {"engine"}
    /\ stage \in {"warmup", "store", "closeClient"} => open = {"engine", "client"}
    /\ stage \in {"ping", "serving", "draining"} => open = {"engine", "client"} \cup Store
    /\ stage = "closeStore" => open = {"engine", "client", "store"}
    /\ stage = "dispose" => open = {"engine"}
    /\ stage = "aborted" => open \in {{}, {"engine", "client"}}
    /\ stage = "stopped" => open = {} \/ (closeFailed /\ "engine" \in open)
    /\ closeFailed => stage = "stopped"

\* A request is under way only while the server lets it be; what its checks
\* have found so far was so at some moment of it.
ProbeInv ==
    \A p \in Probe : at[p] \in Check =>
        /\ stage \in {"serving", "draining"}
        /\ at[p] = "cache" => settings.cache
        /\ Up \subseteq seenUp[p] /\ Check \ Up \subseteq seenBad[p]
        /\ sick[p] => seenBad[p] \cap {"database", "auth", Last} # {}
        /\ ~sick[p] /\ at[p] # "database" => "database" \in seenUp[p]
        /\ ~sick[p] /\ at[p] = "cache" => "auth" \in seenUp[p]

\* The inductive invariant.
LifespanInv == LifespanTypeOK /\ OpenInv /\ ProbeInv

\* No check ever works with a resource that is not open yet or closed already
\* (lifespan.py:53-65, 101-109).
UsesOpen == \A p \in Probe : at[p] \in Check => Needs(at[p]) \in open

\* Shutdown closes everything, unless a close raises, and the engine last
\* (lifespan.py:102-109, docs/architecture.md:83-84).
StopsClean ==
    /\ stage = "stopped" /\ ~closeFailed => open = {}
    /\ open # {} => "engine" \in open

Registered == {"database", "auth", Last}

\* A probe is told "ready" only if each dependency was up at some moment while
\* it ran, and "not_ready" only if one was not (readiness/registry.py:70-78,
\* routes/health.py:70-72).
ReadyHonest ==
    [][\A p \in Probe :
        /\ at[p] # "ready" /\ at'[p] = "ready" => Registered \subseteq seenUp[p]
        /\ at[p] # "unready" /\ at'[p] = "unready" => Registered \cap seenBad[p] # {}]_lifespanVars

\* Every probe and every shutdown ends, whatever the dependencies do; startup
\* ends provided that the cache does not hang for ever (lifespan.py:89).
LifecycleEnds ==
    /\ \A p \in Probe : at[p] \in Check ~> at[p] \notin Check
    /\ stage = "draining" ~> stage = "stopped"
    /\ <>[](health["cache"] # "hung") => <>(stage \in {"serving", "aborted"})
================================================================================
