----------------------------- MODULE ProcessProofs -----------------------------
(***************************************************************************)
(* Proofs about the two halves of one process: Lifespan, what it opens     *)
(* around the requests, for every number of probes, and RequestPipeline,   *)
(* what the layers of the stack make of each request, for every limit of   *)
(* the body and every set of statuses of the application.                  *)
(***************************************************************************)
EXTENDS Lifespan, RequestPipeline, TLAPS

----------------------------------------------------------------------------
(* The lifespan                                                            *)

USE DEF Check, Health, Ended, Stage, Store, Last

\* Nothing is open and nobody probes before the start.
LEMMA LifespanInvInit == LifespanInit => LifespanInv
  BY DEF LifespanInit, LifespanInv, LifespanTypeOK, OpenInv, ProbeInv

\* A step of the lifespan leaves the probes alone: it keeps the invariant when
\* it keeps the types, opens what its next stage needs, and goes to a stage
\* without probes only when there are none.
LEMMA LifespanStep ==
  ASSUME LifespanInv, stage' \in Stage, UNCHANGED <<settings, health, probing>>,
         closeFailed' \in BOOLEAN, open' \subseteq {"engine", "client", "store"}, OpenInv',
         stage' \in {"serving", "draining"} \/ \A p \in Probe : at[p] \notin Check
  PROVE  LifespanInv'
<1>1. LifespanTypeOK'
  BY DEF LifespanInv, LifespanTypeOK, probing
<1>2. ProbeInv'
  BY DEF LifespanInv, ProbeInv, Up, probing
<1> QED BY <1>1, <1>2 DEF LifespanInv

\* No probe is under way but while serving and draining.
LEMMA Unprobed ==
  ASSUME LifespanInv, stage \notin {"serving", "draining"}
  PROVE  \A p \in Probe : at[p] \notin Check
  BY DEF LifespanInv, ProbeInv

LEMMA CreateEngineStep == LifespanInv /\ CreateEngine => LifespanInv'
<1> SUFFICES ASSUME LifespanInv, CreateEngine PROVE LifespanInv'
  OBVIOUS
<1>1. /\ stage' \in Stage /\ closeFailed' \in BOOLEAN
      /\ UNCHANGED <<settings, health, probing>>
      /\ open' \subseteq {"engine", "client", "store"}
  BY DEF LifespanInv, LifespanTypeOK, CreateEngine, Goto, Close
<1>2. OpenInv'
  BY DEF LifespanInv, LifespanTypeOK, OpenInv, CreateEngine, Goto, Close
<1>3. stage' \in {"serving", "draining"} \/ \A p \in Probe : at[p] \notin Check
  BY Unprobed DEF CreateEngine, Goto
<1> QED BY <1>1, <1>2, <1>3, LifespanStep

LEMMA CreateClientStep == LifespanInv /\ CreateClient => LifespanInv'
<1> SUFFICES ASSUME LifespanInv, CreateClient PROVE LifespanInv'
  OBVIOUS
<1>1. /\ stage' \in Stage /\ closeFailed' \in BOOLEAN
      /\ UNCHANGED <<settings, health, probing>>
      /\ open' \subseteq {"engine", "client", "store"}
  BY DEF LifespanInv, LifespanTypeOK, CreateClient, Goto, Close
<1>2. OpenInv'
  BY DEF LifespanInv, LifespanTypeOK, OpenInv, CreateClient, Goto, Close
<1>3. stage' \in {"serving", "draining"} \/ \A p \in Probe : at[p] \notin Check
  BY Unprobed DEF CreateClient, Goto
<1> QED BY <1>1, <1>2, <1>3, LifespanStep

LEMMA WarmUpStep == LifespanInv /\ WarmUp => LifespanInv'
<1> SUFFICES ASSUME LifespanInv, WarmUp PROVE LifespanInv'
  OBVIOUS
<1>1. /\ stage' \in Stage /\ closeFailed' \in BOOLEAN
      /\ UNCHANGED <<settings, health, probing>>
      /\ open' \subseteq {"engine", "client", "store"}
  BY DEF LifespanInv, LifespanTypeOK, WarmUp, Goto, Close
<1>2. OpenInv'
  BY DEF LifespanInv, LifespanTypeOK, OpenInv, WarmUp, Goto, Close
<1>3. stage' \in {"serving", "draining"} \/ \A p \in Probe : at[p] \notin Check
  BY Unprobed DEF WarmUp, Goto
<1> QED BY <1>1, <1>2, <1>3, LifespanStep

LEMMA CreateStoreStep == LifespanInv /\ CreateStore => LifespanInv'
<1> SUFFICES ASSUME LifespanInv, CreateStore PROVE LifespanInv'
  OBVIOUS
<1>1. /\ stage' \in Stage /\ closeFailed' \in BOOLEAN
      /\ UNCHANGED <<settings, health, probing>>
      /\ open' \subseteq {"engine", "client", "store"}
  BY DEF LifespanInv, LifespanTypeOK, CreateStore, Goto, Close
<1>2. OpenInv'
  BY DEF LifespanInv, LifespanTypeOK, OpenInv, CreateStore, Goto, Close
<1>3. stage' \in {"serving", "draining"} \/ \A p \in Probe : at[p] \notin Check
  BY Unprobed DEF CreateStore, Goto
<1> QED BY <1>1, <1>2, <1>3, LifespanStep

LEMMA PingStep == LifespanInv /\ Ping => LifespanInv'
<1> SUFFICES ASSUME LifespanInv, Ping PROVE LifespanInv'
  OBVIOUS
<1>1. /\ stage' \in Stage /\ closeFailed' \in BOOLEAN
      /\ UNCHANGED <<settings, health, probing>>
      /\ open' \subseteq {"engine", "client", "store"}
  BY DEF LifespanInv, LifespanTypeOK, Ping, Goto, Close
<1>2. OpenInv'
  BY DEF LifespanInv, LifespanTypeOK, OpenInv, Ping, Goto, Close
<1>3. stage' \in {"serving", "draining"} \/ \A p \in Probe : at[p] \notin Check
  BY Unprobed DEF Ping, Goto
<1> QED BY <1>1, <1>2, <1>3, LifespanStep

LEMMA ShutdownStep == LifespanInv /\ Shutdown => LifespanInv'
<1> SUFFICES ASSUME LifespanInv, Shutdown PROVE LifespanInv'
  OBVIOUS
<1>1. /\ stage' \in Stage /\ closeFailed' \in BOOLEAN
      /\ UNCHANGED <<settings, health, probing>>
      /\ open' \subseteq {"engine", "client", "store"}
  BY DEF LifespanInv, LifespanTypeOK, Shutdown, Goto, Close
<1>2. OpenInv'
  BY DEF LifespanInv, LifespanTypeOK, OpenInv, Shutdown, Goto, Close
<1>3. stage' \in {"serving", "draining"} \/ \A p \in Probe : at[p] \notin Check
  BY Unprobed DEF Shutdown, Goto
<1> QED BY <1>1, <1>2, <1>3, LifespanStep

LEMMA DrainedStep == LifespanInv /\ Drained => LifespanInv'
<1> SUFFICES ASSUME LifespanInv, Drained PROVE LifespanInv'
  OBVIOUS
<1>1. /\ stage' \in Stage /\ closeFailed' \in BOOLEAN
      /\ UNCHANGED <<settings, health, probing>>
      /\ open' \subseteq {"engine", "client", "store"}
  BY DEF LifespanInv, LifespanTypeOK, Drained, Goto, Close
<1>2. OpenInv'
  BY DEF LifespanInv, LifespanTypeOK, OpenInv, Drained, Goto, Close
<1>3. stage' \in {"serving", "draining"} \/ \A p \in Probe : at[p] \notin Check
  BY Unprobed DEF Drained, Goto
<1> QED BY <1>1, <1>2, <1>3, LifespanStep

LEMMA CloseStoreStep == LifespanInv /\ CloseStore => LifespanInv'
<1> SUFFICES ASSUME LifespanInv, CloseStore PROVE LifespanInv'
  OBVIOUS
<1>1. /\ stage' \in Stage /\ closeFailed' \in BOOLEAN
      /\ UNCHANGED <<settings, health, probing>>
      /\ open' \subseteq {"engine", "client", "store"}
  BY DEF LifespanInv, LifespanTypeOK, CloseStore, Goto, Close
<1>2. OpenInv'
  BY DEF LifespanInv, LifespanTypeOK, OpenInv, CloseStore, Goto, Close
<1>3. stage' \in {"serving", "draining"} \/ \A p \in Probe : at[p] \notin Check
  BY Unprobed DEF CloseStore, Goto
<1> QED BY <1>1, <1>2, <1>3, LifespanStep

LEMMA CloseClientStep == LifespanInv /\ CloseClient => LifespanInv'
<1> SUFFICES ASSUME LifespanInv, CloseClient PROVE LifespanInv'
  OBVIOUS
<1>1. /\ stage' \in Stage /\ closeFailed' \in BOOLEAN
      /\ UNCHANGED <<settings, health, probing>>
      /\ open' \subseteq {"engine", "client", "store"}
  BY DEF LifespanInv, LifespanTypeOK, CloseClient, Goto, Close
<1>2. OpenInv'
  BY DEF LifespanInv, LifespanTypeOK, OpenInv, CloseClient, Goto, Close
<1>3. stage' \in {"serving", "draining"} \/ \A p \in Probe : at[p] \notin Check
  BY Unprobed DEF CloseClient, Goto
<1> QED BY <1>1, <1>2, <1>3, LifespanStep

LEMMA DisposeStep == LifespanInv /\ Dispose => LifespanInv'
<1> SUFFICES ASSUME LifespanInv, Dispose PROVE LifespanInv'
  OBVIOUS
<1>1. /\ stage' \in Stage /\ closeFailed' \in BOOLEAN
      /\ UNCHANGED <<settings, health, probing>>
      /\ open' \subseteq {"engine", "client", "store"}
  BY DEF LifespanInv, LifespanTypeOK, Dispose, Goto, Close
<1>2. OpenInv'
  BY DEF LifespanInv, LifespanTypeOK, OpenInv, Dispose, Goto, Close
<1>3. stage' \in {"serving", "draining"} \/ \A p \in Probe : at[p] \notin Check
  BY Unprobed DEF Dispose, Goto
<1> QED BY <1>1, <1>2, <1>3, LifespanStep

LEMMA ChangeStep == ASSUME LifespanInv, NEW c \in Check, NEW h \in Health, Change(c, h) PROVE LifespanInv'
<1>1. LifespanTypeOK'
  BY DEF LifespanInv, LifespanTypeOK, Change, Up, Result
<1>2. OpenInv'
  BY DEF LifespanInv, OpenInv, Change
<1>3. ProbeInv'
  BY DEF LifespanInv, LifespanTypeOK, ProbeInv, Change, Up, Result
<1> QED BY <1>1, <1>2, <1>3 DEF LifespanInv

LEMMA EnterStep == ASSUME LifespanInv, NEW p \in Probe, Enter(p) PROVE LifespanInv'
<1>1. LifespanTypeOK'
  BY DEF LifespanInv, LifespanTypeOK, Enter, Up, Result
<1>2. OpenInv'
  BY DEF LifespanInv, OpenInv, Enter
<1>3. ProbeInv'
  BY DEF LifespanInv, LifespanTypeOK, ProbeInv, Enter, Up, Result
<1> QED BY <1>1, <1>2, <1>3 DEF LifespanInv

LEMMA RunCheckStep == ASSUME LifespanInv, NEW p \in Probe, RunCheck(p) PROVE LifespanInv'
<1>1. LifespanTypeOK'
  BY DEF LifespanInv, LifespanTypeOK, RunCheck, Up, Result
<1>2. OpenInv'
  BY DEF LifespanInv, OpenInv, RunCheck
<1>3. ProbeInv'
  <2> SUFFICES ASSUME NEW q \in Probe, at'[q] \in Check
               PROVE  /\ stage' \in {"serving", "draining"}
                      /\ at'[q] = "cache" => settings'.cache
                      /\ Up' \subseteq seenUp'[q] /\ Check \ Up' \subseteq seenBad'[q]
                      /\ sick'[q] => seenBad'[q] \cap {"database", "auth", Last'} # {}
                      /\ ~sick'[q] /\ at'[q] # "database" => "database" \in seenUp'[q]
                      /\ ~sick'[q] /\ at'[q] = "cache" => "auth" \in seenUp'[q]
    BY DEF ProbeInv
  <2>1. /\ UNCHANGED <<settings, stage, seenUp, seenBad>> /\ Up' = Up /\ Last' = Last
        /\ at[p] \in Check /\ (q # p => at'[q] = at[q] /\ sick'[q] = sick[q])
    BY DEF RunCheck, Up, Last, LifespanInv, LifespanTypeOK
  <2>2. CASE q # p
    BY <2>1, <2>2 DEF LifespanInv, ProbeInv
  <2>3. CASE q = p
    <3>1. /\ at[p] # Last
          /\ at'[p] = IF at[p] = "database" THEN "auth" ELSE "cache"
      BY <2>3 DEF RunCheck, LifespanInv, LifespanTypeOK, Check
    <3>2. sick'[p] <=> sick[p] \/ health[at[p]] # "up"
      BY DEF RunCheck, Result, LifespanInv, LifespanTypeOK
    <3>3. (health[at[p]] # "up" => at[p] \in seenBad[p]) /\ (health[at[p]] = "up" => at[p] \in seenUp[p])
      BY <2>1 DEF LifespanInv, ProbeInv, Up
    <3>4. at[p] \in {"database", "auth"} /\ (at[p] = "auth" => Last = "cache" /\ settings.cache)
      <4>1. at[p] = "cache" => settings.cache
        BY <2>1 DEF LifespanInv, ProbeInv
      <4> QED BY <2>1, <3>1, <4>1 DEF Last, Check
    <3> QED BY <2>1, <2>3, <3>1, <3>2, <3>3, <3>4 DEF LifespanInv, ProbeInv
  <2> QED BY <2>2, <2>3
<1> QED BY <1>1, <1>2, <1>3 DEF LifespanInv

LEMMA CutStep == ASSUME LifespanInv, NEW p \in Probe, Cut(p) PROVE LifespanInv'
<1>1. LifespanTypeOK'
  BY DEF LifespanInv, LifespanTypeOK, Cut, Up, Result
<1>2. OpenInv'
  BY DEF LifespanInv, OpenInv, Cut
<1>3. ProbeInv'
  BY DEF LifespanInv, LifespanTypeOK, ProbeInv, Cut, Up, Result
<1> QED BY <1>1, <1>2, <1>3 DEF LifespanInv

LEMMA ExitStep == ASSUME LifespanInv, NEW p \in Probe, Exit(p) PROVE LifespanInv'
<1>1. LifespanTypeOK'
  BY DEF LifespanInv, LifespanTypeOK, Exit, Up, Result
<1>2. OpenInv'
  BY DEF LifespanInv, OpenInv, Exit
<1>3. ProbeInv'
  BY DEF LifespanInv, LifespanTypeOK, ProbeInv, Exit, Up, Result
<1> QED BY <1>1, <1>2, <1>3 DEF LifespanInv

LEMMA LifespanInvNext == LifespanInv /\ [LifespanNext]_lifespanVars => LifespanInv'
<1>1. CASE LifespanNext
  BY <1>1, CreateEngineStep, CreateClientStep, WarmUpStep, CreateStoreStep, PingStep, ShutdownStep,
     DrainedStep, CloseStoreStep, CloseClientStep, DisposeStep,
     ChangeStep, EnterStep, RunCheckStep, CutStep, ExitStep DEF LifespanNext, Startup, Closing
<1>2. CASE UNCHANGED lifespanVars
  BY <1>2 DEF lifespanVars, probing, LifespanInv, LifespanTypeOK, OpenInv, ProbeInv, Up
<1> QED BY <1>1, <1>2

\* The inductive invariant: what is open at each stage, and what a probe under
\* way has seen.
THEOREM LifespanInvariance == LifespanSpec => []LifespanInv
<1> QED BY LifespanInvInit, LifespanInvNext, PTL DEF LifespanSpec

\* No check works with a resource that is not open.
THEOREM ChecksUseOpen == LifespanSpec => []UsesOpen
<1>1. LifespanInv => UsesOpen
  BY DEF LifespanInv, OpenInv, ProbeInv, UsesOpen, Needs
<1> QED BY <1>1, LifespanInvariance, PTL

\* Shutdown closes everything, the engine last, unless a close raises.
THEOREM StopIsClean == LifespanSpec => []StopsClean
<1>1. LifespanInv => StopsClean
  BY DEF LifespanInv, LifespanTypeOK, OpenInv, StopsClean
<1> QED BY <1>1, LifespanInvariance, PTL

\* What a probe is told was so of each dependency at some moment while it ran.
THEOREM ReadinessIsHonest == LifespanSpec => ReadyHonest
<1>1. LifespanInv /\ [LifespanNext]_lifespanVars => [\A p \in Probe :
        /\ at[p] # "ready" /\ at'[p] = "ready" => Registered \subseteq seenUp[p]
        /\ at[p] # "unready" /\ at'[p] = "unready" => Registered \cap seenBad[p] # {}]_lifespanVars
  <2> SUFFICES ASSUME LifespanInv, LifespanNext, NEW p \in Probe
               PROVE  /\ at[p] # "ready" /\ at'[p] = "ready" => Registered \subseteq seenUp[p]
                      /\ at[p] # "unready" /\ at'[p] = "unready" =>
                             Registered \cap seenBad[p] # {}
    OBVIOUS
  <2>1. CASE RunCheck(p)
    BY <2>1 DEF LifespanInv, LifespanTypeOK, ProbeInv, RunCheck, Result, Up, Registered
  <2>2. CASE ~RunCheck(p)
    <3>1. at'[p] \in Check \cup {"idle", "cut"} \/ at'[p] = at[p]
      BY <2>2 DEF LifespanInv, LifespanTypeOK, LifespanNext, Startup, Closing, CreateEngine, CreateClient, WarmUp,
         CreateStore, Ping, Shutdown, Drained, CloseStore, CloseClient, Dispose, Goto, Close,
         probing, Change, Enter, RunCheck, Cut, Exit
    <3> QED BY <3>1
  <2> QED BY <2>1, <2>2
<1> QED BY <1>1, LifespanInvariance, PTL DEF LifespanSpec, ReadyHonest

----------------------------------------------------------------------------
(* The layers of the stack                                                 *)

LEMMA StackEntries ==
  /\ Len(Stack) = 10
  /\ Stack[1] = "errors" /\ Stack[2] = "cors" /\ Stack[3] = "hosts" /\ Stack[4] = "security"
  /\ Stack[5] = "logging" /\ Stack[6] = "tracing" /\ Stack[7] = "quota" /\ Stack[8] = "size"
  /\ Stack[9] = "timeout" /\ Stack[10] = "app"
BY DEF Stack

Layers == {"errors", "cors", "hosts", "security", "logging", "tracing", "quota", "size",
           "timeout", "app"}

LEMMA LayerIs == Layer = Layers
<1>1. 1..Len(Stack) = {1, 2, 3, 4, 5, 6, 7, 8, 9, 10}
  BY StackEntries
<1>2. Layer = {Stack[i] : i \in {1, 2, 3, 4, 5, 6, 7, 8, 9, 10}}
  BY <1>1 DEF Layer
<1>3. Layer \subseteq Layers
  BY <1>2, StackEntries DEF Layers
<1>4. Layers \subseteq Layer
  BY <1>2, StackEntries DEF Layers
<1> QED BY <1>3, <1>4

LEMMA DepthAt ==
  ASSUME NEW n \in 1..10
  PROVE  Depth(Stack[n]) = n
<1>1. \A i \in 1..10 : i # n => Stack[i] # Stack[n]
  <2> SUFFICES ASSUME NEW i \in 1..10, i # n PROVE Stack[i] # Stack[n]
    OBVIOUS
  <2>1. i \in {1, 2, 3, 4, 5, 6, 7, 8, 9, 10} /\ n \in {1, 2, 3, 4, 5, 6, 7, 8, 9, 10}
    OBVIOUS
  <2> QED BY <2>1, StackEntries
<1>2. Depth(Stack[n]) = CHOOSE i \in 1..10 : Stack[i] = Stack[n]
  BY StackEntries DEF Depth
<1> QED BY <1>1, <1>2

LEMMA DepthIs ==
  /\ Depth("errors") = 1 /\ Depth("cors") = 2 /\ Depth("hosts") = 3 /\ Depth("security") = 4
  /\ Depth("logging") = 5 /\ Depth("tracing") = 6 /\ Depth("quota") = 7 /\ Depth("size") = 8
  /\ Depth("timeout") = 9 /\ Depth("app") = 10
<1>1. 1 \in 1..10 /\ 2 \in 1..10 /\ 3 \in 1..10 /\ 4 \in 1..10 /\ 5 \in 1..10 /\ 6 \in 1..10
      /\ 7 \in 1..10 /\ 8 \in 1..10 /\ 9 \in 1..10 /\ 10 \in 1..10
  OBVIOUS
<1>2. /\ Depth(Stack[1]) = 1 /\ Depth(Stack[2]) = 2 /\ Depth(Stack[3]) = 3
      /\ Depth(Stack[4]) = 4 /\ Depth(Stack[5]) = 5 /\ Depth(Stack[6]) = 6
      /\ Depth(Stack[7]) = 7 /\ Depth(Stack[8]) = 8 /\ Depth(Stack[9]) = 9
      /\ Depth(Stack[10]) = 10
  BY <1>1, DepthAt
<1> QED BY <1>2, StackEntries

\* Which layers the log, the request ID, the limiter and the timer are around.
LEMMA WrapsIs ==
  ASSUME NEW l \in Layer
  PROVE  /\ Wraps("logging", l) <=> l \in {"tracing", "quota", "size", "timeout", "app"}
         /\ Wraps("tracing", l) <=> l \in {"quota", "size", "timeout", "app"}
         /\ Wraps("quota", l) <=> l \in {"size", "timeout", "app"}
         /\ Wraps("timeout", l) <=> l = "app"
         /\ Wraps("logging", l) => Wraps("security", l)
BY LayerIs, DepthIs DEF Wraps, Layers

Refused(r) == r.length = NotInt \/ TooLong(r.length)

LEMMA AnswererIs ==
  ASSUME NEW r \in Request
  PROVE  /\ Answerer(r) \in {"cors", "hosts", "tracing", "quota", "size", "app"}
         /\ Answerer(r) = "size" => Refused(r)
         /\ Answerer(r) = "quota" => r.quota = "refused"
<1> DEFINE S == {l \in Layer :
                    \/ l = "cors" /\ r.preflight # "none"
                    \/ l = "hosts" /\ ~r.host
                    \/ l = "tracing" /\ ~r.decodable
                    \/ l = "quota" /\ r.quota = "refused"
                    \/ l = "size" /\ (r.length = NotInt \/ TooLong(r.length))
                    \/ l = "app"}
<1>1. Answerer(r) = CHOOSE x \in S : \A k \in S : k = x \/ Wraps(x, k)
  BY DEF Answerer
<1>2. S \subseteq {"cors", "hosts", "tracing", "quota", "size", "app"} /\ S \subseteq Layer
  OBVIOUS
<1>3. /\ "size" \in S => Refused(r)
      /\ "quota" \in S => r.quota = "refused"
  BY DEF Refused
<1>4. "app" \in S
  BY LayerIs DEF Layers
<1> HIDE DEF S
<1>5. \E x \in S : \A k \in S : k = x \/ Wraps(x, k)
  <2>1. \A k \in S : Wraps("cors", k) \/ k = "cors"
    BY <1>2, DepthIs DEF Wraps
  <2>2. "cors" \notin S => \A k \in S : Wraps("hosts", k) \/ k = "hosts"
    BY <1>2, DepthIs DEF Wraps
  <2>3. "cors" \notin S /\ "hosts" \notin S => \A k \in S : Wraps("tracing", k) \/ k = "tracing"
    BY <1>2, DepthIs DEF Wraps
  <2>4. "cors" \notin S /\ "hosts" \notin S /\ "tracing" \notin S =>
            \A k \in S : Wraps("quota", k) \/ k = "quota"
    BY <1>2, DepthIs DEF Wraps
  <2>5. "cors" \notin S /\ "hosts" \notin S /\ "tracing" \notin S /\ "quota" \notin S =>
            \A k \in S : Wraps("size", k) \/ k = "size"
    BY <1>2, DepthIs DEF Wraps
  <2>6. S \cap {"cors", "hosts", "tracing", "quota", "size"} = {} => \A k \in S : k = "app"
    BY <1>2
  <2> QED BY <1>4, <2>1, <2>2, <2>3, <2>4, <2>5, <2>6
<1>6. Answerer(r) \in S
  BY <1>1, <1>5
<1> QED BY <1>2, <1>3, <1>6

\* The headers a response passes on its way out.
LEMMA HeadersAre ==
  ASSUME NEW l \in Layer, NEW r
  PROVE  /\ Headers(l, r) \subseteq {"security", "tracing", "quota"}
         /\ Wraps("logging", l) => ("tracing" \in Headers(l, r) <=> Wraps("tracing", l))
         /\ l \in {"quota", "size", "timeout", "app"} =>
                /\ {"security", "tracing"} \subseteq Headers(l, r)
                /\ r.quota # "exempt" => "quota" \in Headers(l, r)
BY WrapsIs DEF Headers

----------------------------------------------------------------------------
(* The types                                                               *)

LEMMA StartResponseType ==
  ASSUME TypeOK, NEW l \in Layer, NEW status \in Nat, StartResponse(l, status)
  PROVE  /\ phase' \in {"idle", "running", "sending", "done"}
         /\ started' \in BOOLEAN /\ completed' \in BOOLEAN /\ errStarted' \in BOOLEAN
         /\ record' \in [status : Nat, traced : BOOLEAN]
         /\ out' \in [by : Layer \cup {"server"}, status : Nat, last : BOOLEAN]
BY DEF TypeOK, StartResponse, Wraps

LEMMA SendBodyType ==
  ASSUME TypeOK, NEW l \in Layer, NEW last \in BOOLEAN, SendBody(l, last)
  PROVE  /\ phase' \in {"idle", "running", "sending", "done"}
         /\ started' \in BOOLEAN /\ completed' \in BOOLEAN /\ errStarted' \in BOOLEAN
         /\ record' \in [status : Nat, traced : BOOLEAN]
         /\ out' \in [by : Layer \cup {"server"}, status : Nat, last : BOOLEAN]
BY DEF TypeOK, SendBody, Wraps

WireType == [by : Layer \cup {"server"}, status : Nat,
             headers : SUBSET {"security", "tracing", "quota"}, complete : BOOLEAN]

LEMMA NamesAreLayers ==
  /\ Refusers \subseteq Layer /\ "app" \in Layer /\ "errors" \in Layer /\ "tracing" \in Layer
  /\ "server" \notin Layer
BY LayerIs DEF Layers, Refusers

LEMMA BegunType ==
  ASSUME NEW l \in Layer, NEW status \in Nat, NEW complete \in BOOLEAN
  PROVE  Begun(l, status, complete) \in WireType
BY HeadersAre DEF Begun, WireType

\* The same of what the outermost layer answers to an exception.
LEMMA ErrorsBegunType ==
  ASSUME NEW complete \in BOOLEAN
  PROVE  Begun("errors", 500, complete) \in WireType
<1>1. "errors" \in Layer /\ 500 \in Nat
  BY NamesAreLayers
<1> QED BY <1>1, BegunType

LEMMA QuietTypes ==
  /\ NoRecord \in [status : Nat, traced : BOOLEAN]
  /\ Quiet \in [by : Layer \cup {"server"}, status : Nat, last : BOOLEAN]
  /\ Silence \in WireType
<1>1. NoRecord \in [status : Nat, traced : BOOLEAN]
  BY DEF NoRecord
<1>2. Quiet \in [by : Layer \cup {"server"}, status : Nat, last : BOOLEAN]
  BY DEF Quiet
<1>3. Silence \in WireType
  BY DEF Silence, WireType
<1> QED BY <1>1, <1>2, <1>3

----------------------------------------------------------------------------
(* What a request may come to                                              *)

\* The server is left with w.
LEMMA EndStep ==
  ASSUME PipelineInv, NEW w \in WireType, Finish(w), UNCHANGED <<req, received, seen>>,
         failed' \in BOOLEAN, garbled' \in BOOLEAN,
         w.by # "server" => w.headers = Headers(w.by, req),
         w.status = 413 => req.length > MaxBody \/ received > MaxBody,
         Len(log') = IF Wraps("logging", Answerer(req)) THEN 1 ELSE 0,
         log' # <<>> /\ ~garbled' =>
            /\ w.status > 0 /\ log'[1].status = w.status
            /\ log'[1].traced <=> "tracing" \in w.headers,
         ~failed' /\ ~garbled' => w.complete
  PROVE  PipelineInv'
<1>1. /\ phase' = "done" /\ out' = Quiet /\ UNCHANGED <<timer, record, errStarted>>
      /\ wire' = IF w.status = 0
                 THEN [by |-> "server", status |-> 500, headers |-> {}, complete |-> TRUE]
                 ELSE w
  BY DEF Finish
<1>2. wire' \in WireType
  BY <1>1 DEF WireType
<1>3. TypeOK'
  BY <1>1, <1>2 DEF PipelineInv, TypeOK, WireType, Quiet, timer
<1>4. WireInv'
  <2>1. seen' <= MaxBody
    BY DEF PipelineInv, WireInv
  <2>2. wire'.by # "server" => wire'.headers = Headers(wire'.by, req)
    BY <1>1
  <2>3. out'.status # 413
    BY <1>1 DEF Quiet
  <2>4. wire'.status = 413 => w.status = 413
    BY <1>1
  <2> QED BY <2>1, <2>2, <2>3, <2>4 DEF WireInv, Headers
<1>5. LogTruthful'
  <2>1. w.status > 0 => wire' = w
    BY <1>1 DEF WireType
  <2> QED BY <2>1 DEF LogTruthful
<1>6. CompleteUnlessExcused'
  BY <1>1 DEF CompleteUnlessExcused
<1>7. IdleInv' /\ RunningInv' /\ AppSendingInv' /\ RefusingInv' /\ ErrorsInv' /\ SenderInv' /\ DoneInv'
  BY <1>1 DEF IdleInv, RunningInv, AppSendingInv, RefusingInv, ErrorsInv, SenderInv, DoneInv
<1> QED BY <1>3, <1>4, <1>5, <1>6, <1>7 DEF PipelineInv

\* Layer l answers in the place of the application.
LEMMA RefusalStep ==
  ASSUME PipelineInv, NEW l \in Refusers, NEW status \in Nat \ {0}, StartResponse(l, status),
         UNCHANGED <<log, wire>>, log = <<>>,
         req' \in Request, received' \in Nat, seen' = seen,
         failed' \in BOOLEAN, garbled' \in BOOLEAN,
         \/ Answerer(req') = (IF l = "timeout" THEN "app" ELSE l)
         \/ l = "size" /\ Answerer(req') = "app",
         (wire = Silence /\ ~failed' /\ ~garbled') \/ (l = "size" /\ wire.status > 0),
         Wraps("logging", l) \/ record = NoRecord,
         wire.by # "server" => wire.headers = Headers(wire.by, req'),
         status = 413 \/ wire.status = 413 => req'.length > MaxBody \/ received' > MaxBody
  PROVE  PipelineInv'
<1>1. /\ l \in Layer /\ l # "app" /\ l # "errors" /\ status > 0
      /\ Wraps("logging", "tracing")
  BY NamesAreLayers, WrapsIs DEF Refusers
<1>2. /\ phase' = "sending" /\ out' = [by |-> l, status |-> status, last |-> FALSE]
      /\ errStarted'
      /\ record' = Noted(l, status)
  <2>1. phase' = "sending" /\ out' = [by |-> l, status |-> status, last |-> FALSE]
    BY DEF StartResponse
  <2>2. errStarted'
    BY <1>1, Zenon DEF StartResponse
  <2>3. ASSUME Wraps("logging", l) PROVE record' = Noted(l, status)
    <3>1. record' = [status |-> status,
                     traced |-> Wraps("logging", "tracing") /\ Wraps("tracing", l)]
      BY <2>3 DEF StartResponse
    <3>2. (Wraps("logging", "tracing") /\ Wraps("tracing", l)) = Wraps("tracing", l)
      BY <1>1, SMT DEF Wraps
    <3>3. record' = [status |-> status, traced |-> Wraps("tracing", l)]
      BY <3>1, <3>2, Zenon
    <3> QED BY <2>3, <3>3, Zenon DEF Noted
  <2>4. ASSUME ~Wraps("logging", l) PROVE record' = Noted(l, status)
    BY <2>4 DEF StartResponse, Noted
  <2> QED BY <2>1, <2>2, <2>3, <2>4
<1>3. TypeOK'
  BY <1>1, StartResponseType DEF PipelineInv, TypeOK
<1>4. WireInv'
  BY <1>2 DEF PipelineInv, WireInv
<1>5. RefusingInv'
  <2>1. Noted(l, status)' = Noted(l, status)
    BY DEF Noted
  <2>2. record' = Noted(out'.by, out'.status)
    BY <1>2
  <2>3. \/ Answerer(req') = (IF out'.by = "timeout" THEN "app" ELSE out'.by)
        \/ out'.by = "size" /\ Answerer(req') = "app"
    BY <1>2
  <2>4. (wire' = Silence /\ ~failed' /\ ~garbled') \/ (out'.by = "size" /\ wire'.status > 0)
    BY <1>2
  <2>5. log' = <<>> /\ errStarted' /\ out'.status > 0
    BY <1>1, <1>2
  <2> QED BY <2>2, <2>3, <2>4, <2>5 DEF RefusingInv, Noted
<1>6. IdleInv' /\ RunningInv' /\ AppSendingInv' /\ ErrorsInv' /\ SenderInv' /\ DoneInv'
  BY <1>1, <1>2 DEF IdleInv, RunningInv, AppSendingInv, ErrorsInv, SenderInv, DoneInv
<1>7. LogTruthful' /\ CompleteUnlessExcused'
  BY <1>2 DEF LogTruthful, CompleteUnlessExcused
<1> QED BY <1>3, <1>4, <1>5, <1>6, <1>7 DEF PipelineInv

\* An exception leaves layer l before anything has been sent.
LEMMA ErrorsStep ==
  ASSUME PipelineInv, NEW l \in {"tracing", "app"}, Raise(l), Untouched, log = <<>>,
         req' \in Request, Answerer(req') = l, UNCHANGED <<received, seen>>,
         ~failed', ~garbled', failed' \in BOOLEAN, garbled' \in BOOLEAN
  PROVE  PipelineInv'
<1>1. Wraps("logging", l) /\ l \in Layer
  BY NamesAreLayers, WrapsIs
<1>2. /\ phase' = "sending" /\ out' = [by |-> "errors", status |-> 500, last |-> FALSE]
      /\ UNCHANGED <<timer, record, errStarted, wire>>
      /\ log' = <<NoRecord>>
  BY <1>1 DEF Raise, Untouched, LogWhenLeft
<1>3. wire' = Silence /\ ~errStarted'
  BY <1>2 DEF Untouched
<1>4. TypeOK'
  BY <1>2, NamesAreLayers DEF PipelineInv, TypeOK, timer
<1>5. WireInv'
  BY <1>2, <1>3 DEF PipelineInv, WireInv, Silence
<1>6. ErrorsInv'
  BY <1>2, <1>3 DEF ErrorsInv, NoRecord
<1>7. IdleInv' /\ RunningInv' /\ AppSendingInv' /\ RefusingInv' /\ SenderInv' /\ DoneInv'
  BY <1>2 DEF IdleInv, RunningInv, AppSendingInv, RefusingInv, SenderInv, DoneInv, Refusers
<1>8. LogTruthful' /\ CompleteUnlessExcused'
  BY <1>2 DEF LogTruthful, CompleteUnlessExcused
<1> QED BY <1>4, <1>5, <1>6, <1>7, <1>8 DEF PipelineInv

\* What a response that the application has begun is like on the wire.
AppWire == wire = Begun("app", record.status, wire.complete) /\ record.traced /\ record.status > 0

\* The log is written of what the application has begun, or of less.
LEMMA AppEndStep ==
  ASSUME PipelineInv, NEW l \in {"app", "size", "timeout"}, LogWhenLeft(l, TRUE), Finish(wire),
         UNCHANGED <<req, received, seen>>, failed' \in BOOLEAN, garbled' \in BOOLEAN,
         log = <<>>, Wraps("logging", Answerer(req)),
         garbled' \/ AppWire, failed' \/ garbled' \/ wire.complete
  PROVE  PipelineInv'
<1>1. l \in Layer /\ Wraps("logging", l) /\ "app" \in Layer /\ Wraps("tracing", "app")
      /\ Wraps("logging", "app")
  BY NamesAreLayers, WrapsIs DEF Refusers
<1>2. log' = <<record>>
  BY <1>1 DEF LogWhenLeft
<1>3. Len(log') = 1 /\ log'[1] = record
  BY <1>2
<1>4. wire \in WireType
  BY DEF PipelineInv, TypeOK, WireType
<1>5. AppWire => wire.status > 0 /\ record.status = wire.status /\ record.traced
                 /\ "tracing" \in wire.headers
  BY <1>1, HeadersAre DEF AppWire, Begun
<1>6. /\ wire.by # "server" => wire.headers = Headers(wire.by, req)
      /\ wire.status = 413 => req.length > MaxBody \/ received > MaxBody
  BY DEF PipelineInv, WireInv
<1>7. ~garbled' => AppWire
  OBVIOUS
<1>8. log' # <<>> /\ ~garbled' =>
        /\ wire.status > 0 /\ log'[1].status = wire.status
        /\ log'[1].traced <=> "tracing" \in wire.headers
  BY <1>3, <1>5, <1>7
<1>9. Len(log') = IF Wraps("logging", Answerer(req)) THEN 1 ELSE 0
  BY <1>3
<1>10. ~failed' /\ ~garbled' => wire.complete
  OBVIOUS
<1> HIDE DEF AppWire
<1> QED BY <1>4, <1>6, <1>8, <1>9, <1>10, EndStep

\* The application is at work again: what it has sent is on the wire.
LEMMA WorkStep ==
  ASSUME PipelineInv, phase' = "running", out' = Quiet, UNCHANGED req, seen' \in Nat,
         received' \in Nat, seen' <= MaxBody, received' >= received,
         UNCHANGED <<timer, logging, errStarted, history>>, AppAtWork, wire' \in WireType,
         IF started THEN wire' = Begun("app", record.status, completed) ELSE wire' = Silence,
         wire'.status = 413 => req.length > MaxBody \/ received > MaxBody
  PROVE  PipelineInv'
<1>1. TypeOK'
  BY DEF PipelineInv, TypeOK, WireType, Quiet, timer, logging, history
<1>2. AppAtWork'
  <2>1. started \/ Untouched'
    BY DEF AppAtWork, Untouched, timer, logging
  <2> QED BY <2>1 DEF AppAtWork, Untouched, timer, logging, history
<1>3. RunningInv'
  BY <1>2 DEF RunningInv, timer, logging, Begun, Headers
<1>4. WireInv'
  <2>1. wire'.by # "server" => wire'.headers = Headers(wire'.by, req)
    BY DEF Begun, Silence
  <2>2. out'.status # 413
    BY DEF Quiet
  <2>3. Headers(wire.by, req)' = Headers(wire'.by, req)
    BY DEF Headers
  <2>4. wire'.status = 413 => req'.length > MaxBody \/ received' > MaxBody
    BY BodyAssumption DEF PipelineInv, TypeOK
  <2> QED BY <2>1, <2>2, <2>3, <2>4 DEF WireInv
<1>5. IdleInv' /\ AppSendingInv' /\ RefusingInv' /\ ErrorsInv' /\ SenderInv' /\ DoneInv'
  BY DEF IdleInv, AppSendingInv, RefusingInv, ErrorsInv, SenderInv, DoneInv
<1>6. LogTruthful' /\ CompleteUnlessExcused'
  BY DEF LogTruthful, CompleteUnlessExcused
<1> QED BY <1>1, <1>3, <1>4, <1>5, <1>6 DEF PipelineInv

\* The application sends.
LEMMA AppSendStep ==
  ASSUME PipelineInv, phase' = "sending", out'.by = "app",
         out' \in [by : {"app"}, status : Nat, last : BOOLEAN],
         UNCHANGED <<req, received, seen, log, wire, history>>, AppAtWork,
         started', errStarted', completed' \in BOOLEAN, started' \in BOOLEAN, errStarted' \in BOOLEAN,
         record' \in [status : Nat, traced : BOOLEAN], record'.traced, record'.status > 0,
         IF out'.status > 0
         THEN wire = Silence /\ out'.status = record'.status /\ ~completed'
         ELSE wire = Begun("app", record'.status, FALSE) /\ out'.last = completed',
         out'.status # 413
  PROVE  PipelineInv'
<1>1. TypeOK'
  BY NamesAreLayers DEF PipelineInv, TypeOK, history
<1>2. AppAtWork'
  BY DEF AppAtWork, history
<1>3. AppSendingInv'
  BY <1>2 DEF AppSendingInv, Begun, Headers
<1>4. WireInv'
  BY DEF PipelineInv, WireInv, Headers
<1>5. IdleInv' /\ RunningInv' /\ RefusingInv' /\ ErrorsInv' /\ SenderInv' /\ DoneInv'
  BY DEF IdleInv, RunningInv, RefusingInv, ErrorsInv, SenderInv, DoneInv, Refusers
<1>6. LogTruthful' /\ CompleteUnlessExcused'
  BY DEF LogTruthful, CompleteUnlessExcused
<1> QED BY <1>1, <1>3, <1>4, <1>5, <1>6 DEF PipelineInv

\* A layer other than the application closes a response.
LEMMA CloseStep ==
  ASSUME PipelineInv, NEW l \in Refusers, SendBody(l, TRUE),
         UNCHANGED <<req, received, seen, log>>, log = <<>>, errStarted,
         failed' \in BOOLEAN, garbled' \in BOOLEAN, wire' \in WireType,
         \/ Answerer(req) = (IF l = "timeout" THEN "app" ELSE l)
         \/ l = "size" /\ Answerer(req) = "app",
         \/ wire' = Begun(l, wire'.status, FALSE) /\ wire'.status > 0
            /\ record = Noted(l, wire'.status)
         \/ l = "timeout" /\ record.traced /\ record.status > 0
            /\ (wire' = Begun("app", record.status, FALSE) \/ (garbled' /\ wire' = Silence)),
         wire'.status = 413 => req.length > MaxBody \/ received > MaxBody
  PROVE  PipelineInv'
<1>1. /\ l \in Layer /\ l # "app" /\ l # "errors"
  BY NamesAreLayers DEF Refusers
<1>2. /\ phase' = "sending" /\ out' = [by |-> l, status |-> 0, last |-> TRUE]
      /\ UNCHANGED <<errStarted, started, record>>
  BY DEF SendBody
<1>3. TypeOK'
  BY <1>1, <1>2, SendBodyType DEF PipelineInv, TypeOK, WireType
<1>4. WireInv'
  <2>1. wire'.by # "server" => wire'.headers = Headers(wire'.by, req)
    BY DEF Begun, Silence
  <2>2. Headers(wire.by, req)' = Headers(wire'.by, req)
    BY DEF Headers
  <2> QED BY <1>2, <2>1, <2>2 DEF PipelineInv, WireInv
<1>5. RefusingInv'
  <2>1. out'.by = l /\ out'.status = 0 /\ out'.last
    BY <1>2
  <2>2. \/ wire' = Begun(out'.by, wire'.status, FALSE) /\ wire'.status > 0
           /\ record = Noted(out'.by, wire'.status)
        \/ out'.by = "timeout" /\ record.traced /\ record.status > 0
            /\ (wire' = Begun("app", record.status, FALSE) \/ (garbled' /\ wire' = Silence))
    BY <2>1
  <2>3. \/ Answerer(req) = (IF out'.by = "timeout" THEN "app" ELSE out'.by)
        \/ out'.by = "size" /\ Answerer(req) = "app"
    BY <2>1
  <2> QED BY <1>2, <2>1, <2>2, <2>3 DEF RefusingInv, Begun, Noted, Headers
<1>6. IdleInv' /\ RunningInv' /\ AppSendingInv' /\ ErrorsInv' /\ SenderInv' /\ DoneInv'
  BY <1>1, <1>2 DEF IdleInv, RunningInv, AppSendingInv, ErrorsInv, SenderInv, DoneInv
<1>7. LogTruthful' /\ CompleteUnlessExcused'
  BY <1>2 DEF LogTruthful, CompleteUnlessExcused
<1> QED BY <1>3, <1>4, <1>5, <1>6, <1>7 DEF PipelineInv

----------------------------------------------------------------------------
(* The steps of a request                                                  *)

LEMMA InitPipeline == Init => PipelineInv
<1> SUFFICES ASSUME Init PROVE PipelineInv
  OBVIOUS
<1>1. TypeOK
  <2>1. req \in Request
    BY DEF Init, Request
  <2> QED BY <2>1, QuietTypes DEF Init, TypeOK, WireType
<1>2. WireInv
  BY BodyAssumption DEF Init, WireInv, Quiet, Silence
<1>3. IdleInv
  BY DEF Init, IdleInv, Untouched
<1>4. /\ RunningInv /\ AppSendingInv /\ RefusingInv /\ ErrorsInv /\ SenderInv /\ DoneInv
      /\ LogTruthful /\ CompleteUnlessExcused
  BY DEF Init, RunningInv, AppSendingInv, RefusingInv, ErrorsInv, SenderInv, DoneInv, LogTruthful,
     CompleteUnlessExcused
<1> QED BY <1>1, <1>2, <1>3, <1>4 DEF PipelineInv

LEMMA ArriveStep == ASSUME PipelineInv, NEW r \in Request, Arrive(r) PROVE PipelineInv'
<1>1. /\ phase = "idle" /\ req' = r /\ UNCHANGED <<received, seen, history>>
      /\ Untouched /\ log = <<>> /\ out = Quiet /\ ~failed /\ ~garbled
  BY DEF Arrive, PipelineInv, IdleInv
<1>2. ~failed' /\ ~garbled' /\ failed' \in BOOLEAN /\ garbled' \in BOOLEAN /\ received' \in Nat
  BY <1>1 DEF history, PipelineInv, TypeOK
<1>3. CASE Answerer(r) = "app"
  <2>1. phase' = "running" /\ UNCHANGED <<timer, logging, errStarted, out, wire>>
    BY <1>3 DEF Arrive
  <2>2. TypeOK'
    BY <1>1, <2>1 DEF PipelineInv, TypeOK, timer, logging, history
  <2>3. Untouched' /\ log' = <<>> /\ out' = Quiet
    BY <1>1, <2>1 DEF Untouched, timer, logging
  <2>4. RunningInv'
    BY <1>1, <1>2, <1>3, <2>3 DEF RunningInv, AppAtWork, Untouched
  <2>5. WireInv'
    BY <1>1, <2>1 DEF PipelineInv, WireInv, Untouched, Silence, Quiet
  <2>6. /\ IdleInv' /\ AppSendingInv' /\ RefusingInv' /\ ErrorsInv' /\ SenderInv' /\ DoneInv'
        /\ LogTruthful' /\ CompleteUnlessExcused'
    BY <2>1 DEF IdleInv, AppSendingInv, RefusingInv, ErrorsInv, SenderInv, DoneInv, LogTruthful,
       CompleteUnlessExcused
  <2> QED BY <2>2, <2>4, <2>5, <2>6 DEF PipelineInv
<1>4. CASE Answerer(r) = "tracing"
  <2>1. Raise("tracing")
    BY <1>4 DEF Arrive
  <2> QED BY <1>1, <1>2, <1>4, <2>1, ErrorsStep
<1>5. CASE Answerer(r) \notin {"app", "tracing"}
  <2> DEFINE l == Answerer(r)
             status == Refusal(l, r)
  <2>1. StartResponse(l, status) /\ UNCHANGED <<log, wire>>
    BY <1>5 DEF Arrive
  <2>2. l \in Refusers /\ l # "timeout" /\ (l = "size" => Refused(r))
    BY <1>5, AnswererIs DEF Refusers
  <2>3. status \in Nat \ {0} /\ (status = 413 => l = "size" /\ r.length # NotInt)
    BY DEF Refusal
  <2>4. status = 413 => r.length > MaxBody
    BY <2>2, <2>3 DEF Refused, TooLong
  <2>5. wire = Silence /\ record = NoRecord /\ wire.status # 413 /\ wire.by = "server"
    BY <1>1 DEF Untouched, Silence
  <2>6. Answerer(req') = l
    BY <1>1
  <2> HIDE DEF l, status
  <2> QED BY <1>1, <1>2, <2>1, <2>2, <2>3, <2>4, <2>5, <2>6, RefusalStep
<1> QED BY <1>3, <1>4, <1>5

\* What the application does, it does while it is at work.
LEMMA AtWork ==
  ASSUME PipelineInv, phase = "running" \/ (phase = "sending" /\ out.by = "app")
  PROVE  /\ AppAtWork
         /\ Answerer(req) = "app" /\ Wraps("logging", Answerer(req)) /\ log = <<>>
         /\ ~failed /\ ~garbled
         /\ ~started => phase = "running" /\ Untouched
         /\ phase = "running" /\ started => AppWire /\ wire.complete = completed
         /\ started => record.traced /\ record.status > 0 /\ errStarted
         /\ started => wire = Silence \/ wire = Begun("app", record.status, wire.complete)
         /\ phase = "sending" /\ ~completed => wire = Silence \/ wire = Begun("app", record.status, FALSE)
<1>1. AppAtWork
  BY DEF PipelineInv, RunningInv, AppSendingInv
<1>2. Wraps("logging", "app")
  BY NamesAreLayers, WrapsIs
<1>3. ~started => phase = "running"
  BY DEF PipelineInv, AppSendingInv
<1>4. phase = "running" /\ started => wire = Begun("app", record.status, completed)
  BY DEF PipelineInv, RunningInv
<1>5. phase = "sending" => wire = Silence \/ wire = Begun("app", record.status, FALSE)
  BY DEF PipelineInv, AppSendingInv
<1>6. phase = "running" /\ started => AppWire /\ wire.complete = completed
  BY <1>1, <1>4 DEF AppWire, AppAtWork, Begun
<1>7. started => wire = Silence \/ wire = Begun("app", record.status, wire.complete)
  BY <1>4, <1>5 DEF Begun
<1> QED BY <1>1, <1>2, <1>3, <1>5, <1>6, <1>7 DEF AppAtWork

LEMMA ReadStep ==
  ASSUME PipelineInv, NEW n \in 1..(MaxBody + 1), Read(n) \/ ReadTooMuch(n)
  PROVE  PipelineInv'
<1>1. /\ phase = "running" /\ phase' = phase /\ out' = out /\ wire' = wire
      /\ received' = received + n /\ UNCHANGED req
      /\ UNCHANGED <<timer, logging, errStarted, history>>
      /\ seen' = seen \/ (seen' = received + n /\ ~TooLong(received + n))
  BY DEF Read, ReadTooMuch, Readable
<1>2. MaxBody \in Nat /\ n \in Nat /\ received \in Nat /\ seen \in Nat /\ seen <= MaxBody
  BY BodyAssumption DEF PipelineInv, TypeOK, WireInv
<1>3. received' \in Nat /\ received' >= received /\ seen' \in Nat /\ seen' <= MaxBody
  BY <1>1, <1>2 DEF TooLong
<1>4. out' = Quiet /\ AppAtWork
  BY <1>1 DEF PipelineInv, RunningInv
<1>5. wire' \in WireType
  BY <1>1 DEF PipelineInv, TypeOK, WireType
<1>6. IF started THEN wire' = Begun("app", record.status, completed) ELSE wire' = Silence
  BY <1>1, <1>4 DEF PipelineInv, RunningInv, AppAtWork, Untouched
<1>7. wire'.status = 413 => req.length > MaxBody \/ received > MaxBody
  BY <1>1 DEF PipelineInv, WireInv
<1> QED BY <1>1, <1>3, <1>4, <1>5, <1>6, <1>7, WorkStep

LEMMA OverflowStep ==
  ASSUME PipelineInv, NEW n \in 1..(MaxBody + 1), Overflow(n)
  PROVE  PipelineInv'
<1>1. /\ phase = "running" /\ received' = received + n /\ TooLong(received + n)
      /\ failed' = started /\ StartResponse("size", 413)
      /\ UNCHANGED <<req, seen, log, wire, garbled>>
  BY DEF Overflow, Readable
<1>2. /\ Answerer(req) = "app" /\ log = <<>> /\ ~garbled /\ (~started => Untouched)
      /\ started => AppWire
  BY <1>1, AtWork
<1>3. /\ received' \in Nat /\ received' > MaxBody /\ failed' \in BOOLEAN /\ garbled' \in BOOLEAN
      /\ req' \in Request
  BY <1>1, BodyAssumption DEF PipelineInv, TypeOK, TooLong
<1>4. (wire = Silence /\ ~failed' /\ ~garbled') \/ wire.status > 0
  <2>1. CASE started
    BY <1>2, <2>1 DEF AppWire, Begun
  <2>2. CASE ~started
    BY <1>1, <1>2, <2>2 DEF Untouched
  <2> QED BY <2>1, <2>2
<1>5. Wraps("logging", "size") /\ "size" \in Refusers
  BY NamesAreLayers, WrapsIs DEF Refusers
<1>6. wire.by # "server" => wire.headers = Headers(wire.by, req')
  BY <1>1 DEF PipelineInv, WireInv
<1> QED BY <1>1, <1>2, <1>3, <1>4, <1>5, <1>6, RefusalStep

LEMMA AppStartStep ==
  ASSUME PipelineInv, NEW status \in AppStatus, AppStart(status)
  PROVE  PipelineInv'
<1>1. /\ phase = "running" /\ ~started /\ StartResponse("app", status)
      /\ UNCHANGED <<req, received, seen, log, wire, history>>
  BY DEF AppStart
<1>2. AppAtWork /\ Untouched
  BY <1>1, AtWork
<1>3. status \in Nat /\ status > 0 /\ status # 413
  BY StatusAssumption
<1>4. "app" \in Layer /\ Wraps("timeout", "app") /\ Wraps("logging", "app") /\ Wraps("tracing", "app")
      /\ Wraps("logging", "tracing")
  BY NamesAreLayers, WrapsIs
<1>5. /\ phase' = "sending" /\ out' = [by |-> "app", status |-> status, last |-> FALSE]
      /\ completed' = completed
  BY <1>1 DEF StartResponse
<1>6. started' = TRUE /\ errStarted' = TRUE
  BY <1>1, <1>4, Zenon DEF StartResponse
<1>7. record' = [status |-> status, traced |-> TRUE]
  <2>1. record' = [status |-> status, traced |-> Wraps("logging", "tracing") /\ Wraps("tracing", "app")]
    BY <1>1, <1>4 DEF StartResponse
  <2>2. (Wraps("logging", "tracing") /\ Wraps("tracing", "app")) = TRUE
    BY <1>4, SMT DEF Wraps
  <2> QED BY <2>1, <2>2, Zenon
<1>8. wire = Silence /\ ~completed'
  BY <1>2, <1>5 DEF Untouched
<1>9. out' \in [by : {"app"}, status : Nat, last : BOOLEAN] /\ out'.by = "app" /\ out'.status = status
  BY <1>3, <1>5
<1>10. record' \in [status : Nat, traced : BOOLEAN] /\ record'.traced /\ record'.status = status
  BY <1>3, <1>7
<1>11. completed' \in BOOLEAN
  BY <1>5 DEF PipelineInv, TypeOK
<1> QED BY <1>1, <1>2, <1>3, <1>5, <1>6, <1>8, <1>9, <1>10, <1>11, AppSendStep

LEMMA AppBodyStep ==
  ASSUME PipelineInv, NEW last \in BOOLEAN, AppBody(last)
  PROVE  PipelineInv'
<1>1. /\ phase = "running" /\ started /\ ~completed /\ SendBody("app", last)
      /\ UNCHANGED <<req, received, seen, log, wire, history>>
  BY DEF AppBody
<1>2. AppAtWork /\ record.traced /\ record.status > 0 /\ errStarted
  BY <1>1, AtWork
<1>3. wire = Begun("app", record.status, FALSE)
  <2>1. wire = Begun("app", record.status, completed)
    BY <1>1 DEF PipelineInv, RunningInv
  <2>2. completed = FALSE
    BY <1>1 DEF PipelineInv, TypeOK
  <2> QED BY <2>1, <2>2
<1>4. "app" \in Layer /\ Wraps("timeout", "app")
  BY NamesAreLayers, WrapsIs
<1>5. /\ phase' = "sending" /\ out' = [by |-> "app", status |-> 0, last |-> last]
      /\ UNCHANGED <<errStarted, started, record>>
  BY <1>1 DEF SendBody
<1>6. completed' = last
  <2>1. completed' = (completed \/ (last /\ Wraps("timeout", "app")))
    BY <1>1 DEF SendBody
  <2>2. CASE last = TRUE
    BY <1>4, <2>1, <2>2, Zenon
  <2>3. CASE last = FALSE
    BY <1>1, <2>1, <2>3, Zenon
  <2> QED BY <2>2, <2>3
<1>7. out' \in [by : {"app"}, status : Nat, last : BOOLEAN] /\ out'.by = "app" /\ out'.status = 0
      /\ out'.last = last
  BY <1>5
<1>8. /\ started' /\ errStarted' /\ completed' \in BOOLEAN /\ started' \in BOOLEAN
      /\ errStarted' \in BOOLEAN /\ record' = record /\ record' \in [status : Nat, traced : BOOLEAN]
  BY <1>1, <1>2, <1>5, <1>6 DEF PipelineInv, TypeOK
<1> QED BY <1>1, <1>2, <1>3, <1>5, <1>6, <1>7, <1>8, AppSendStep

LEMMA AppReturnStep == ASSUME PipelineInv, AppReturn PROVE PipelineInv'
<1>1. /\ phase = "running" /\ completed /\ LogWhenLeft("app", FALSE) /\ Finish(wire)
      /\ UNCHANGED <<req, received, seen, history>>
  BY DEF AppReturn, Return
<1>2. /\ log = <<>> /\ Wraps("logging", Answerer(req)) /\ (~started => Untouched)
      /\ started => AppWire /\ wire.complete = completed
  BY <1>1, AtWork
<1>3. AppWire /\ wire.complete
  BY <1>1, <1>2 DEF Untouched
<1>4. failed' \in BOOLEAN /\ garbled' \in BOOLEAN /\ LogWhenLeft("app", TRUE)
  BY <1>1 DEF history, PipelineInv, TypeOK, LogWhenLeft
<1> QED BY <1>1, <1>2, <1>3, <1>4, AppEndStep

LEMMA AppRaiseStep == ASSUME PipelineInv, AppRaise PROVE PipelineInv'
<1>1. /\ phase = "running" /\ Raise("app") /\ failed' = started
      /\ UNCHANGED <<req, received, seen, garbled>>
  BY DEF AppRaise
<1>2. /\ Answerer(req) = "app" /\ log = <<>> /\ Wraps("logging", Answerer(req)) /\ ~garbled
      /\ (~started => Untouched) /\ (started => AppWire /\ errStarted)
  BY <1>1, AtWork
<1>3. failed' \in BOOLEAN /\ garbled' \in BOOLEAN /\ req' \in Request
  BY <1>1 DEF PipelineInv, TypeOK
<1>4. CASE started
  <2>1. LogWhenLeft("app", TRUE) /\ Finish(wire)
    BY <1>1, <1>2, <1>4 DEF Raise
  <2> QED BY <1>1, <1>2, <1>3, <1>4, <2>1, AppEndStep
<1>5. CASE ~started
  BY <1>1, <1>2, <1>3, <1>5, ErrorsStep
<1> QED BY <1>4, <1>5

\* A TimeoutError reaches TimeoutMiddleware.
LEMMA TimedOutStep ==
  ASSUME PipelineInv, phase = "running" \/ (phase = "sending" /\ out.by = "app"), TimedOut,
         UNCHANGED <<req, received, seen>>, failed' \in BOOLEAN, garbled' \in BOOLEAN,
         phase = "sending" => garbled', ~started => ~failed' /\ ~garbled'
  PROVE  PipelineInv'
<1>1. /\ AppAtWork /\ Answerer(req) = "app" /\ Wraps("logging", Answerer(req)) /\ log = <<>>
      /\ ~started => phase = "running" /\ Untouched
      /\ phase = "running" /\ started => AppWire /\ wire.complete = completed
      /\ started => record.traced /\ record.status > 0 /\ errStarted
      /\ phase = "sending" /\ ~completed => wire = Silence \/ wire = Begun("app", record.status, FALSE)
  BY AtWork
<1>2. "timeout" \in Refusers /\ Wraps("logging", "timeout")
  BY NamesAreLayers, WrapsIs DEF Refusers
<1>3. CASE started /\ completed
  <2>1. LogWhenLeft("timeout", FALSE) /\ Finish(wire)
    BY <1>3 DEF TimedOut, Return
  <2>2. LogWhenLeft("timeout", TRUE)
    BY <2>1 DEF LogWhenLeft
  <2>3. (garbled' \/ AppWire) /\ (failed' \/ garbled' \/ wire.complete)
    BY <1>1, <1>3
  <2> QED BY <1>1, <2>1, <2>2, <2>3, AppEndStep
<1>4. CASE started /\ ~completed
  <2>1. SendBody("timeout", TRUE) /\ UNCHANGED <<log, wire>>
    BY <1>4 DEF TimedOut
  <2>2. wire' \in WireType /\ (wire'.status = 413 => req.length > MaxBody \/ received > MaxBody)
    BY <2>1 DEF PipelineInv, TypeOK, WireType, WireInv
  <2>3. wire' = Begun("app", record.status, FALSE) \/ (garbled' /\ wire' = Silence)
    <3>1. CASE phase = "running"
      <4>1. wire = Begun("app", record.status, completed)
        BY <1>4, <3>1 DEF PipelineInv, RunningInv
      <4>2. completed = FALSE
        BY <1>4 DEF PipelineInv, TypeOK
      <4> QED BY <2>1, <4>1, <4>2
    <3>2. CASE phase = "sending"
      BY <1>1, <1>4, <2>1, <3>2
    <3> QED BY <3>1, <3>2
  <2> QED BY <1>1, <1>2, <1>4, <2>1, <2>2, <2>3, CloseStep
<1>5. CASE ~started
  <2>1. StartResponse("timeout", 504) /\ UNCHANGED <<log, wire>>
    BY <1>5 DEF TimedOut
  <2>2. wire = Silence /\ wire.by = "server" /\ wire.status # 413
    BY <1>1, <1>5 DEF Untouched, Silence
  <2>3. req' \in Request /\ received' \in Nat
    BY DEF PipelineInv, TypeOK
  <2> QED BY <1>1, <1>2, <1>5, <2>1, <2>2, <2>3, RefusalStep
<1> QED BY <1>3, <1>4, <1>5

LEMMA AppTimeoutStep == ASSUME PipelineInv, AppTimeout PROVE PipelineInv'
<1>1. /\ phase = "running" /\ TimedOut /\ failed' = started
      /\ UNCHANGED <<req, received, seen, garbled>>
  BY DEF AppTimeout
<1>2. failed' \in BOOLEAN /\ garbled' \in BOOLEAN /\ (~started => ~failed' /\ ~garbled')
  BY <1>1, AtWork DEF PipelineInv, TypeOK
<1> QED BY <1>1, <1>2, TimedOutStep

LEMMA ExpireStep == ASSUME PipelineInv, Expire PROVE PipelineInv'
<1>1. /\ phase = "running" \/ (phase = "sending" /\ out.by = "app")
      /\ TimedOut /\ garbled' = (phase = "sending")
      /\ UNCHANGED <<req, received, seen, failed>>
  BY DEF Expire
<1>2. ~started => phase = "running"
  BY <1>1, AtWork
<1>3. ~failed
  BY <1>1, AtWork
<1>4. failed' \in BOOLEAN /\ garbled' \in BOOLEAN /\ (phase = "sending" => garbled')
      /\ (~started => ~failed' /\ ~garbled')
  BY <1>1, <1>2, <1>3 DEF PipelineInv, TypeOK
<1> QED BY <1>1, <1>4, TimedOutStep

LEMMA RefuseStep == ASSUME PipelineInv, Refuse PROVE PipelineInv'
<1> DEFINE l == out.by
<1>1. /\ phase = "sending" /\ ~Acceptable /\ Raise(l) /\ garbled' = TRUE
      /\ UNCHANGED <<req, received, seen, failed>>
  BY DEF Refuse
<1>2. l # "app"
  BY <1>1 DEF PipelineInv, AppSendingInv, AppAtWork, Acceptable, Begun, Silence
<1>3. l # "errors"
  BY <1>1 DEF PipelineInv, ErrorsInv, Acceptable, Begun, Silence
<1>4. l \in Refusers
  BY <1>1, <1>2, <1>3 DEF PipelineInv, SenderInv
<1>5. /\ log = <<>> /\ errStarted
      /\ \/ Answerer(req) = (IF l = "timeout" THEN "app" ELSE l)
         \/ l = "size" /\ Answerer(req) = "app"
  BY <1>1, <1>4 DEF PipelineInv, RefusingInv
<1>6. LogWhenLeft(l, TRUE) /\ Finish(wire)
  BY <1>1, <1>5 DEF Raise
<1>7. Wraps("logging", l) <=> Wraps("logging", Answerer(req))
  BY <1>4, <1>5, NamesAreLayers, WrapsIs DEF Refusers
<1>8. Len(log') = IF Wraps("logging", Answerer(req)) THEN 1 ELSE 0
  <2>1. CASE Wraps("logging", l)
    <3>1. log' = <<record>>
      BY <1>5, <1>6, <2>1 DEF LogWhenLeft
    <3> QED BY <1>7, <2>1, <3>1
  <2>2. CASE ~Wraps("logging", l)
    <3>1. log' = <<>>
      BY <1>5, <1>6, <2>2 DEF LogWhenLeft
    <3> QED BY <1>7, <2>2, <3>1
  <2> QED BY <2>1, <2>2
<1>9. /\ wire \in WireType /\ failed' \in BOOLEAN /\ garbled' \in BOOLEAN
      /\ wire.by # "server" => wire.headers = Headers(wire.by, req)
      /\ wire.status = 413 => req.length > MaxBody \/ received > MaxBody
  BY <1>1 DEF PipelineInv, TypeOK, WireInv, WireType
<1> QED BY <1>1, <1>6, <1>8, <1>9, EndStep

\* The server writes a message of the application's.
LEMMA DeliverAppStep == ASSUME PipelineInv, Deliver, out.by = "app" PROVE PipelineInv'
<1>1. /\ phase = "sending" /\ phase' = "running" /\ out' = Quiet /\ wire' = Written
      /\ UNCHANGED <<timer, logging, errStarted, req, received, seen, history>>
  BY DEF Deliver
<1>2. /\ AppAtWork /\ started
      /\ IF out.status > 0
         THEN wire = Silence /\ out.status = record.status /\ ~completed
         ELSE wire = Begun("app", record.status, FALSE) /\ out.last = completed
  BY <1>1 DEF PipelineInv, AppSendingInv
<1>3. completed \in BOOLEAN /\ record.status \in Nat /\ seen \in Nat /\ received \in Nat
  BY DEF PipelineInv, TypeOK
<1>4. wire' = Begun("app", record.status, completed)
  <2>1. CASE out.status > 0
    <3>1. completed = FALSE
      BY <1>2, <1>3, <2>1
    <3> QED BY <1>1, <1>2, <2>1, <3>1 DEF Written, Begun
  <2>2. CASE ~ out.status > 0
    BY <1>1, <1>2, <2>2 DEF Written, Begun
  <2> QED BY <2>1, <2>2
<1>5. wire' \in WireType
  BY <1>3, <1>4, BegunType, NamesAreLayers
<1>6. wire'.status = 413 => req.length > MaxBody \/ received > MaxBody
  <2>1. wire'.status = record.status
    BY <1>4 DEF Begun
  <2>2. record.status = out.status \/ record.status = wire.status
    BY <1>2 DEF Begun
  <2> QED BY <2>1, <2>2 DEF PipelineInv, WireInv
<1>7. seen <= MaxBody /\ received' >= received
  BY <1>1, <1>3 DEF PipelineInv, WireInv
<1> QED BY <1>1, <1>2, <1>3, <1>4, <1>5, <1>6, <1>7, WorkStep

\* The server writes a message of a layer that answers or closes a response.
LEMMA DeliverRefusalStep == ASSUME PipelineInv, Deliver, out.by \in Refusers PROVE PipelineInv'
<1> DEFINE l == out.by
<1>1. /\ phase = "sending" /\ Acceptable /\ l # "app" /\ l \in Layer
      /\ UNCHANGED <<req, received, seen, history>>
  BY NamesAreLayers DEF Deliver, Refusers
<1>2. /\ log = <<>> /\ errStarted
      /\ \/ Answerer(req) = (IF l = "timeout" THEN "app" ELSE l)
         \/ l = "size" /\ Answerer(req) = "app"
  BY <1>1 DEF PipelineInv, RefusingInv
<1>3. failed' \in BOOLEAN /\ garbled' \in BOOLEAN /\ out.status \in Nat
  BY <1>1 DEF PipelineInv, TypeOK, history
<1>4. CASE out.status > 0
  <2>1. SendBody(l, TRUE) /\ wire' = Written /\ log' = log
    BY <1>1, <1>4 DEF Deliver
  <2>2. wire' = Begun(l, out.status, FALSE)
    BY <1>4, <2>1 DEF Written, Begun
  <2>3. record = Noted(l, out.status)
    BY <1>1, <1>4 DEF PipelineInv, RefusingInv
  <2>4. wire' \in WireType
    BY <1>1, <1>3, <2>2, BegunType
  <2>5. wire'.status = out.status
    BY <2>2 DEF Begun
  <2>6. wire'.status = 413 => req.length > MaxBody \/ received > MaxBody
    BY <2>5 DEF PipelineInv, WireInv
  <2> QED BY <1>1, <1>2, <1>3, <1>4, <2>1, <2>2, <2>3, <2>4, <2>5, <2>6, CloseStep
<1>5. CASE ~ out.status > 0
  <2> DEFINE w == Written
  <2>1. LogWhenLeft(l, FALSE) /\ Finish(w)
    BY <1>1, <1>5 DEF Deliver, Return
  <2>2. wire.status > 0 /\ w = [wire EXCEPT !.complete = out.last] /\ out.last
    BY <1>1, <1>5 DEF Acceptable, Written, PipelineInv, RefusingInv
  <2>3. /\ w \in WireType /\ w.by = wire.by /\ w.status = wire.status /\ w.headers = wire.headers
        /\ w.complete
    BY <2>2 DEF PipelineInv, TypeOK, WireType
  <2> HIDE DEF w
  <2>4. /\ w.by # "server" => w.headers = Headers(w.by, req)
        /\ w.status = 413 => req.length > MaxBody \/ received > MaxBody
    BY <2>3 DEF PipelineInv, WireInv
  <2>5. Wraps("logging", l) <=> Wraps("logging", Answerer(req))
    BY <1>2, NamesAreLayers, WrapsIs DEF Refusers
  <2>6. CASE Wraps("logging", l)
    <3>1. log' = <<record>>
      BY <1>2, <2>1, <2>6 DEF LogWhenLeft
    <3>2. record.status = wire.status /\ (record.traced <=> "tracing" \in wire.headers)
      <4>1. \/ wire = Begun(l, wire.status, FALSE) /\ record = Noted(l, wire.status)
            \/ /\ record.traced /\ record.status > 0
               /\ wire = Begun("app", record.status, FALSE) \/ wire = Silence
        BY <1>1, <1>5 DEF PipelineInv, RefusingInv
      <4>2. CASE wire = Begun(l, wire.status, FALSE) /\ record = Noted(l, wire.status)
        <5>1. wire.headers = Headers(l, req)
          BY <4>2 DEF Begun
        <5>2. record = [status |-> wire.status, traced |-> Wraps("tracing", l)]
          BY <2>6, <4>2, Zenon DEF Noted
        <5>3. "tracing" \in Headers(l, req) <=> Wraps("tracing", l)
          BY <1>1, <2>6, HeadersAre
        <5> QED BY <5>1, <5>2, <5>3
      <4>3. CASE record.traced /\ wire = Begun("app", record.status, FALSE)
        <5>1. wire.headers = Headers("app", req) /\ wire.status = record.status
          BY <4>3 DEF Begun
        <5>2. "tracing" \in Headers("app", req)
          BY NamesAreLayers, HeadersAre
        <5> QED BY <4>3, <5>1, <5>2
      <4>4. wire # Silence
        BY <2>2 DEF Silence
      <4> QED BY <4>1, <4>2, <4>3, <4>4
    <3>3. Len(log') = 1 /\ log'[1] = record
      BY <3>1
    <3> QED BY <1>1, <1>3, <2>1, <2>2, <2>3, <2>4, <2>5, <2>6, <3>2, <3>3, EndStep
  <2>7. CASE ~ Wraps("logging", l)
    <3>1. log' = <<>> /\ Len(log') = 0
      BY <1>2, <2>1, <2>7 DEF LogWhenLeft
    <3> QED BY <1>1, <1>3, <2>1, <2>3, <2>4, <2>5, <2>7, <3>1, EndStep
  <2> QED BY <2>6, <2>7
<1> QED BY <1>4, <1>5

\* The server writes a message of the outermost layer.
LEMMA DeliverErrorsStep == ASSUME PipelineInv, Deliver, out.by = "errors" PROVE PipelineInv'
<1>1. /\ phase = "sending" /\ Acceptable /\ UNCHANGED <<req, received, seen, history>>
  BY DEF Deliver
<1>2. /\ ~errStarted /\ ~failed /\ ~garbled /\ Answerer(req) \in {"tracing", "app"}
      /\ log = <<NoRecord>>
      /\ IF out.status > 0 THEN out.status = 500 /\ wire = Silence
         ELSE out.last /\ wire = Begun("errors", 500, FALSE)
  BY <1>1 DEF PipelineInv, ErrorsInv
<1>3. /\ "errors" \in Layer /\ ~Wraps("logging", "errors") /\ Headers("errors", req) = {}
      /\ Wraps("logging", Answerer(req))
  <2>1. \A k \in Layer : ~Wraps(k, "errors")
    BY LayerIs, DepthIs DEF Wraps, Layers
  <2>2. "security" \in Layer /\ "tracing" \in Layer /\ "quota" \in Layer /\ "logging" \in Layer
    BY LayerIs DEF Layers
  <2>3. Headers("errors", req) = {}
    BY <2>1, <2>2 DEF Headers
  <2> QED BY <1>2, <2>1, <2>2, <2>3, NamesAreLayers, WrapsIs
<1>4. failed' = failed /\ garbled' = garbled /\ failed \in BOOLEAN /\ garbled \in BOOLEAN
  BY <1>1 DEF PipelineInv, TypeOK, history
<1>5. CASE out.status > 0
  <2>1. SendBody("errors", TRUE) /\ wire' = Written /\ log' = log
    BY <1>5 DEF Deliver
  <2>2. wire' = Begun("errors", 500, FALSE)
    BY <1>2, <1>5, <2>1 DEF Written, Begun
  <2>3. /\ phase' = "sending" /\ out' = [by |-> "errors", status |-> 0, last |-> TRUE]
        /\ UNCHANGED <<errStarted, started, record>>
    BY <2>1 DEF SendBody
  <2>4. TypeOK'
    <3>1. wire' \in WireType
      BY <2>2, ErrorsBegunType
    <3> QED BY <1>1, <1>3, <1>4, <2>1, <3>1, SendBodyType DEF PipelineInv, TypeOK, WireType
  <2>5. ErrorsInv'
    BY <1>1, <1>2, <1>4, <2>1, <2>2, <2>3 DEF ErrorsInv, Begun, Headers
  <2>6. WireInv'
    <3>1. wire'.headers = Headers(wire'.by, req) /\ wire'.status = 500
      BY <2>2 DEF Begun
    <3>2. Headers(wire.by, req)' = Headers(wire'.by, req)
      BY <1>1 DEF Headers
    <3> QED BY <1>1, <2>3, <3>1, <3>2 DEF PipelineInv, WireInv
  <2>7. /\ IdleInv' /\ RunningInv' /\ AppSendingInv' /\ RefusingInv' /\ SenderInv' /\ DoneInv'
        /\ LogTruthful' /\ CompleteUnlessExcused'
    BY <2>3 DEF IdleInv, RunningInv, AppSendingInv, RefusingInv, SenderInv, DoneInv, LogTruthful,
       CompleteUnlessExcused, Refusers
  <2> QED BY <2>4, <2>5, <2>6, <2>7 DEF PipelineInv
<1>6. CASE ~ out.status > 0
  <2> DEFINE w == Written
  <2>1. LogWhenLeft("errors", FALSE) /\ Finish(w)
    BY <1>6 DEF Deliver, Return
  <2>2. w = [wire EXCEPT !.complete = TRUE]
    <3>1. out.last = TRUE
      BY <1>2, <1>6 DEF PipelineInv, TypeOK
    <3> QED BY <1>6, <3>1 DEF Written
  <2> HIDE DEF w
  <2>3. w = Begun("errors", 500, TRUE)
    <3>1. wire = Begun("errors", 500, FALSE)
      BY <1>2, <1>6
    <3> QED BY <2>2, <3>1 DEF Begun
  <2>4. /\ w \in WireType /\ w.by = "errors" /\ w.status = 500 /\ w.headers = Headers("errors", req)
        /\ w.headers = {} /\ w.complete
    <3>1. w \in WireType
      BY <2>3, ErrorsBegunType
    <3>2. w.by = "errors" /\ w.status = 500 /\ w.headers = Headers("errors", req) /\ w.complete
      BY <2>3 DEF Begun
    <3> QED BY <1>3, <3>1, <3>2
  <2>5. log' = <<NoRecord>>
    BY <1>2, <1>3, <2>1 DEF LogWhenLeft
  <2>6. Len(log') = 1 /\ log'[1].status = 500 /\ ~log'[1].traced
    BY <2>5 DEF NoRecord
  <2> QED BY <1>1, <1>3, <1>4, <2>1, <2>4, <2>6, EndStep
<1> QED BY <1>5, <1>6

LEMMA LeaveStep == ASSUME PipelineInv, Leave PROVE PipelineInv'
<1>1. /\ phase = "done" /\ phase' = "idle" /\ out' = out /\ seen' = 0 /\ received' = 0
      /\ req' = [host |-> TRUE, preflight |-> "none", decodable |-> TRUE,
                 quota |-> "exempt", length |-> Absent]
      /\ started' = FALSE /\ completed' = FALSE /\ record' = NoRecord /\ log' = <<>>
      /\ errStarted' = FALSE /\ wire' = Silence /\ failed' = FALSE /\ garbled' = FALSE
  BY DEF Leave
<1>2. out = Quiet
  BY <1>1 DEF PipelineInv, DoneInv
<1>3. TypeOK'
  <2>1. req' \in Request
    BY <1>1 DEF Request
  <2> QED BY <1>1, <1>2, <2>1, QuietTypes DEF TypeOK, WireType
<1>4. WireInv'
  BY <1>1, <1>2, BodyAssumption DEF WireInv, Quiet, Silence
<1>5. IdleInv'
  BY <1>1, <1>2 DEF IdleInv, Untouched
<1>6. /\ RunningInv' /\ AppSendingInv' /\ RefusingInv' /\ ErrorsInv' /\ SenderInv' /\ DoneInv'
      /\ LogTruthful' /\ CompleteUnlessExcused'
  BY <1>1 DEF RunningInv, AppSendingInv, RefusingInv, ErrorsInv, SenderInv, DoneInv, LogTruthful,
     CompleteUnlessExcused
<1> QED BY <1>3, <1>4, <1>5, <1>6 DEF PipelineInv

LEMMA NextPipeline == PipelineInv /\ [Next]_vars => PipelineInv'
<1> SUFFICES ASSUME PipelineInv, [Next]_vars PROVE PipelineInv'
  OBVIOUS
<1>1. CASE Deliver
  <2>1. out.by \in Refusers \cup {"app", "errors"}
    BY <1>1 DEF Deliver, PipelineInv, SenderInv
  <2> QED BY <1>1, <2>1, DeliverAppStep, DeliverRefusalStep, DeliverErrorsStep
<1>2. CASE UNCHANGED vars
  BY <1>2 DEF vars, timer, logging, history, PipelineInv, TypeOK, IdleInv, RunningInv,
     AppSendingInv, RefusingInv, ErrorsInv, SenderInv, DoneInv, WireInv, LogTruthful,
     CompleteUnlessExcused, AppAtWork, Untouched, Begun, Noted, Headers
<1> QED BY <1>1, <1>2, ArriveStep, ReadStep, OverflowStep, AppStartStep, AppBodyStep, AppReturnStep,
     AppRaiseStep, AppTimeoutStep, ExpireStep, RefuseStep, LeaveStep DEF Next

\* How flags, record, log and wire agree at every point of a request's way.
THEOREM PipelineInvariance == Spec => []PipelineInv
<1> QED BY InitPipeline, NextPipeline, PTL DEF Spec

\* Every request that passes host validation is logged exactly once, with the
\* status and the request ID the client got, unless a message was cut off or
\* refused (RequestLoggingMiddleware, TimeoutMiddleware, BodySizeLimitMiddleware).
THEOREM LogIsTruthful == Spec => []LogTruthful
<1>1. PipelineInv => LogTruthful
  BY DEF PipelineInv
<1> QED BY <1>1, PipelineInvariance, PTL

\* What the layers inside the request ID answer carries the headers of the
\* application's own answers (setup_middleware).
THEOREM RefusalsAreAnnotated == Spec => []RefusalsAnnotated
<1>1. PipelineInv => RefusalsAnnotated
  <2> SUFFICES ASSUME PipelineInv, wire.by \in {"quota", "size", "timeout", "app"}
               PROVE  /\ {"security", "tracing"} \subseteq wire.headers
                      /\ req.quota # "exempt" => "quota" \in wire.headers
    BY DEF RefusalsAnnotated
  <2>1. wire.headers = Headers(wire.by, req)
    BY DEF PipelineInv, WireInv
  <2>2. wire.by \in Layer
    BY LayerIs DEF Layers
  <2> QED BY <2>1, <2>2, HeadersAre
<1> QED BY <1>1, PipelineInvariance, PTL

\* A client gets a complete response, unless the application failed after it
\* had started, or a message was cut off (TimeoutMiddleware).
THEOREM ResponsesAreComplete == Spec => []CompleteUnlessExcused
<1>1. PipelineInv => CompleteUnlessExcused
  BY DEF PipelineInv
<1> QED BY <1>1, PipelineInvariance, PTL

\* The application is never given more than the limit, and 413 goes only to a
\* client that declared or sent more (BodySizeLimitMiddleware).
THEOREM BodyIsBounded == Spec => []BodyBounded
<1>1. PipelineInv => BodyBounded
  BY DEF PipelineInv, WireInv, BodyBounded
<1> QED BY <1>1, PipelineInvariance, PTL
================================================================================
