-------------------------------- MODULE KeyTrust --------------------------------
(***************************************************************************)
(* What the JWKS cache of JWTAuthService promises, without its lock, its   *)
(* queue, its HTTP exchanges and its timeouts: there is one key set the    *)
(* service trusts; it moves only forward, to key sets the provider         *)
(* published within Lag; and a verdict in a client's favour rests on the   *)
(* trusted key set, published within Window.                               *)
(***************************************************************************)
EXTENDS Integers

CONSTANTS Task, Token, KidOf, Genuine, Probe, Boot, LastVersion, KeysOf,
          Lag, Window

None == 0
Version == 1..LastVersion

VARIABLES
    clock, idp, retiredAt,  \* the provider and its history
    trusted,                \* the key set verdicts rest on, None before the first
    status,                 \* of each task: idle, pending, or its verdict
    want                    \* what each task asks for

world == <<clock, idp, retiredAt>>
vars == <<world, trusted, status, want>>

Favourable == {"accepted", "ready", "degraded"}
Adverse == {"rejected", "unready", "cancelled"}

\* Key set v is published now, or was less than d ago.
Within(v, d) ==
    /\ v # None
    /\ v = idp \/ (v < idp /\ clock - retiredAt[v] <= d)

Init ==
    /\ clock = 0
    /\ idp = 1
    /\ retiredAt = [v \in Version |-> 0]
    /\ trusted = None
    /\ status = [t \in Task |-> "idle"]
    /\ want = [t \in Task |-> Probe]

Tick ==
    /\ clock' = clock + 1
    /\ UNCHANGED <<idp, retiredAt, trusted, status, want>>

Rotate ==
    /\ idp < LastVersion
    /\ idp' = idp + 1
    /\ retiredAt' = [retiredAt EXCEPT ![idp] = clock]
    /\ UNCHANGED <<clock, trusted, status, want>>

\* A task asks and is not answered at once.
Ask(t) ==
    /\ status[t] = "idle"
    /\ status' = [status EXCEPT ![t] = "pending"]
    /\ \E w \in Token \cup {Probe, Boot} : want' = [want EXCEPT ![t] = w]
    /\ UNCHANGED <<world, trusted>>

\* The service comes to trust a key set no older than the one it trusts.
Forward ==
    trusted' = trusted \/ (trusted' >= trusted /\ Within(trusted', Lag))

\* It may do so on behalf of a task that stays pending.
Learn ==
    /\ Forward
    /\ UNCHANGED <<world, status, want>>

\* What a verdict in favour of w rests on.
Grounded(w) ==
    /\ Within(trusted', Window)
    /\ w \in Token => w \in Genuine /\ KidOf[w] \in KeysOf[trusted']

\* A task is answered, at once or after it was pending.
Answer(t) ==
    /\ \/ status[t] = "idle" /\ \E w \in Token \cup {Probe} : want' = [want EXCEPT ![t] = w]
       \/ status[t] = "pending" /\ want' = want
    /\ \E d \in Favourable \cup Adverse :
        /\ status' = [status EXCEPT ![t] = d]
        /\ d \in Favourable => Grounded(want'[t])
    /\ Forward
    /\ UNCHANGED world

Leave(t) ==
    /\ status[t] \in Favourable \cup Adverse
    /\ status' = [status EXCEPT ![t] = "idle"]
    /\ want' = [want EXCEPT ![t] = Probe]
    /\ UNCHANGED <<world, trusted>>

Next ==
    \/ Tick
    \/ Rotate
    \/ Learn
    \/ \E t \in Task : Ask(t) \/ Answer(t) \/ Leave(t)

Spec == Init /\ [][Next]_vars
================================================================================
