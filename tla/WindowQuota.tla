------------------------------ MODULE WindowQuota ------------------------------
(***************************************************************************)
(* What a fixed-window rate limiter promises (the RateLimitStore interface *)
(* of src/src/app/middleware/rate_limit.py), whatever keeps its counters:  *)
(* in each window of the clock a client is admitted Limit times, told how  *)
(* often it may still come, and turned away only when that is never.       *)
(***************************************************************************)
EXTENDS Integers

CONSTANTS Client, Task, Limit, Window, Undecided

VARIABLES clock,
          admitted,  \* how often each client was admitted in this window
          decision   \* what each request was told, if anything yet

vars == <<clock, admitted, decision>>

WindowOf(time) == time \div Window

Decision(c, ok, left) ==
    [client |-> c, allowed |-> ok, remaining |-> left,
     reset |-> (WindowOf(clock) + 1) * Window]

Init ==
    /\ clock = 0
    /\ admitted = [c \in Client |-> 0]
    /\ decision = [t \in Task |-> Undecided]

\* A new window forgets the old one.
Tick ==
    /\ clock' = clock + 1
    /\ admitted' = IF WindowOf(clock + 1) = WindowOf(clock) THEN admitted
                   ELSE [c \in Client |-> 0]
    /\ UNCHANGED decision

Admit(t, c) ==
    /\ decision[t] = Undecided
    /\ admitted[c] < Limit
    /\ admitted' = [admitted EXCEPT ![c] = @ + 1]
    /\ decision' = [decision EXCEPT ![t] = Decision(c, TRUE, Limit - admitted[c] - 1)]
    /\ UNCHANGED clock

TurnAway(t, c) ==
    /\ decision[t] = Undecided
    /\ admitted[c] = Limit
    /\ decision' = [decision EXCEPT ![t] = Decision(c, FALSE, 0)]
    /\ UNCHANGED <<clock, admitted>>

\* The request is over.
Leave(t) ==
    /\ decision' = [decision EXCEPT ![t] = Undecided]
    /\ UNCHANGED <<clock, admitted>>

Next ==
    \/ Tick
    \/ \E t \in Task :
        \/ \E c \in Client : Admit(t, c) \/ TurnAway(t, c)
        \/ Leave(t)

Spec == Init /\ [][Next]_vars
================================================================================
