----------------------------- MODULE CacheContract -----------------------------
(***************************************************************************)
(* What a bounded cache promises (the CacheStore interface of              *)
(* src/src/app/cache/store.py): a lookup finds the last value stored under *)
(* the key for as long as it was to live, and a value is forgotten earlier *)
(* only when it is deleted or when a new key comes while Capacity others   *)
(* are alive; then one of those goes that had least to live.               *)
(***************************************************************************)
EXTENDS Integers, FiniteSets

CONSTANTS Key, Value, Lifetime, Capacity, Nothing

VARIABLES clock,
          live,   \* what each key holds, and until when
          reply   \* what the last lookup found

vars == <<clock, live, reply>>

Alive == {k \in Key : live[k] # Nothing}

\* The keys of S that have least to live.
Oldest(S) == {k \in S : \A j \in S : live[k].expiry <= live[j].expiry}

Init ==
    /\ clock = 0
    /\ live = [k \in Key |-> Nothing]
    /\ reply = Nothing

Tick ==
    /\ clock' = clock + 1
    /\ live' = [k \in Key |->
                  IF live[k] # Nothing /\ live[k].expiry <= clock + 1 THEN Nothing
                  ELSE live[k]]
    /\ UNCHANGED reply

Lookup(k) ==
    /\ reply' = IF live[k] = Nothing THEN Nothing ELSE live[k].value
    /\ UNCHANGED <<clock, live>>

Stored(k, v, ttl) == [live EXCEPT ![k] = [value |-> v, expiry |-> clock + ttl]]

Store(k, v, ttl) ==
    /\ IF k \notin Alive /\ Cardinality(Alive) >= Capacity
       THEN \E j \in Oldest(Alive) : live' = [Stored(k, v, ttl) EXCEPT ![j] = Nothing]
       ELSE live' = Stored(k, v, ttl)
    /\ UNCHANGED <<clock, reply>>

Remove(S) ==
    /\ live' = [k \in Key |-> IF k \in S THEN Nothing ELSE live[k]]
    /\ UNCHANGED <<clock, reply>>

Next ==
    \/ Tick
    \/ \E k \in Key :
        \/ Lookup(k)
        \/ \E v \in Value, ttl \in Lifetime : Store(k, v, ttl)
        \/ Remove({k})
    \/ Remove(Key)

Spec == Init /\ [][Next]_vars
================================================================================
