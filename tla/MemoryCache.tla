------------------------------ MODULE MemoryCache ------------------------------
(***************************************************************************)
(* MemoryCacheStore (src/src/app/cache/store.py): a dictionary of values   *)
(* and expiry times.  No operation suspends, so each is one step.  Expired *)
(* entries stay until they are looked up or evicted; time.monotonic() is a *)
(* counter.                                                                *)
(***************************************************************************)
EXTENDS Integers, FiniteSets

CONSTANTS
    Key,
    Value,
    Lifetime,    \* the ttl_seconds callers give
    MaxEntries,  \* max_entries
    Nothing,     \* None
    MaxTime      \* bound on the clock

ASSUME CacheAssumption ==
    /\ IsFiniteSet(Key)
    /\ Lifetime \subseteq Nat \ {0}
    /\ MaxEntries \in Nat \ {0}
    /\ MaxTime \in Nat
    /\ Nothing \notin Value
    /\ Nothing \notin [value : Value, expiry : Nat]

VARIABLES
    clock,
    data,    \* _data: a value and an expiry time for each key in it
    answer   \* what the last get or exists found

vars == <<clock, data, answer>>

Entry == [value : Value, expiry : Nat]
In(k) == data[k] # Nothing
Stored == {k \in Key : In(k)}

\* time.monotonic() >= expiry.
Expired(k) == clock >= data[k].expiry

\* A bug: the entry that has most to live is evicted.
VictimNewest == {k \in Stored : \A j \in Stored : data[j].expiry <= data[k].expiry}

\* _evict_oldest: of several with the same expiry it takes the first stored.
Victim == {k \in Stored : \A j \in Stored : data[k].expiry <= data[j].expiry}

Init ==
    /\ clock = 0
    /\ data = [k \in Key |-> Nothing]
    /\ answer = Nothing

Tick ==
    /\ clock < MaxTime
    /\ clock' = clock + 1
    /\ UNCHANGED <<data, answer>>

\* get, and exists, which is a get.
Get(k) ==
    /\ IF In(k) /\ Expired(k)
       THEN data' = [data EXCEPT ![k] = Nothing] /\ answer' = Nothing
       ELSE data' = data /\ answer' = IF In(k) THEN data[k].value ELSE Nothing
    /\ UNCHANGED clock

\* A bug: room is made one entry too late.
CrowdedLate(k) == Cardinality(Stored) > MaxEntries /\ ~In(k)

\* The condition under which set makes room for k.
Crowded(k) == Cardinality(Stored) >= MaxEntries /\ ~In(k)

Set(k, v, ttl) ==
    LET stored == [data EXCEPT ![k] = [value |-> v, expiry |-> clock + ttl]]
    IN /\ IF Crowded(k)
          THEN \E j \in Victim : data' = [stored EXCEPT ![j] = Nothing]
          ELSE data' = stored
       /\ UNCHANGED <<clock, answer>>

Delete(k) ==
    /\ data' = [data EXCEPT ![k] = Nothing]
    /\ UNCHANGED <<clock, answer>>

\* clear, and close.
Clear ==
    /\ data' = [k \in Key |-> Nothing]
    /\ UNCHANGED <<clock, answer>>

Next ==
    \/ Tick
    \/ \E k \in Key :
        \/ Get(k)
        \/ \E v \in Value, ttl \in Lifetime : Set(k, v, ttl)
        \/ Delete(k)
    \/ Clear

Spec == Init /\ [][Next]_vars

----------------------------------------------------------------------------

TypeOK ==
    /\ clock \in 0..MaxTime
    /\ data \in [Key -> Entry \cup {Nothing}]
    /\ answer \in Value \cup {Nothing}

\* The dictionary never holds more than max_entries, expired ones included
\* (store.py:69-72).
SizeBounded == Cardinality(Stored) <= MaxEntries

\* The inductive invariant.
IInv == TypeOK /\ SizeBounded

\* The entries a get would find.
Live == [k \in Key |-> IF In(k) /\ ~(clock >= data[k].expiry) THEN data[k] ELSE Nothing]

Contract == INSTANCE CacheContract
            WITH live <- Live, reply <- answer, Capacity <- MaxEntries

\* The dictionary, pruned only by lookups and evictions, implements the promise
\* of CacheContract: no expired value is served, and no value is forgotten in
\* its lifetime while an expired one takes up room (store.py:59-94).
ImplementsCache == Contract!Spec
================================================================================
