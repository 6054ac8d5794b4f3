--------------------------- MODULE MemoryCacheProofs ---------------------------
(***************************************************************************)
(* Proofs about MemoryCache, for every set of keys, values and lifetimes   *)
(* and every capacity.                                                     *)
(***************************************************************************)
EXTENDS MemoryCache, FiniteSetTheorems, TLAPS

LEMMA StoredFinite ==
  /\ IsFiniteSet(Stored)
  /\ Cardinality(Stored) \in Nat
<1>1. Stored \in SUBSET Key
  BY DEF Stored
<1>2. IsFiniteSet(Stored)
  BY <1>1, FS_Subset, CacheAssumption
<1> QED BY <1>2, FS_CardinalityType

LEMMA InvInit == Init => IInv
<1> SUFFICES ASSUME Init PROVE IInv
  OBVIOUS
<1>1. TypeOK
  BY CacheAssumption DEF Init, TypeOK
<1>2. Stored = {}
  BY DEF Init, Stored, In
<1>3. SizeBounded
  BY <1>2, FS_EmptySet, CacheAssumption DEF SizeBounded
<1> QED BY <1>1, <1>3 DEF IInv

\* Whatever is stored under fewer keys than before fits.
LEMMA Shrinks ==
  ASSUME SizeBounded, TypeOK, \A k \in Key : data'[k] # Nothing => data[k] # Nothing
  PROVE  SizeBounded'
<1>1. Stored' \in SUBSET Stored
  BY DEF Stored, In
<1>2. Cardinality(Stored') <= Cardinality(Stored) /\ Cardinality(Stored') \in Nat
  BY <1>1, StoredFinite, FS_Subset, FS_CardinalityType
<1> QED BY <1>2, StoredFinite, CacheAssumption DEF SizeBounded

LEMMA SetStep ==
  ASSUME IInv, NEW k \in Key, NEW v \in Value, NEW ttl \in Lifetime, Set(k, v, ttl)
  PROVE  IInv'
<1> DEFINE e == [value |-> v, expiry |-> clock + ttl]
           stored == [data EXCEPT ![k] = e]
<1>1. TypeOK /\ SizeBounded
  BY DEF IInv
<1>2. clock \in Nat /\ ttl \in Nat
  BY <1>1, CacheAssumption DEF TypeOK
<1>3. e \in Entry /\ e # Nothing
  <2>1. e \in Entry
    BY <1>2 DEF Entry
  <2> QED BY <2>1, CacheAssumption DEF Entry
<1>4. clock' = clock /\ answer' = answer
  BY DEF Set
<1> HIDE DEF e
<1>5. stored \in [Key -> Entry \cup {Nothing}]
  BY <1>1, <1>3 DEF TypeOK
<1>6. CASE Crowded(k)
  <2>1. PICK j \in Victim : data' = [stored EXCEPT ![j] = Nothing]
    BY <1>6 DEF Set, e
  <2>2. j \in Stored /\ k \notin Stored /\ j \in Key
    BY <1>6, <2>1 DEF Victim, Crowded, Stored
  <2>3. TypeOK'
    BY <1>1, <1>4, <1>5, <2>1 DEF TypeOK
  <2>4. Stored' = (Stored \ {j}) \cup {k}
    <3>1. \A i \in Key : data'[i] = IF i = j THEN Nothing ELSE IF i = k THEN e ELSE data[i]
      BY <1>1, <1>5, <2>1 DEF TypeOK
    <3> QED BY <1>3, <2>2, <3>1 DEF Stored, In
  <2>5. /\ IsFiniteSet(Stored \ {j})
        /\ Cardinality(Stored \ {j}) = Cardinality(Stored) - 1
    BY <2>2, StoredFinite, FS_RemoveElement
  <2>6. Cardinality((Stored \ {j}) \cup {k}) = Cardinality(Stored)
    <3>1. k \notin Stored \ {j}
      BY <2>2
    <3>2. Cardinality((Stored \ {j}) \cup {k}) = Cardinality(Stored) - 1 + 1
      BY <2>5, <3>1, FS_AddElement
    <3> QED BY <3>2, StoredFinite
  <2>7. SizeBounded'
    BY <1>1, <2>4, <2>6 DEF SizeBounded
  <2> QED BY <2>3, <2>7 DEF IInv
<1>7. CASE ~Crowded(k)
  <2>1. data' = stored
    BY <1>7 DEF Set, e
  <2>2. TypeOK'
    BY <1>1, <1>4, <1>5, <2>1 DEF TypeOK
  <2>3. Stored' = Stored \cup {k}
    <3>1. \A i \in Key : data'[i] = IF i = k THEN e ELSE data[i]
      BY <1>1, <2>1 DEF TypeOK
    <3> QED BY <1>3, <3>1 DEF Stored, In
  <2>4. Cardinality(Stored \cup {k}) <= MaxEntries
    <3>1. Cardinality(Stored \cup {k}) =
            IF k \in Stored THEN Cardinality(Stored) ELSE Cardinality(Stored) + 1
      BY StoredFinite, FS_AddElement
    <3>2. k \in Stored \/ Cardinality(Stored) < MaxEntries
      BY <1>7, StoredFinite, CacheAssumption DEF Crowded, Stored
    <3> QED BY <1>1, <3>1, <3>2, StoredFinite, CacheAssumption DEF SizeBounded
  <2>5. SizeBounded'
    BY <2>3, <2>4 DEF SizeBounded
  <2> QED BY <2>2, <2>5 DEF IInv
<1> QED BY <1>6, <1>7

LEMMA InvStep == IInv /\ [Next]_vars => IInv'
<1> SUFFICES ASSUME IInv, [Next]_vars PROVE IInv'
  OBVIOUS
<1>0. TypeOK /\ SizeBounded
  BY DEF IInv
<1>1. CASE Tick
  <2>1. TypeOK'
    BY <1>0, <1>1, CacheAssumption DEF Tick, TypeOK
  <2>2. SizeBounded'
    BY <1>0, <1>1, Shrinks DEF Tick
  <2> QED BY <2>1, <2>2 DEF IInv
<1>2. ASSUME NEW k \in Key, Get(k) PROVE IInv'
  <2>1. /\ clock' = clock
        /\ data' = data \/ data' = [data EXCEPT ![k] = Nothing]
    BY <1>2 DEF Get
  <2>2. answer' \in Value \cup {Nothing}
    BY <1>0, <1>2 DEF Get, TypeOK, Entry, In
  <2>3. TypeOK'
    BY <1>0, <2>1, <2>2 DEF TypeOK
  <2>4. \A i \in Key : data'[i] # Nothing => data[i] # Nothing
    BY <1>0, <2>1 DEF TypeOK
  <2> QED BY <1>0, <2>3, <2>4, Shrinks DEF IInv
<1>3. ASSUME NEW k \in Key, NEW v \in Value, NEW ttl \in Lifetime, Set(k, v, ttl)
      PROVE  IInv'
  BY <1>3, SetStep
<1>4. ASSUME NEW k \in Key, Delete(k) PROVE IInv'
  <2>1. TypeOK'
    BY <1>0, <1>4 DEF Delete, TypeOK
  <2>2. \A i \in Key : data'[i] # Nothing => data[i] # Nothing
    BY <1>0, <1>4 DEF Delete, TypeOK
  <2> QED BY <1>0, <2>1, <2>2, Shrinks DEF IInv
<1>5. CASE Clear
  <2>1. TypeOK'
    BY <1>0, <1>5 DEF Clear, TypeOK
  <2>2. \A i \in Key : data'[i] # Nothing => data[i] # Nothing
    BY <1>5 DEF Clear
  <2> QED BY <1>0, <2>1, <2>2, Shrinks DEF IInv
<1>6. CASE UNCHANGED vars
  <2>1. TypeOK'
    BY <1>0, <1>6 DEF vars, TypeOK
  <2>2. \A i \in Key : data'[i] # Nothing => data[i] # Nothing
    BY <1>6 DEF vars
  <2> QED BY <1>0, <2>1, <2>2, Shrinks DEF IInv
<1> QED BY <1>1, <1>2, <1>3, <1>4, <1>5, <1>6 DEF Next

\* Types and the bound on the dictionary (store.py:53-94).
THEOREM Invariance == Spec => []IInv
BY InvInit, InvStep, PTL DEF Spec

\* The dictionary never holds more than max_entries (store.py:69-72).
THEOREM SizeIsBounded == Spec => []SizeBounded
<1>1. IInv => SizeBounded
  BY DEF IInv
<1> QED BY <1>1, Invariance, PTL

\* What Live says of one key.
LEMMA LiveFacts ==
  ASSUME TypeOK, NEW k \in Key
  PROVE  /\ clock \in Nat
         /\ data[k] = Nothing \/ (data[k] \in Entry /\ data[k] # Nothing)
         /\ Live[k] = IF data[k] # Nothing /\ clock < data[k].expiry
                      THEN data[k] ELSE Nothing
         /\ Live[k] # Nothing <=> data[k] # Nothing /\ clock < data[k].expiry
<1>1. clock \in Nat
  BY CacheAssumption DEF TypeOK
<1>2. data[k] = Nothing \/ (data[k] \in Entry /\ data[k] # Nothing)
  BY CacheAssumption DEF TypeOK, Entry
<1>3. data[k] \in Entry => (~(clock >= data[k].expiry) <=> clock < data[k].expiry)
  BY <1>1 DEF Entry
<1>4. Live[k] = IF data[k] # Nothing /\ ~(clock >= data[k].expiry) THEN data[k] ELSE Nothing
  BY DEF Live, In
<1> QED BY <1>1, <1>2, <1>3, <1>4

\* Full of live entries, or some stored one has expired.
LEMMA AliveFacts ==
  ASSUME IInv
  PROVE  /\ Contract!Alive \subseteq Stored
         /\ IsFiniteSet(Contract!Alive)
         /\ Cardinality(Contract!Alive) \in Nat
         /\ Cardinality(Contract!Alive) <= Cardinality(Stored)
         /\ Cardinality(Contract!Alive) = Cardinality(Stored) => Contract!Alive = Stored
<1>1. Contract!Alive \subseteq Stored
  BY LiveFacts DEF Contract!Alive, Stored, In, IInv
<1> QED BY <1>1, StoredFinite, FS_Subset, FS_CardinalityType

\* The contract counts with the same Cardinality.
LEMMA SameCardinality == \A S : Contract!Cardinality(S) = Cardinality(S)
  BY DEF Cardinality, Contract!Cardinality

LEMMA ContractSet ==
  ASSUME IInv, NEW k \in Key, NEW v \in Value, NEW ttl \in Lifetime, Set(k, v, ttl)
  PROVE  Contract!Store(k, v, ttl)
<1> DEFINE e == [value |-> v, expiry |-> clock + ttl]
           stored == [data EXCEPT ![k] = e]
<1>1. TypeOK /\ SizeBounded /\ TypeOK'
  BY SetStep DEF IInv
<1>2. clock \in Nat /\ ttl \in Nat \ {0} /\ clock' = clock /\ answer' = answer
  BY <1>1, CacheAssumption DEF TypeOK, Set
<1>3. e \in Entry /\ e # Nothing /\ e.expiry > clock
  <2>1. e \in Entry /\ e.expiry > clock
    BY <1>2 DEF Entry
  <2> QED BY <2>1, CacheAssumption DEF Entry
<1>4. Contract!Stored(k, v, ttl) = [Live EXCEPT ![k] = e]
  BY DEF Contract!Stored
<1>5. \A i \in Key : Live'[i] = IF data'[i] # Nothing /\ ~(clock >= data'[i].expiry)
                                THEN data'[i] ELSE Nothing
  BY <1>2 DEF Live, In
<1>6. DOMAIN Live = Key /\ Live' = [i \in Key |-> Live'[i]] /\ Live = [i \in Key |-> Live[i]]
  BY DEF Live
<1> HIDE DEF e
<1>7. CASE Crowded(k)
  <2>1. PICK j \in Victim : data' = [stored EXCEPT ![j] = Nothing]
    BY <1>7 DEF Set, e
  <2>2. /\ j \in Stored /\ k \notin Stored /\ j \in Key /\ j # k
        /\ Cardinality(Stored) = MaxEntries
    BY <1>1, <1>7, <2>1, StoredFinite, CacheAssumption
       DEF Victim, Crowded, Stored, SizeBounded
  <2>3. \A i \in Key : data'[i] = IF i = j THEN Nothing ELSE IF i = k THEN e ELSE data[i]
    BY <1>1, <2>1 DEF TypeOK
  <2>4. ASSUME NEW i \in Key
        PROVE  Live'[i] = IF i = j THEN Nothing ELSE IF i = k THEN e ELSE Live[i]
    <3>1. CASE i = j
      BY <1>5, <2>3, <3>1
    <3>2. CASE i = k
      <4>1. data'[i] = e
        BY <2>2, <2>3, <3>2
      <4>2. ~(clock >= e.expiry)
        BY <1>2, <1>3 DEF Entry
      <4> QED BY <1>3, <1>5, <2>2, <3>2, <4>1, <4>2
    <3>3. CASE i # j /\ i # k
      <4>1. data'[i] = data[i]
        BY <2>3, <3>3
      <4> QED BY <1>5, <3>3, <4>1 DEF Live, In
    <3> QED BY <3>1, <3>2, <3>3
  <2>5. k \notin Contract!Alive
    BY <2>2, AliveFacts
  <2>6. CASE Cardinality(Contract!Alive) >= MaxEntries
    <3>1. Contract!Alive = Stored
      BY <2>2, <2>6, AliveFacts, CacheAssumption
    <3>2. j \in Contract!Oldest(Contract!Alive)
      <4>1. \A i \in Stored : Live[i] = data[i]
        BY <1>1, <3>1, LiveFacts DEF Contract!Alive
      <4>2. \A i \in Stored : data[j].expiry <= data[i].expiry
        BY <2>1 DEF Victim
      <4> QED BY <2>2, <3>1, <4>1, <4>2 DEF Contract!Oldest
    <3>3. Live' = [[Live EXCEPT ![k] = e] EXCEPT ![j] = Nothing]
      BY <1>6, <2>2, <2>4
    <3> QED BY <1>2, <1>4, <2>5, <2>6, <3>2, <3>3, SameCardinality DEF Contract!Store
  <2>7. CASE ~(Cardinality(Contract!Alive) >= MaxEntries)
    <3>1. PICK i \in Stored : i \notin Contract!Alive
      BY <2>2, <2>7, AliveFacts, StoredFinite, CacheAssumption
    <3>2. data[i] \in Entry /\ data[j] \in Entry /\ i \in Key
      BY <1>1, <2>2, <3>1, LiveFacts DEF Stored, In
    <3>3. data[i].expiry <= clock
      BY <1>1, <1>2, <3>1, <3>2, LiveFacts DEF Contract!Alive, Stored, In, Entry
    <3>4. data[j].expiry <= data[i].expiry
      BY <2>1, <3>1 DEF Victim
    <3>5. Live[j] = Nothing
      BY <1>1, <1>2, <2>2, <3>2, <3>3, <3>4, LiveFacts DEF Entry
    <3>6. Live' = [Live EXCEPT ![k] = e]
      BY <1>6, <2>2, <2>4, <3>5
    <3> QED BY <1>2, <1>4, <2>7, <3>6, SameCardinality DEF Contract!Store
  <2> QED BY <2>6, <2>7
<1>8. CASE ~Crowded(k)
  <2>1. data' = stored
    BY <1>8 DEF Set, e
  <2>2. \A i \in Key : data'[i] = IF i = k THEN e ELSE data[i]
    BY <1>1, <2>1 DEF TypeOK
  <2>3. ASSUME NEW i \in Key PROVE Live'[i] = IF i = k THEN e ELSE Live[i]
    <3>1. CASE i = k
      <4>1. ~(clock >= e.expiry)
        BY <1>2, <1>3 DEF Entry
      <4> QED BY <1>3, <1>5, <2>2, <3>1, <4>1
    <3>2. CASE i # k
      BY <1>5, <2>2, <3>2 DEF Live, In
    <3> QED BY <3>1, <3>2
  <2>4. Live' = [Live EXCEPT ![k] = e]
    BY <1>6, <2>3
  <2>5. ~(k \notin Contract!Alive /\ Cardinality(Contract!Alive) >= MaxEntries)
    <3>1. CASE Cardinality(Stored) >= MaxEntries
      <4>1. k \in Stored /\ Cardinality(Stored) = MaxEntries
        BY <1>1, <1>8, <3>1, StoredFinite, CacheAssumption DEF Crowded, SizeBounded, Stored
      <4> QED BY <4>1, AliveFacts, CacheAssumption
    <3>2. CASE ~(Cardinality(Stored) >= MaxEntries)
      BY <3>2, AliveFacts, StoredFinite, CacheAssumption
    <3> QED BY <3>1, <3>2
  <2> QED BY <1>2, <1>4, <2>4, <2>5, SameCardinality DEF Contract!Store
<1> QED BY <1>7, <1>8

LEMMA ContractTick == ASSUME IInv, Tick PROVE Contract!Tick
<1>1. TypeOK /\ clock \in Nat /\ clock' = clock + 1 /\ data' = data /\ answer' = answer
  BY CacheAssumption DEF IInv, TypeOK, Tick
<1>2. ASSUME NEW k \in Key
      PROVE  Live'[k] = IF Live[k] # Nothing /\ Live[k].expiry <= clock + 1
                        THEN Nothing ELSE Live[k]
  <2>1. Live'[k] = IF data[k] # Nothing /\ ~(clock + 1 >= data[k].expiry)
                   THEN data[k] ELSE Nothing
    BY <1>1 DEF Live, In
  <2>2. data[k] \in Entry => data[k].expiry \in Nat
    BY DEF Entry
  <2> QED BY <1>1, <2>1, <2>2, LiveFacts
<1>3. Live' = [k \in Key |-> Live'[k]]
  BY DEF Live
<1>4. Live' = [k \in Key |-> IF Live[k] # Nothing /\ Live[k].expiry <= clock + 1
                             THEN Nothing ELSE Live[k]]
  BY <1>2, <1>3
<1> QED BY <1>1, <1>4 DEF Contract!Tick

LEMMA ContractGet == ASSUME IInv, NEW k \in Key, Get(k) PROVE Contract!Lookup(k)
<1>1. TypeOK /\ clock' = clock /\ clock \in Nat
  BY LiveFacts DEF IInv, Get
<1>2. CASE In(k) /\ Expired(k)
  <2>1. data' = [data EXCEPT ![k] = Nothing] /\ answer' = Nothing
    BY <1>2 DEF Get
  <2>2. Live[k] = Nothing
    BY <1>2 DEF Live, Expired
  <2>3. \A i \in Key : data'[i] = IF i = k THEN Nothing ELSE data[i]
    BY <1>1, <2>1 DEF TypeOK
  <2>4. \A i \in Key : Live'[i] = Live[i]
    BY <1>1, <2>2, <2>3 DEF Live, In
  <2>5. Live' = Live
    BY <2>4 DEF Live
  <2> QED BY <1>1, <2>1, <2>2, <2>5 DEF Contract!Lookup
<1>3. CASE ~(In(k) /\ Expired(k))
  <2>1. data' = data /\ answer' = IF In(k) THEN data[k].value ELSE Nothing
    BY <1>3 DEF Get
  <2>2. Live' = Live
    BY <1>1, <2>1 DEF Live, In
  <2>3. Live[k] = IF In(k) THEN data[k] ELSE Nothing
    BY <1>3 DEF Live, Expired
  <2>4. In(k) => data[k] # Nothing
    BY DEF In
  <2> QED BY <1>1, <2>1, <2>2, <2>3, <2>4 DEF Contract!Lookup
<1> QED BY <1>2, <1>3

\* The dictionary keeps the promise of the abstract cache, for every capacity
\* (store.py:59-94).
THEOREM Refinement == Spec => ImplementsCache
<1>1. Init => Contract!Init
  BY DEF Init, Contract!Init, Live, In
<1>2. IInv /\ [Next]_vars => [Contract!Next]_Contract!vars
  <2> SUFFICES ASSUME IInv, [Next]_vars PROVE [Contract!Next]_Contract!vars
    OBVIOUS
  <2>0. TypeOK
    BY DEF IInv
  <2>1. CASE Tick
    BY <2>1, ContractTick DEF Contract!Next
  <2>2. ASSUME NEW k \in Key, Get(k) PROVE Contract!Next
    BY <2>2, ContractGet DEF Contract!Next
  <2>3. ASSUME NEW k \in Key, NEW v \in Value, NEW ttl \in Lifetime, Set(k, v, ttl)
        PROVE  Contract!Next
    BY <2>3, ContractSet DEF Contract!Next
  <2>4. ASSUME NEW k \in Key, Delete(k) PROVE Contract!Next
    <3>1. clock' = clock /\ answer' = answer
          /\ \A i \in Key : data'[i] = IF i = k THEN Nothing ELSE data[i]
      BY <2>0, <2>4 DEF Delete, TypeOK
    <3>2. Live' = [i \in Key |-> IF i \in {k} THEN Nothing ELSE Live[i]]
      BY <3>1 DEF Live, In
    <3>3. Contract!Remove({k})
      BY <3>1, <3>2 DEF Contract!Remove
    <3> QED BY <3>3 DEF Contract!Next
  <2>5. CASE Clear
    <3>1. Contract!Remove(Key)
      BY <2>5 DEF Clear, Contract!Remove, Live, In
    <3> QED BY <3>1 DEF Contract!Next
  <2>6. CASE UNCHANGED vars
    BY <2>6 DEF vars, Contract!vars, Live, In
  <2> QED BY <2>1, <2>2, <2>3, <2>4, <2>5, <2>6 DEF Next
<1> QED BY <1>1, <1>2, Invariance, PTL DEF Spec, ImplementsCache, Contract!Spec
================================================================================
