------------------------- MODULE MemoryRateLimitProofs -------------------------
(***************************************************************************)
(* Proofs about MemoryRateLimit, for every limit, window length, number of *)
(* clients and of requests in flight.                                      *)
(***************************************************************************)
EXTENDS MemoryRateLimit, TLAPS

\* The windows partition the clock.
LEMMA WindowFacts ==
  ASSUME NEW n \in Nat
  PROVE  /\ WindowOf(n) \in Nat
         /\ Window * WindowOf(n) <= n
         /\ n < Window * (WindowOf(n) + 1)
BY LimitAssumption, SMTT(30) DEF WindowOf

LEMMA WindowMonotone ==
  ASSUME NEW n \in Nat, NEW m \in Nat, n <= m
  PROVE  WindowOf(n) <= WindowOf(m)
BY LimitAssumption, SMTT(30) DEF WindowOf

LEMMA WindowUnique ==
  ASSUME NEW n \in Nat, NEW w \in Nat, Window * w <= n, n < Window * (w + 1)
  PROVE  WindowOf(n) = w
BY LimitAssumption, SMTT(30) DEF WindowOf

\* The clock is always inside a window the model has.
LEMMA CurrentWindow ==
  ASSUME TypeOK
  PROVE  WindowOf(clock) \in Windows /\ clock \in Nat
<1>1. clock \in Nat /\ MaxTime \in Nat /\ clock <= MaxTime
  BY LimitAssumption DEF TypeOK
<1> QED BY <1>1, WindowMonotone, WindowFacts DEF Windows

LEMMA DecideType ==
  ASSUME NEW c \in Client, NEW n \in Nat, NEW w \in Nat
  PROVE  /\ Decide(c, n, w) \in Decision
         /\ Decide(c, n, w).allowed = (n <= Limit)
<1>1. Larger(Limit - n, 0) \in 0..Limit
  BY LimitAssumption DEF Larger
<1>2. (w + 1) * Window \in Nat
  BY LimitAssumption
<1> QED BY <1>1, <1>2 DEF Decide, Decision

LEMMA PruneType ==
  ASSUME TypeOK, NEW c \in Client, NEW w \in Windows, NEW n \in Nat
  PROVE  LET b == [Prune(c, w) EXCEPT ![c][w] = n]
         IN /\ b \in [Client -> [Windows -> Nat]]
            /\ b[c][w] = n
            /\ \A d \in Client, v \in Windows :
                 d # c \/ v # w => b[d][v] = IF v < w THEN 0 ELSE buckets[d][v]
<1>1. Prune(c, w) \in [Client -> [Windows -> Nat]]
  BY DEF Prune, TypeOK
<1> QED BY <1>1 DEF Prune

LEMMA InvInit == Init => IInv
<1> SUFFICES ASSUME Init PROVE IInv
  OBVIOUS
<1>1. clock \in 0..MaxTime
  BY LimitAssumption DEF Init
<1>2. TypeOK
  BY <1>1 DEF Init, TypeOK
<1>3. OneWindowStored /\ NoFutureWindow
  BY DEF Init, OneWindowStored, NoFutureWindow
<1> QED BY <1>2, <1>3 DEF IInv

\* The hit of a request, with its window and its count by name.
LEMMA HitFacts ==
  ASSUME IInv, NEW t \in Task, NEW c \in Client, Hit(t, c)
  PROVE  \E n \in Nat \ {0} :
           /\ n = IF buckets[c][WindowOf(clock)] < MaxHits
                  THEN buckets[c][WindowOf(clock)] + 1 ELSE MaxHits
           /\ buckets' = [Prune(c, WindowOf(clock)) EXCEPT ![c][WindowOf(clock)] = n]
           /\ decision' = [decision EXCEPT ![t] = Decide(c, n, WindowOf(clock))]
           /\ decision'[t] = Decide(c, n, WindowOf(clock))
           /\ decision[t] = Undecided
           /\ pc[t] = "idle"
           /\ clock' = clock
<1>1. TypeOK /\ WindowOf(clock) \in Windows
  BY CurrentWindow DEF IInv
<1>2. buckets[c][WindowOf(clock)] \in Nat
  BY <1>1 DEF TypeOK
<1> DEFINE n == IF buckets[c][WindowOf(clock)] < MaxHits
                THEN buckets[c][WindowOf(clock)] + 1 ELSE MaxHits
<1>3. n \in Nat \ {0}
  BY <1>2, LimitAssumption
<1>4. /\ buckets' = [Prune(c, WindowOf(clock)) EXCEPT ![c][WindowOf(clock)] = n]
      /\ decision' = [decision EXCEPT ![t] = Decide(c, n, WindowOf(clock))]
      /\ pc[t] = "idle" /\ clock' = clock
  BY DEF Hit
<1>5. decision[t] = Undecided
  BY <1>1, <1>4 DEF TypeOK
<1>6. decision'[t] = Decide(c, n, WindowOf(clock))
  BY <1>4 DEF IInv, TypeOK
<1> QED BY <1>3, <1>4, <1>5, <1>6

LEMMA HitType ==
  ASSUME IInv, NEW t \in Task, NEW c \in Client, Hit(t, c)
  PROVE  TypeOK'
<1>1. TypeOK /\ WindowOf(clock) \in Windows /\ clock \in Nat
  BY CurrentWindow DEF IInv
<1>2. PICK n \in Nat \ {0} :
        /\ buckets' = [Prune(c, WindowOf(clock)) EXCEPT ![c][WindowOf(clock)] = n]
        /\ decision' = [decision EXCEPT ![t] = Decide(c, n, WindowOf(clock))]
        /\ decision'[t] = Decide(c, n, WindowOf(clock))
        /\ clock' = clock
  BY HitFacts
<1>3. WindowOf(clock) \in Nat
  BY <1>1, WindowFacts
<1>4. Decide(c, n, WindowOf(clock)) \in Decision
  BY <1>3, DecideType
<1>5. clock' \in 0..MaxTime
  BY <1>1, <1>2 DEF TypeOK
<1>6. buckets' \in [Client -> [Windows -> Nat]]
  BY <1>1, <1>2, PruneType
<1>7. decision' \in [Task -> Decision \cup {Undecided}]
  BY <1>1, <1>2, <1>4 DEF TypeOK
<1>8. RetryAfter(decision'[t]) \in Nat
  <2>1. decision'[t].reset \in Nat
    BY <1>2, <1>4 DEF Decision
  <2> QED BY <1>1, <2>1 DEF RetryAfter, Larger
<1>9. /\ pc' \in [Task -> {"idle", "handling", "refused", "answered"}]
      /\ pc'[t] # "idle"
      /\ \A s \in Task : s # t => pc'[s] = pc[s] /\ decision'[s] = decision[s]
  BY <1>1, <1>2 DEF Hit, TypeOK
<1>10. \A s \in Task : /\ pc'[s] = "idle" => decision'[s] = Undecided
                       /\ pc'[s] # "idle" => decision'[s] \in Decision
  BY <1>1, <1>2, <1>4, <1>9 DEF TypeOK
<1>11. retryAfter' \in [Task -> Nat]
  BY <1>1, <1>8 DEF Hit, TypeOK
<1>12. served' \in [Client -> Seq(0..MaxTime)]
  <2>1. served \in [Client -> Seq(0..MaxTime)] /\ clock \in 0..MaxTime
    BY <1>1 DEF TypeOK
  <2>2. Append(served[c], clock) \in Seq(0..MaxTime)
    BY <2>1
  <2>3. served' = served \/ served' = [served EXCEPT ![c] = Append(@, clock)]
    BY DEF Hit
  <2> QED BY <2>1, <2>2, <2>3
<1> QED BY <1>5, <1>6, <1>7, <1>9, <1>10, <1>11, <1>12 DEF TypeOK

\* After a hit only counters of its window are left.
LEMMA HitWindows ==
  ASSUME IInv, NEW t \in Task, NEW c \in Client, Hit(t, c)
  PROVE  /\ OneWindowStored'
         /\ NoFutureWindow'
<1>1. TypeOK /\ NoFutureWindow /\ WindowOf(clock) \in Windows /\ clock \in Nat
  BY CurrentWindow DEF IInv
<1>2. PICK n \in Nat \ {0} :
        /\ buckets' = [Prune(c, WindowOf(clock)) EXCEPT ![c][WindowOf(clock)] = n]
        /\ clock' = clock
  BY HitFacts
<1>3. \A d \in Client, v \in Windows :
        d # c \/ v # WindowOf(clock)
          => buckets'[d][v] = IF v < WindowOf(clock) THEN 0 ELSE buckets[d][v]
  BY <1>1, <1>2, PruneType
<1>4. ASSUME NEW d \in Client, NEW v \in Windows, buckets'[d][v] > 0
      PROVE  v = WindowOf(clock)
  <2>1. v \in Nat /\ WindowOf(clock) \in Nat
    BY <1>1, WindowFacts DEF Windows
  <2>2. CASE v < WindowOf(clock)
    BY <1>3, <1>4, <2>1, <2>2
  <2>3. CASE ~(v < WindowOf(clock)) /\ v # WindowOf(clock)
    <3>1. buckets[d][v] > 0
      BY <1>3, <1>4, <2>3
    <3> QED BY <1>1, <2>1, <2>3, <3>1 DEF NoFutureWindow
  <2> QED BY <2>2, <2>3
<1>5. OneWindowStored'
  BY <1>4 DEF OneWindowStored, Windows
<1>6. WindowOf(clock)' = WindowOf(clock)
  BY <1>2 DEF WindowOf
<1>7. NoFutureWindow'
  <2>1. WindowOf(clock) \in Nat
    BY <1>1, WindowFacts
  <2> QED BY <1>4, <1>6, <2>1 DEF NoFutureWindow, Windows
<1> QED BY <1>5, <1>7

LEMMA InvStep == IInv /\ [Next]_vars => IInv'
<1> SUFFICES ASSUME IInv, [Next]_vars PROVE IInv'
  OBVIOUS
<1>0. TypeOK /\ OneWindowStored /\ NoFutureWindow
  BY DEF IInv
<1>1. CASE Tick
  <2>1. clock \in Nat /\ clock' = clock + 1 /\ clock' \in 0..MaxTime
    BY <1>0, <1>1, LimitAssumption DEF Tick, TypeOK
  <2>2. TypeOK'
    BY <1>0, <1>1, <2>1 DEF Tick, TypeOK
  <2>3. OneWindowStored'
    BY <1>0, <1>1 DEF Tick, OneWindowStored, Windows
  <2>4. WindowOf(clock) <= WindowOf(clock') /\ WindowOf(clock) \in Nat
        /\ WindowOf(clock') \in Nat
    BY <2>1, WindowMonotone, WindowFacts
  <2>5. NoFutureWindow'
    <3>1. \A w \in Windows : w \in Nat
      BY DEF Windows
    <3>2. Windows' = Windows /\ buckets' = buckets /\ WindowOf(clock)' = WindowOf(clock')
      BY <1>1 DEF Tick, Windows, WindowOf
    <3>3. ASSUME NEW d \in Client, NEW w \in Windows, buckets[d][w] > 0
          PROVE  w <= WindowOf(clock')
      BY <1>0, <2>4, <3>1, <3>3 DEF NoFutureWindow
    <3> QED BY <3>2, <3>3 DEF NoFutureWindow
  <2> QED BY <2>2, <2>3, <2>5 DEF IInv
<1>2. ASSUME NEW t \in Task, NEW c \in Client, Hit(t, c) PROVE IInv'
  BY <1>2, HitType, HitWindows DEF IInv
<1>3. ASSUME NEW t \in Task, Start(t) PROVE IInv'
  <2>1. decision[t] \in Decision
    BY <1>0, <1>3 DEF Start, TypeOK
  <2>2. RetryAfter(decision[t]) \in Nat
    <3>1. clock \in Int /\ decision[t].reset \in Nat
      BY <1>0, <2>1 DEF TypeOK, Decision
    <3> QED BY <3>1 DEF RetryAfter, Larger
  <2>3. TypeOK'
    BY <1>0, <1>3, <2>2 DEF Start, TypeOK
  <2>4. OneWindowStored' /\ NoFutureWindow'
    BY <1>0, <1>3 DEF Start, OneWindowStored, NoFutureWindow, Windows, WindowOf
  <2> QED BY <2>3, <2>4 DEF IInv
<1>4. ASSUME NEW t \in Task, Leave(t) PROVE IInv'
  <2>1. TypeOK'
    BY <1>0, <1>4 DEF Leave, TypeOK
  <2>2. OneWindowStored' /\ NoFutureWindow'
    BY <1>0, <1>4 DEF Leave, OneWindowStored, NoFutureWindow, Windows, WindowOf
  <2> QED BY <2>1, <2>2 DEF IInv
<1>5. CASE UNCHANGED vars
  <2>1. TypeOK'
    BY <1>0, <1>5 DEF vars, TypeOK
  <2>2. OneWindowStored' /\ NoFutureWindow'
    BY <1>0, <1>5 DEF vars, OneWindowStored, NoFutureWindow, Windows, WindowOf
  <2> QED BY <2>1, <2>2 DEF IInv
<1> QED BY <1>1, <1>2, <1>3, <1>4, <1>5 DEF Next

\* The counters keep their types and belong to one window that has begun
\* (rate_limit.py:41-64).
THEOREM Invariance == Spec => []IInv
BY InvInit, InvStep, PTL DEF Spec

\* The store never holds counters of two windows (rate_limit.py:57-64).
THEOREM StoreIsBounded == Spec => []OneWindowStored
<1>1. IInv => OneWindowStored
  BY DEF IInv
<1> QED BY <1>1, Invariance, PTL

LEMMA RetryStep ==
  ASSUME IInv, NEW t \in Task, NEW c \in Client, Hit(t, c), pc'[t] = "refused"
  PROVE  /\ WindowOf(clock + retryAfter'[t]) = WindowOf(clock) + 1
         /\ WindowOf(clock + retryAfter'[t] - 1) = WindowOf(clock)
<1>1. TypeOK /\ clock \in Nat
  BY CurrentWindow DEF IInv
<1>2. PICK n \in Nat \ {0} : decision'[t] = Decide(c, n, WindowOf(clock))
  BY HitFacts
<1>3. retryAfter'[t] = RetryAfter(decision'[t])
  BY <1>1 DEF Hit, TypeOK
<1> DEFINE w == WindowOf(clock)
<1>4. w \in Nat /\ Window * w <= clock /\ clock < Window * (w + 1)
  BY <1>1, WindowFacts
<1>5. retryAfter'[t] = (w + 1) * Window - clock
  <2>1. decision'[t].reset = (w + 1) * Window
    BY <1>2 DEF Decide
  <2> HIDE DEF w
  <2>2. (w + 1) * Window = Window * (w + 1) /\ (w + 1) * Window \in Nat
    BY <1>4, LimitAssumption
  <2> QED BY <1>1, <1>3, <1>4, <2>1, <2>2 DEF RetryAfter, Larger
<1> HIDE DEF w
<1>6. WindowOf(Window * (w + 1)) = w + 1
  <2>1. Window * (w + 1) \in Nat /\ Window * (w + 1) < Window * (w + 1 + 1)
    BY <1>4, LimitAssumption
  <2> QED BY <1>4, <2>1, WindowUnique
<1>7. WindowOf(Window * (w + 1) - 1) = w
  <2>1. /\ Window * (w + 1) - 1 \in Nat
        /\ Window * w <= Window * (w + 1) - 1
        /\ Window * (w + 1) - 1 < Window * (w + 1)
    BY <1>4, LimitAssumption
  <2> QED BY <1>4, <2>1, WindowUnique
<1>8. /\ clock + retryAfter'[t] = Window * (w + 1)
      /\ clock + retryAfter'[t] - 1 = Window * (w + 1) - 1
  BY <1>1, <1>4, <1>5, LimitAssumption
<1>9. w = WindowOf(clock)
  BY DEF w
<1> QED BY <1>6, <1>7, <1>8, <1>9

\* Retry-After ends in the first second of the next window, for every window
\* length (rate_limit.py:54, 202).
THEOREM RetryIsHonest == Spec => RetryAfterHonest
<1>1. ASSUME IInv, [Next]_vars, NEW t \in Task, pc[t] = "idle", pc'[t] = "refused"
      PROVE  /\ WindowOf(clock + retryAfter'[t]) = WindowOf(clock) + 1
             /\ WindowOf(clock + retryAfter'[t] - 1) = WindowOf(clock)
  <2>0. pc \in [Task -> {"idle", "handling", "refused", "answered"}]
    BY <1>1 DEF IInv, TypeOK
  <2>1. ~Tick /\ ~UNCHANGED vars
    BY <1>1 DEF Tick, vars
  <2>2. \A s \in Task : ~Start(s) /\ ~Leave(s)
    BY <1>1, <2>0 DEF Start, Leave
  <2>3. PICK s \in Task, c \in Client : Hit(s, c)
    BY <1>1, <2>1, <2>2 DEF Next
  <2>4. s = t
    BY <1>1, <2>0, <2>3 DEF Hit
  <2> QED BY <1>1, <2>3, <2>4, RetryStep
<1>2. IInv /\ [Next]_vars => [\A t \in Task : pc[t] = "idle" /\ pc'[t] = "refused" =>
        /\ WindowOf(clock + retryAfter'[t]) = WindowOf(clock) + 1
        /\ WindowOf(clock + retryAfter'[t] - 1) = WindowOf(clock)]_vars
  BY <1>1
<1> QED BY <1>2, Invariance, PTL DEF Spec, RetryAfterHonest

LEMMA QuotaTick == ASSUME IInv, Tick PROVE Quota!Tick
<1>1. TypeOK /\ NoFutureWindow /\ clock \in Nat
  BY CurrentWindow DEF IInv
<1>2. /\ clock' = clock + 1 /\ buckets' = buckets /\ decision' = decision
      /\ clock + 1 \in 0..MaxTime
  BY <1>1, LimitAssumption DEF Tick, TypeOK
<1>3. /\ WindowOf(clock) \in Nat /\ WindowOf(clock + 1) \in Nat
      /\ WindowOf(clock) <= WindowOf(clock + 1) /\ WindowOf(clock + 1) <= WindowOf(MaxTime)
      /\ WindowOf(MaxTime) \in Nat
  BY <1>1, <1>2, WindowFacts, WindowMonotone, LimitAssumption
<1>4. WindowOf(clock + 1) \in Windows
  BY <1>3 DEF Windows
<1>5. Admitted' = [c \in Client |-> LET n == buckets[c][WindowOf(clock + 1)]
                                    IN IF n < Limit THEN n ELSE Limit]
  BY <1>2 DEF Admitted, WindowOf
<1>6. CASE WindowOf(clock + 1) = WindowOf(clock)
  <2>1. Admitted' = Admitted
    BY <1>5, <1>6 DEF Admitted
  <2> QED BY <1>2, <1>6, <2>1 DEF Quota!Tick, Quota!WindowOf, WindowOf
<1>7. CASE WindowOf(clock + 1) # WindowOf(clock)
  <2>1. ASSUME NEW c \in Client PROVE buckets[c][WindowOf(clock + 1)] = 0
    <3>1. buckets[c][WindowOf(clock + 1)] \in Nat
      BY <1>1, <1>4 DEF TypeOK
    <3>2. ~(buckets[c][WindowOf(clock + 1)] > 0)
      BY <1>1, <1>3, <1>4, <1>7 DEF NoFutureWindow
    <3> QED BY <3>1, <3>2
  <2>2. Admitted' = [c \in Client |-> 0]
    BY <1>5, <2>1, LimitAssumption
  <2> QED BY <1>2, <1>7, <2>2 DEF Quota!Tick, Quota!WindowOf, WindowOf
<1> QED BY <1>6, <1>7

LEMMA QuotaHit ==
  ASSUME IInv, NEW t \in Task, NEW c \in Client, Hit(t, c)
  PROVE  Quota!Admit(t, c) \/ Quota!TurnAway(t, c)
<1> DEFINE w == WindowOf(clock)
           old == buckets[c][w]
<1>1. TypeOK /\ w \in Windows /\ clock \in Nat
  BY CurrentWindow DEF IInv
<1>2. PICK n \in Nat \ {0} :
        /\ n = IF old < MaxHits THEN old + 1 ELSE MaxHits
        /\ buckets' = [Prune(c, w) EXCEPT ![c][w] = n]
        /\ decision' = [decision EXCEPT ![t] = Decide(c, n, w)]
        /\ decision[t] = Undecided
        /\ clock' = clock
  BY HitFacts
<1>3. old \in Nat /\ w \in Nat
  BY <1>1, WindowFacts DEF TypeOK
<1>4. /\ buckets'[c][w] = n
      /\ \A d \in Client : d # c => buckets'[d][w] = buckets[d][w]
  BY <1>1, <1>2, <1>3, PruneType
<1>5. w' = w
  BY <1>2 DEF WindowOf
<1>6. Admitted' = [d \in Client |-> LET k == buckets'[d][w]
                                    IN IF k < Limit THEN k ELSE Limit]
  BY <1>5 DEF Admitted
<1>7. Admitted[c] = IF old < Limit THEN old ELSE Limit
  BY DEF Admitted
<1>8. CASE old < Limit
  <2>1. n = old + 1 /\ n <= Limit /\ Limit - n \in Nat
    BY <1>2, <1>3, <1>8, LimitAssumption
  <2>2. Decide(c, n, w) = Quota!Decision(c, TRUE, Limit - Admitted[c] - 1)
    <3>1. Larger(Limit - n, 0) = Limit - Admitted[c] - 1
      BY <1>3, <1>7, <1>8, <2>1, LimitAssumption DEF Larger
    <3> QED BY <2>1, <3>1 DEF Decide, Quota!Decision, Quota!WindowOf, WindowOf
  <2>3. Admitted' = [Admitted EXCEPT ![c] = @ + 1]
    <3>1. (IF n < Limit THEN n ELSE Limit) = Admitted[c] + 1
      BY <1>3, <1>7, <1>8, <2>1, LimitAssumption
    <3>2. \A d \in Client : Admitted'[d] = IF d = c THEN Admitted[c] + 1 ELSE Admitted[d]
      BY <1>4, <1>6, <3>1 DEF Admitted
    <3> QED BY <1>6, <3>2 DEF Admitted
  <2>4. Admitted[c] < Limit
    BY <1>7, <1>8
  <2> HIDE DEF w, old
  <2> QED BY <1>2, <2>2, <2>3, <2>4 DEF Quota!Admit
<1>9. CASE ~(old < Limit)
  <2>1. n > Limit
    BY <1>2, <1>3, <1>9, LimitAssumption
  <2>2. Decide(c, n, w) = Quota!Decision(c, FALSE, 0)
    <3>1. Larger(Limit - n, 0) = 0 /\ (n <= Limit) = FALSE
      BY <2>1, LimitAssumption DEF Larger
    <3> QED BY <3>1 DEF Decide, Quota!Decision, Quota!WindowOf, WindowOf
  <2>3. Admitted' = Admitted
    <3>1. (IF n < Limit THEN n ELSE Limit) = Admitted[c]
      BY <1>3, <1>7, <1>9, <2>1, LimitAssumption
    <3>2. \A d \in Client : Admitted'[d] = Admitted[d]
      BY <1>4, <1>6, <3>1 DEF Admitted
    <3> QED BY <1>6, <3>2 DEF Admitted
  <2>4. Admitted[c] = Limit
    BY <1>7, <1>9
  <2> HIDE DEF w, old
  <2> QED BY <1>2, <2>2, <2>3, <2>4 DEF Quota!TurnAway
<1> QED BY <1>8, <1>9

\* The in-process store keeps the promise of the abstract limiter
\* (rate_limit.py:41-55).
THEOREM Refinement == Spec => ImplementsQuota
<1>1. Init => Quota!Init
  <2> SUFFICES ASSUME Init PROVE Quota!Init
    OBVIOUS
  <2>1. TypeOK /\ clock = 0 /\ decision = [t \in Task |-> Undecided]
    BY InvInit DEF Init, IInv
  <2>2. WindowOf(clock) \in Windows
    BY <2>1, CurrentWindow
  <2>3. \A c \in Client : buckets[c][WindowOf(clock)] = 0
    BY <2>2 DEF Init
  <2>4. Admitted = [c \in Client |-> 0]
    BY <2>3, LimitAssumption DEF Admitted
  <2> QED BY <2>1, <2>4 DEF Quota!Init
<1>2. IInv /\ [Next]_vars => [Quota!Next]_Quota!vars
  <2> SUFFICES ASSUME IInv, [Next]_vars PROVE [Quota!Next]_Quota!vars
    OBVIOUS
  <2>1. CASE Tick
    BY <2>1, QuotaTick DEF Quota!Next
  <2>2. ASSUME NEW t \in Task, NEW c \in Client, Hit(t, c)
        PROVE  Quota!Next
    BY <2>2, QuotaHit DEF Quota!Next
  <2>3. ASSUME NEW t \in Task, Start(t) PROVE UNCHANGED Quota!vars
    BY <2>3 DEF Start, Quota!vars, Admitted, WindowOf
  <2>4. ASSUME NEW t \in Task, Leave(t) PROVE Quota!Next
    <3>1. Quota!Leave(t)
      BY <2>4 DEF Leave, Quota!Leave, Admitted, WindowOf
    <3> QED BY <3>1 DEF Quota!Next
  <2>5. CASE UNCHANGED vars
    BY <2>5 DEF vars, Quota!vars, Admitted, WindowOf
  <2> QED BY <2>1, <2>2, <2>3, <2>4, <2>5 DEF Next
<1> QED BY <1>1, <1>2, Invariance, PTL DEF Spec, ImplementsQuota, Quota!Spec

\* What an admitted request adds to the history, whose entries are numbers.
LEMMA ServedFacts ==
  ASSUME TypeOK, NEW c \in Client
  PROVE  /\ served[c] \in Seq(0..MaxTime)
         /\ Len(served[c]) \in Nat
         /\ DOMAIN served[c] = 1..Len(served[c])
         /\ \A i \in DOMAIN served[c] : served[c][i] \in Nat /\ WindowOf(served[c][i]) \in Nat
<1>1. served[c] \in Seq(0..MaxTime)
  BY DEF TypeOK
<1>2. \A i \in DOMAIN served[c] : served[c][i] \in Nat
  BY <1>1, LimitAssumption
<1>3. \A i \in DOMAIN served[c] : WindowOf(served[c][i]) \in Nat
  BY <1>2, WindowFacts
<1>4. Len(served[c]) \in Nat /\ DOMAIN served[c] = 1..Len(served[c])
  BY <1>1
<1> QED BY <1>1, <1>2, <1>3, <1>4

LEMMA ServedInit == Init => ServedInv
BY DEF Init, ServedInv, Counted, Spaced

\* A second passes: an entry of the window it begins could only be a future one.
LEMMA ServedTick == ASSUME IInv, ServedInv, Tick PROVE ServedInv'
<1>1. TypeOK /\ clock \in Nat /\ clock' = clock + 1 /\ served' = served /\ buckets' = buckets
  BY CurrentWindow DEF IInv, Tick
<1>2. ASSUME NEW c \in Client, NEW i \in DOMAIN served[c]
      PROVE  /\ served[c][i] <= clock + 1
             /\ WindowOf(served[c][i]) = WindowOf(clock + 1) =>
                  /\ Len(served[c]) - i < buckets[c][WindowOf(clock + 1)]
                  /\ Len(served[c]) - i < Limit
  <2>1. served[c][i] \in Nat /\ WindowOf(served[c][i]) \in Nat /\ served[c][i] <= clock
    BY <1>1, ServedFacts DEF ServedInv, Counted
  <2>2. /\ WindowOf(clock) \in Nat /\ WindowOf(clock + 1) \in Nat
        /\ WindowOf(served[c][i]) <= WindowOf(clock) /\ WindowOf(clock) <= WindowOf(clock + 1)
    BY <1>1, <2>1, WindowFacts, WindowMonotone
  <2>3. WindowOf(served[c][i]) = WindowOf(clock + 1) => WindowOf(clock + 1) = WindowOf(clock)
    BY <2>1, <2>2
  <2>4. WindowOf(served[c][i]) = WindowOf(clock) =>
          /\ Len(served[c]) - i < buckets[c][WindowOf(clock)]
          /\ Len(served[c]) - i < Limit
    BY DEF ServedInv, Counted
  <2>5. served[c][i] <= clock + 1
    BY <1>1, <2>1
  <2> QED BY <2>3, <2>4, <2>5
<1>3. Counted'
  BY <1>1, <1>2 DEF Counted, WindowOf
<1>4. Spaced'
  BY <1>1 DEF ServedInv, Spaced, WindowOf
<1> QED BY <1>3, <1>4 DEF ServedInv

\* The admission of a client's n-th request of the window: the n - 1 before it
\* are all there is of this window, and n is at most the limit.
LEMMA ServedHit ==
  ASSUME IInv, ServedInv, NEW t \in Task, NEW c \in Client, Hit(t, c)
  PROVE  ServedInv'
<1> DEFINE w == WindowOf(clock)
           old == buckets[c][w]
<1>1. TypeOK /\ w \in Windows /\ clock \in Nat
  BY CurrentWindow DEF IInv
<1>2. PICK n \in Nat \ {0} :
        /\ n = IF old < MaxHits THEN old + 1 ELSE MaxHits
        /\ buckets' = [Prune(c, w) EXCEPT ![c][w] = n]
        /\ decision'[t] = Decide(c, n, w)
        /\ clock' = clock
  BY HitFacts
<1>3. w \in Nat /\ old \in Nat
  BY <1>1, WindowFacts DEF TypeOK
<1>4. /\ buckets'[c][w] = n
      /\ \A d \in Client : d # c => buckets'[d][w] = buckets[d][w]
  BY <1>1, <1>2, <1>3, PruneType
<1>5. \/ served' = served
      \/ n <= Limit /\ served' = [served EXCEPT ![c] = Append(@, clock)]
  <2>1. decision'[t].allowed = (n <= Limit)
    BY <1>2, <1>3, DecideType
  <2> QED BY <2>1 DEF Hit
<1>6. w' = w
  BY <1>2 DEF WindowOf
<1>7. ASSUME NEW d \in Client, NEW i \in DOMAIN served[d]
      PROVE  /\ served[d][i] \in Nat /\ served[d][i] <= clock
             /\ WindowOf(served[d][i]) \in Nat
             /\ WindowOf(served[d][i]) = w =>
                  Len(served[d]) - i < buckets[d][w] /\ Len(served[d]) - i < Limit
             /\ Len(served[d]) \in Nat /\ i \in 1..Len(served[d])
             /\ served[d] \in Seq(0..MaxTime)
  BY <1>1, ServedFacts DEF ServedInv, Counted
<1>8. \A x : WindowOf(x)' = WindowOf(x)
  BY DEF WindowOf
<1>9. served[c] \in Seq(0..MaxTime) /\ clock \in 0..MaxTime /\ Len(served[c]) \in Nat
  BY <1>1 DEF TypeOK
<1>10. w = WindowOf(clock)
  OBVIOUS
<1> HIDE DEF w
<1>11. ASSUME served' = served PROVE ServedInv'
  <2>1. ASSUME NEW d \in Client, NEW i \in DOMAIN served[d], WindowOf(served[d][i]) = w
        PROVE  Len(served[d]) - i < buckets'[d][w] /\ Len(served[d]) - i < Limit
    <3>1. Len(served[d]) - i < buckets[d][w] /\ Len(served[d]) - i < Limit
      BY <1>7, <2>1
    <3>2. CASE d = c
      <4>1. n > Limit \/ n >= old
        BY <1>2, <1>3, LimitAssumption
      <4>2. Len(served[d]) - i < n
        BY <1>3, <1>7, <2>1, <3>1, <3>2, <4>1, LimitAssumption
      <4> QED BY <1>4, <3>1, <3>2, <4>2
    <3>3. CASE d # c
      BY <1>4, <3>1, <3>3
    <3> QED BY <3>2, <3>3
  <2>2. Counted'
    BY <1>2, <1>6, <1>7, <1>10, <1>11, <2>1 DEF Counted, WindowOf
  <2>3. Spaced'
    BY <1>11 DEF ServedInv, Spaced, WindowOf
  <2> QED BY <2>2, <2>3 DEF ServedInv
<1>12. ASSUME n <= Limit, served' = [served EXCEPT ![c] = Append(@, clock)]
       PROVE  ServedInv'
  <2>1. /\ served'[c] = Append(served[c], clock)
        /\ \A d \in Client : d # c => served'[d] = served[d]
    BY <1>1, <1>12 DEF TypeOK
  <2> DEFINE m == Len(served[c])
  <2>2. /\ Len(served'[c]) = m + 1
        /\ DOMAIN served'[c] = 1..(m + 1)
        /\ served'[c][m + 1] = clock
        /\ \A i \in 1..m : i \in DOMAIN served[c] /\ served'[c][i] = served[c][i]
    BY <1>9, <2>1
  <2>0. m \in Nat /\ Limit \in Nat /\ Limit > 0 /\ n \in Nat
    BY <1>9, LimitAssumption
  <2>3. n = old + 1
    BY <1>2, <1>3, <1>12, LimitAssumption
  <2>4. ASSUME NEW d \in Client, NEW i \in DOMAIN served'[d]
        PROVE  /\ served'[d][i] <= clock
               /\ WindowOf(served'[d][i]) = w =>
                    Len(served'[d]) - i < buckets'[d][w] /\ Len(served'[d]) - i < Limit
    <3>1. CASE d # c
      BY <1>4, <1>7, <2>1, <2>4, <3>1
    <3>2. CASE d = c /\ i = m + 1
      <4>1. served'[d][i] = clock /\ Len(served'[d]) - i = 0
        BY <1>9, <2>2, <3>2
      <4>2. buckets'[d][w] > 0
        BY <1>4, <3>2
      <4> QED BY <1>1, <4>1, <4>2, LimitAssumption
    <3>3. CASE d = c /\ i \in 1..m
      <4>1. /\ served'[d][i] = served[c][i] /\ i \in DOMAIN served[c]
            /\ Len(served'[d]) = m + 1 /\ buckets'[d][w] = n
        BY <1>4, <2>2, <3>3
      <4>2. /\ served[c][i] <= clock
            /\ WindowOf(served[c][i]) = w => m - i < old
        BY <1>7, <4>1
      <4> HIDE DEF m, old
      <4>3. WindowOf(served[c][i]) = w =>
              (m + 1) - i < n /\ (m + 1) - i < Limit
        BY <1>3, <1>12, <2>0, <2>3, <3>3, <4>2
      <4>4. WindowOf(served'[d][i]) = w => (m + 1) - i < n /\ (m + 1) - i < Limit
        BY <4>1, <4>3
      <4>5. served'[d][i] <= clock
        BY <4>1, <4>2
      <4>6. (m + 1) - i = Len(served'[d]) - i /\ n = buckets'[d][w]
        BY <4>1
      <4> QED BY <4>4, <4>5, <4>6
    <3> QED BY <1>9, <2>2, <2>4, <3>1, <3>2, <3>3
  <2>5. Counted'
    BY <1>2, <1>6, <1>10, <2>4 DEF Counted, WindowOf
  <2>6. ASSUME NEW d \in Client, NEW i \in DOMAIN served'[d], NEW j \in DOMAIN served'[d],
               j = i + Limit
        PROVE  WindowOf(served'[d][i]) < WindowOf(served'[d][j])
    <3>0. CASE d # c
      BY <2>1, <2>6, <3>0 DEF ServedInv, Spaced
    <3>1. CASE d = c /\ j \in 1..m
      <4>1. i \in 1..m
        <5> HIDE DEF m
        <5> QED BY <2>0, <2>2, <2>6, <3>1
      <4>2. /\ i \in DOMAIN served[c] /\ served'[c][i] = served[c][i]
            /\ j \in DOMAIN served[c] /\ served'[c][j] = served[c][j]
        BY <2>2, <3>1, <4>1
      <4> QED BY <2>6, <3>1, <4>2 DEF ServedInv, Spaced
    <3>2. CASE d = c /\ j = m + 1
      <4>1. i \in 1..m /\ m - i = Limit - 1
        <5> HIDE DEF m
        <5> QED BY <2>0, <2>2, <2>6, <3>2
      <4>2. i \in DOMAIN served[c] /\ served'[d][i] = served[c][i] /\ served'[d][j] = clock
        BY <2>2, <3>2, <4>1
      <4>3. /\ served[c][i] \in Nat /\ served[c][i] <= clock /\ WindowOf(served[c][i]) \in Nat
            /\ WindowOf(served[c][i]) = w => m - i < old
        BY <1>7, <4>2
      <4> HIDE DEF m, old
      <4>4. WindowOf(served[c][i]) # w
        BY <1>3, <1>12, <2>0, <2>3, <4>1, <4>3
      <4>5. WindowOf(served[c][i]) <= w
        BY <1>1, <1>10, <4>3, WindowMonotone
      <4> QED BY <1>3, <1>10, <4>2, <4>3, <4>4, <4>5
    <3> QED BY <2>0, <2>2, <2>6, <3>0, <3>1, <3>2
  <2>7. Spaced'
    BY <2>6 DEF Spaced, WindowOf
  <2> QED BY <2>5, <2>7 DEF ServedInv
<1> QED BY <1>5, <1>11, <1>12

LEMMA ServedStep == IInv /\ ServedInv /\ [Next]_vars => ServedInv'
<1> SUFFICES ASSUME IInv, ServedInv, [Next]_vars PROVE ServedInv'
  OBVIOUS
<1>1. CASE Tick
  BY <1>1, ServedTick
<1>2. ASSUME NEW t \in Task, NEW c \in Client, Hit(t, c) PROVE ServedInv'
  BY <1>2, ServedHit
<1>3. CASE clock' = clock /\ served' = served /\ buckets' = buckets
  BY <1>3 DEF ServedInv, Counted, Spaced, WindowOf
<1>4. \A t \in Task : Start(t) \/ Leave(t) =>
        clock' = clock /\ served' = served /\ buckets' = buckets
  BY DEF Start, Leave
<1>5. UNCHANGED vars => clock' = clock /\ served' = served /\ buckets' = buckets
  BY DEF vars
<1> QED BY <1>1, <1>2, <1>3, <1>4, <1>5 DEF Next

\* Limit requests on, the window is a later one; twice Limit on, at least one
\* window lies between.
LEMMA BurstFromSpacing == ASSUME IInv, ServedInv PROVE BurstBound
<1> SUFFICES ASSUME NEW c \in Client, NEW i \in DOMAIN served[c], NEW k \in DOMAIN served[c],
                    k = i + 2 * Limit
             PROVE  served[c][k] >= served[c][i] + Window
  BY DEF BurstBound
<1> DEFINE j == i + Limit
<1>1. /\ TypeOK /\ Len(served[c]) \in Nat
      /\ DOMAIN served[c] = 1..Len(served[c])
      /\ \A l \in DOMAIN served[c] : served[c][l] \in Nat /\ WindowOf(served[c][l]) \in Nat
  BY ServedFacts DEF IInv
<1>2. j \in DOMAIN served[c] /\ k = j + Limit
  BY <1>1, LimitAssumption
<1>3. WindowOf(served[c][i]) < WindowOf(served[c][j])
  BY <1>2 DEF ServedInv, Spaced
<1>4. WindowOf(served[c][j]) < WindowOf(served[c][k])
  <2> HIDE DEF j
  <2> QED BY <1>2 DEF ServedInv, Spaced
<1> DEFINE first == WindowOf(served[c][i])
           last == WindowOf(served[c][k])
<1>5. first \in Nat /\ last \in Nat /\ first + 2 <= last
  BY <1>1, <1>2, <1>3, <1>4
<1>6. /\ served[c][i] \in Nat /\ served[c][i] < Window * (first + 1)
      /\ served[c][k] \in Nat /\ Window * last <= served[c][k]
  BY <1>1, WindowFacts
<1> HIDE DEF first, last
<1>7. Window * (first + 1) + Window <= Window * last
  <2>1. Window * (first + 1) + Window = Window * (first + 2)
    BY <1>5, LimitAssumption
  <2>2. Window * (first + 2) <= Window * last
    BY <1>5, LimitAssumption
  <2> QED BY <2>1, <2>2
<1>8. Window * (first + 1) \in Nat /\ Window * last \in Nat /\ Window \in Nat
  BY <1>5, LimitAssumption
<1> QED BY <1>6, <1>7, <1>8

\* No client is admitted more than twice its limit in Window seconds, wherever
\* they begin (rate_limit.py:43, 52).
THEOREM BurstIsBounded == Spec => []BurstBound
BY Invariance, ServedInit, ServedStep, BurstFromSpacing, PTL DEF Spec
================================================================================
