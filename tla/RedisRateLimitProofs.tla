-------------------------- MODULE RedisRateLimitProofs -------------------------
(***************************************************************************)
(* Proofs about RedisRateLimit, for every limit and window length, any     *)
(* number of clients and of requests in flight, however late they are.     *)
(***************************************************************************)
EXTENDS RedisRateLimit, TLAPS

\* The windows partition the clock.
LEMMA WindowFacts ==
  ASSUME NEW n \in Nat
  PROVE  /\ WindowOf(n) \in Nat
         /\ Window * WindowOf(n) <= n
         /\ n < Window * (WindowOf(n) + 1)
BY LimitAssumption, SMTT(30) DEF WindowOf

LEMMA WindowMonotone ==
  ASSUME NEW n \in Nat, NEW m \in Nat, n <= m
  PROVE  WindowOf(n) <= WindowOf(m)
BY LimitAssumption, SMTT(30) DEF WindowOf

\* A window from now ends no sooner than any window that has begun.
LEMMA WindowReach ==
  ASSUME NEW n \in Nat, NEW w \in Nat, w <= WindowOf(n)
  PROVE  n + Window >= (w + 1) * Window
<1>1. WindowOf(n) \in Nat /\ Window * WindowOf(n) <= n /\ Window \in Nat \ {0}
  BY WindowFacts, LimitAssumption
<1>2. w * Window <= Window * WindowOf(n)
  BY <1>1
<1>3. (w + 1) * Window = w * Window + Window /\ w * Window \in Nat
  BY <1>1
<1>4. Window * WindowOf(n) \in Nat
  BY <1>1
<1> QED BY <1>1, <1>2, <1>3, <1>4

\* Conversely, who has come to the end of a window is in a later one.
LEMMA WindowPassed ==
  ASSUME NEW n \in Nat, NEW w \in Nat, n >= (w + 1) * Window
  PROVE  w < WindowOf(n)
<1>1. WindowOf(n) \in Nat /\ n < Window * (WindowOf(n) + 1) /\ Window \in Nat \ {0}
  BY WindowFacts, LimitAssumption
<1>2. SUFFICES ASSUME WindowOf(n) <= w PROVE FALSE
  BY <1>1
<1>3. Window * (WindowOf(n) + 1) <= Window * (w + 1)
  BY <1>1, <1>2
<1>4. /\ Window * (w + 1) = (w + 1) * Window
      /\ Window * (w + 1) \in Nat
      /\ Window * (WindowOf(n) + 1) \in Nat
  BY <1>1
<1> QED BY <1>1, <1>3, <1>4

\* The clock is always inside a window the model has.
LEMMA CurrentWindow ==
  ASSUME TypeOK
  PROVE  /\ clock \in Nat
         /\ WindowOf(clock) \in Windows
         /\ WindowOf(clock) \in Nat
<1>1. clock \in Nat /\ MaxTime \in Nat /\ clock <= MaxTime
  BY LimitAssumption DEF TypeOK
<1> QED BY <1>1, WindowMonotone, WindowFacts DEF Windows

LEMMA WindowsNat == Windows \subseteq Nat
BY DEF Windows

LEMMA KeyFacts ==
  ASSUME TypeOK, NEW t \in Task
  PROVE  /\ Key(hit[t]) \in Counter
         /\ Key(hit[t])[2] = hit[t].window
         /\ hit[t].window \in Windows
         /\ hit[t].window \in Nat
<1>1. hit[t] \in [client : Client, window : Windows]
  BY DEF TypeOK
<1> QED BY <1>1, WindowsNat DEF Key, Counter

LEMMA InvInit == Init => IInv
<1> SUFFICES ASSUME Init PROVE IInv
  OBVIOUS
<1>1. clock \in 0..MaxTime /\ clock = 0
  BY LimitAssumption DEF Init
<1>2. WindowOf(0) = 0 /\ 0 \in Windows
  <2>1. WindowOf(0) \in Nat /\ Window * WindowOf(0) <= 0
    BY WindowFacts
  <2>2. WindowOf(0) = 0
    BY <2>1, LimitAssumption
  <2>3. WindowOf(MaxTime) \in Nat
    BY WindowFacts, LimitAssumption
  <2> QED BY <2>2, <2>3 DEF Windows
<1>3. TypeOK
  <2>1. hit \in [Task -> [client : Client, window : Windows]]
    BY <1>2, LimitAssumption DEF Init
  <2>2. latest \in [Counter -> Windows]
    BY DEF Init, Counter
  <2> QED BY <1>1, <2>1, <2>2 DEF Init, TypeOK, Never
<1>4. HitInv
  BY <1>1, <1>2 DEF Init, HitInv
<1>5. CounterInv
  BY <1>1 DEF Init, CounterInv, Never
<1>6. PromptQuota
  BY LimitAssumption DEF Init, PromptQuota
<1> QED BY <1>3, <1>4, <1>5, <1>6 DEF IInv

\* Time passes: a counter whose window lasts is not due.
LEMMA TickStep == ASSUME IInv, Tick PROVE IInv'
<1>1. /\ TypeOK /\ HitInv /\ CounterInv /\ PromptQuota
      /\ clock \in Nat /\ WindowOf(clock) \in Nat
  BY CurrentWindow DEF IInv
<1>2. clock' = clock + 1 /\ clock' \in 0..MaxTime /\ clock + 1 \in Nat
  BY <1>1, LimitAssumption DEF Tick, TypeOK
<1>3. /\ WindowOf(clock + 1) \in Nat
      /\ WindowOf(clock) <= WindowOf(clock + 1)
      /\ clock + 1 < Window * (WindowOf(clock + 1) + 1)
  BY <1>1, <1>2, WindowFacts, WindowMonotone
<1>4. TypeOK'
  BY <1>1, <1>2 DEF Tick, TypeOK
<1>5. HitInv'
  <2>1. hit' = hit /\ WindowOf(clock)' = WindowOf(clock + 1)
    BY <1>2 DEF Tick, WindowOf
  <2>2. \A t \in Task : hit[t].window \in Nat /\ hit[t].window <= WindowOf(clock)
    BY <1>1, KeyFacts DEF HitInv
  <2>3. \A t \in Task : hit[t].window <= WindowOf(clock + 1)
    BY <1>1, <1>3, <2>2
  <2> QED BY <2>1, <2>3 DEF HitInv
<1>6. CounterInv'
  <2> SUFFICES ASSUME NEW k \in Counter
               PROVE  /\ deadline'[k] # Never => /\ deadline'[k] > clock + 1
                                                 /\ deadline'[k] >= (k[2] + 1) * Window
                      /\ count'[k] > 0 => k[2] <= WindowOf(clock + 1)
                      /\ k[2] >= WindowOf(clock + 1) => prompt[k] <= count'[k]
                      /\ count'[k] <= charged[k]
    BY <1>2 DEF CounterInv, Counter, Windows, Never, WindowOf, Tick
  <2>1. k[2] \in Nat
    BY WindowsNat DEF Counter
  <2>2. /\ count[k] \in Nat /\ charged[k] \in Nat /\ prompt[k] \in Nat
        /\ deadline[k] \in Nat \cup {Never}
    BY <1>1 DEF TypeOK
  <2>3. /\ count'[k] = IF deadline[k] = clock + 1 THEN 0 ELSE count[k]
        /\ deadline'[k] = IF deadline[k] = clock + 1 THEN Never ELSE deadline[k]
    BY DEF Tick
  <2>4. /\ deadline[k] # Never => deadline[k] > clock /\ deadline[k] >= (k[2] + 1) * Window
        /\ count[k] > 0 => k[2] <= WindowOf(clock)
        /\ k[2] >= WindowOf(clock) => prompt[k] <= count[k]
        /\ count[k] <= charged[k]
    BY <1>1 DEF CounterInv
  <2>5. deadline'[k] # Never =>
          deadline'[k] > clock + 1 /\ deadline'[k] >= (k[2] + 1) * Window
    BY <1>1, <2>2, <2>3, <2>4 DEF Never
  <2>6. k[2] >= WindowOf(clock + 1) => deadline[k] # clock + 1
    <3> SUFFICES ASSUME k[2] >= WindowOf(clock + 1), deadline[k] = clock + 1
                 PROVE  FALSE
      OBVIOUS
    <3>1. clock + 1 >= (k[2] + 1) * Window
      BY <1>1, <2>4 DEF Never
    <3>2. Window * (WindowOf(clock + 1) + 1) <= Window * (k[2] + 1)
      BY <1>3, <2>1, LimitAssumption
    <3>3. (k[2] + 1) * Window = Window * (k[2] + 1) /\ Window * (k[2] + 1) \in Nat
      BY <2>1, LimitAssumption
    <3>4. Window * (WindowOf(clock + 1) + 1) \in Nat
      BY <1>3, LimitAssumption
    <3> QED BY <1>2, <1>3, <3>1, <3>2, <3>3, <3>4
  <2>7. k[2] >= WindowOf(clock + 1) => prompt[k] <= count'[k]
    BY <1>1, <1>3, <2>1, <2>3, <2>4, <2>6
  <2>8. count'[k] > 0 => k[2] <= WindowOf(clock + 1)
    BY <1>1, <1>3, <2>1, <2>2, <2>3, <2>4
  <2>9. count'[k] <= charged[k]
    BY <2>2, <2>3, <2>4
  <2> QED BY <2>5, <2>7, <2>8, <2>9
<1>7. PromptQuota'
  BY <1>1 DEF Tick, PromptQuota, Counter, Windows
<1> QED BY <1>4, <1>5, <1>6, <1>7 DEF IInv

\* What an executed INCR changes, by name.
LEMMA IncrementFacts ==
  ASSUME TypeOK, NEW t \in Task, Increment(t)
  PROVE  /\ clock' = clock /\ deadline' = deadline /\ hit' = hit
         /\ pc[t] = "counting"
         /\ count' = [count EXCEPT ![Key(hit[t])] = @ + 1]
         /\ charged' = [charged EXCEPT ![Key(hit[t])] = @ + 1]
BY DEF Increment, Key

\* An INCR that is granted or not keeps the counters in order.
LEMMA IncrementStep ==
  ASSUME IInv, NEW t \in Task, Increment(t),
         prompt' = prompt \/
           (/\ Within(count[Key(hit[t])] + 1)
            /\ prompt' = [prompt EXCEPT ![Key(hit[t])] = @ + 1]
            /\ WindowOf(clock) = hit[t].window)
  PROVE  CounterInv' /\ PromptQuota'
<1> DEFINE q == Key(hit[t])
<1>1. /\ TypeOK /\ HitInv /\ CounterInv /\ PromptQuota
      /\ clock \in Nat /\ WindowOf(clock) \in Nat
  BY CurrentWindow DEF IInv
<1>2. /\ q \in Counter /\ q[2] = hit[t].window /\ hit[t].window \in Nat
      /\ hit[t].window <= WindowOf(clock)
  BY <1>1, KeyFacts DEF HitInv
<1>3. /\ clock' = clock /\ deadline' = deadline
      /\ count' = [count EXCEPT ![q] = @ + 1]
      /\ charged' = [charged EXCEPT ![q] = @ + 1]
  BY <1>1, IncrementFacts
<1> HIDE DEF q
<1>4. prompt' = prompt \/
        (/\ count[q] + 1 <= Limit
         /\ prompt' = [prompt EXCEPT ![q] = @ + 1]
         /\ WindowOf(clock) = q[2])
  BY <1>2 DEF q, Within
<1>5. ASSUME NEW k \in Counter
      PROVE  /\ count[k] \in Nat /\ charged[k] \in Nat /\ prompt[k] \in Nat /\ k[2] \in Nat
             /\ count'[k] = (IF k = q THEN count[k] + 1 ELSE count[k])
             /\ charged'[k] = (IF k = q THEN charged[k] + 1 ELSE charged[k])
             /\ \/ prompt'[k] = prompt[k]
                \/ /\ k = q /\ prompt'[k] = prompt[k] + 1
                   /\ count[k] + 1 <= Limit /\ WindowOf(clock) = k[2]
  <2>1. k[2] \in Nat
    BY WindowsNat DEF Counter
  <2>2. count \in [Counter -> Nat] /\ charged \in [Counter -> Nat] /\ prompt \in [Counter -> Nat]
    BY <1>1 DEF TypeOK
  <2> QED BY <1>3, <1>4, <2>1, <2>2
<1>6. ASSUME NEW k \in Counter
      PROVE  /\ deadline[k] # Never => deadline[k] > clock /\ deadline[k] >= (k[2] + 1) * Window
             /\ count[k] > 0 => k[2] <= WindowOf(clock)
             /\ k[2] >= WindowOf(clock) => prompt[k] <= count[k]
             /\ count[k] <= charged[k]
             /\ prompt[k] <= Limit
  BY <1>1 DEF CounterInv, PromptQuota
<1>7. ASSUME NEW k \in Counter
      PROVE  /\ count'[k] > 0 => k[2] <= WindowOf(clock)
             /\ k[2] >= WindowOf(clock) => prompt'[k] <= count'[k]
             /\ count'[k] <= charged'[k]
             /\ prompt'[k] <= Limit
  BY <1>1, <1>2, <1>5, <1>6, LimitAssumption
<1>8. CounterInv'
  BY <1>3, <1>6, <1>7 DEF CounterInv, Counter, Windows, Never, WindowOf
<1>9. PromptQuota'
  BY <1>7 DEF PromptQuota, Counter, Windows
<1> QED BY <1>8, <1>9

LEMMA IncrementType ==
  ASSUME IInv, NEW t \in Task, Increment(t)
  PROVE  /\ clock' \in 0..MaxTime
         /\ count' \in [Counter -> Nat]
         /\ charged' \in [Counter -> Nat]
         /\ deadline' \in [Counter -> Nat \cup {Never}]
         /\ hit' \in [Task -> [client : Client, window : Windows]]
         /\ HitInv'
<1>1. TypeOK /\ HitInv
  BY DEF IInv
<1>2. Key(hit[t]) \in Counter
  BY <1>1, KeyFacts
<1>3. /\ clock' = clock /\ deadline' = deadline /\ hit' = hit
      /\ count' = [count EXCEPT ![Key(hit[t])] = @ + 1]
      /\ charged' = [charged EXCEPT ![Key(hit[t])] = @ + 1]
  BY <1>1, IncrementFacts
<1>4. HitInv'
  BY <1>1, <1>3 DEF HitInv, WindowOf
<1> QED BY <1>1, <1>2, <1>3, <1>4 DEF TypeOK

LEMMA RepliedStep ==
  ASSUME IInv, NEW t \in Task, Replied(t)
  PROVE  IInv'
<1> DEFINE q == Key(hit[t])
           n == count[q] + 1
<1>1. TypeOK /\ Increment(t) /\ q \in Counter
  BY KeyFacts DEF IInv, Replied
<1>2. /\ Grant(t, n)
      /\ pc' = [pc EXCEPT ![t] = IF n = 1 THEN "expiring"
                                 ELSE IF Within(n) THEN "allowed" ELSE "refused"]
      /\ orphaned' = orphaned
  BY DEF Replied
<1>3. q = <<hit[t].client, hit[t].window>>
  BY DEF Key
<1> HIDE DEF q, n
<1>4. \/ granted' = granted /\ prompt' = prompt
      \/ /\ Within(n) /\ granted' = [granted EXCEPT ![q] = @ + 1]
         /\ \/ prompt' = prompt
            \/ WindowOf(clock) = hit[t].window /\ prompt' = [prompt EXCEPT ![q] = @ + 1]
  BY <1>2, <1>3 DEF Grant
<1>5. granted' \in [Counter -> Nat] /\ prompt' \in [Counter -> Nat]
  BY <1>1, <1>4 DEF TypeOK
<1>l. latest' \in [Counter -> Windows]
  <2>1. latest' = latest \/ latest' = [latest EXCEPT ![q] = WindowOf(clock)]
    BY <1>2, <1>3 DEF Grant
  <2> QED BY <1>1, <2>1, CurrentWindow DEF TypeOK
<1>6. pc' \in [Task -> {"idle", "counting", "expiring", "allowed", "refused"}]
  BY <1>1, <1>2 DEF TypeOK
<1>7. orphaned' \in [Counter -> BOOLEAN]
  BY <1>1, <1>2 DEF TypeOK
<1>8. TypeOK' /\ HitInv'
  BY <1>1, <1>5, <1>l, <1>6, <1>7, IncrementType DEF TypeOK
<1>9. CounterInv' /\ PromptQuota'
  BY <1>1, <1>4, IncrementStep DEF q, n
<1> QED BY <1>8, <1>9 DEF IInv

LEMMA ReplyLostStep ==
  ASSUME IInv, NEW t \in Task, ReplyLost(t)
  PROVE  IInv'
<1>1. TypeOK /\ Increment(t) /\ Key(hit[t]) \in Counter
  BY KeyFacts DEF IInv, ReplyLost
<1>2. /\ prompt' = prompt /\ granted' = granted /\ latest' = latest
      /\ orphaned' = [orphaned EXCEPT ![Key(hit[t])] = @ \/ count[Key(hit[t])] = 0]
      /\ pc' = pc \/ pc' = [pc EXCEPT ![t] = "idle"]
  BY DEF ReplyLost
<1>3. orphaned' \in [Counter -> BOOLEAN]
  BY <1>1, <1>2 DEF TypeOK
<1>4. pc' \in [Task -> {"idle", "counting", "expiring", "allowed", "refused"}]
  BY <1>1, <1>2 DEF TypeOK
<1>5. granted' \in [Counter -> Nat] /\ prompt' \in [Counter -> Nat] /\ latest' \in [Counter -> Windows]
  BY <1>1, <1>2 DEF TypeOK
<1>6. TypeOK' /\ HitInv'
  BY <1>1, <1>3, <1>4, <1>5, IncrementType DEF TypeOK
<1>7. CounterInv' /\ PromptQuota'
  BY <1>1, <1>2, IncrementStep
<1> QED BY <1>6, <1>7 DEF IInv

\* EXPIRE lets a counter outlive its window.
LEMMA ExpireStep ==
  ASSUME IInv, NEW t \in Task, Expire(t), orphaned' = orphaned,
         pc' = pc \/ (\E s \in {"idle", "allowed"} : pc' = [pc EXCEPT ![t] = s])
  PROVE  IInv'
<1> DEFINE q == Key(hit[t])
<1>1. /\ TypeOK /\ HitInv /\ CounterInv /\ PromptQuota
      /\ clock \in Nat /\ WindowOf(clock) \in Nat
  BY CurrentWindow DEF IInv
<1>2. q \in Counter /\ q[2] = hit[t].window /\ hit[t].window \in Nat
  BY <1>1, KeyFacts
<1>3. /\ clock' = clock /\ count' = count /\ hit' = hit
      /\ charged' = charged /\ granted' = granted /\ prompt' = prompt /\ latest' = latest
      /\ deadline' = IF count[q] > 0 THEN [deadline EXCEPT ![q] = Life(hit[t])] ELSE deadline
  BY DEF Expire
<1>4. /\ Life(hit[t]) \in Nat
      /\ Life(hit[t]) > clock
      /\ Life(hit[t]) >= (q[2] + 1) * Window
  <2>1. q[2] <= WindowOf(clock)
    BY <1>1, <1>2 DEF HitInv
  <2>2. clock + Window >= (q[2] + 1) * Window
    BY <1>1, <1>2, <2>1, WindowReach
  <2> QED BY <1>1, <2>2, LimitAssumption DEF Life
<1> HIDE DEF q
<1>5. TypeOK'
  <2>1. deadline' \in [Counter -> Nat \cup {Never}]
    BY <1>1, <1>2, <1>3, <1>4 DEF TypeOK
  <2>2. pc' \in [Task -> {"idle", "counting", "expiring", "allowed", "refused"}]
    BY <1>1 DEF TypeOK
  <2> QED BY <1>1, <1>3, <2>1, <2>2 DEF TypeOK
<1>6. HitInv'
  BY <1>1, <1>3 DEF HitInv, WindowOf
<1>7. CounterInv'
  <2>1. ASSUME NEW k \in Counter
        PROVE  deadline'[k] # Never =>
                 deadline'[k] > clock /\ deadline'[k] >= (k[2] + 1) * Window
    <3>1. deadline'[k] = deadline[k] \/ (k = q /\ deadline'[k] = Life(hit[t]))
      BY <1>1, <1>2, <1>3 DEF TypeOK
    <3> QED BY <1>1, <1>4, <3>1 DEF CounterInv
  <2> QED BY <1>1, <1>3, <2>1 DEF CounterInv, Counter, Windows, Never, WindowOf
<1>8. PromptQuota'
  BY <1>1, <1>3 DEF PromptQuota, Counter, Windows
<1> QED BY <1>5, <1>6, <1>7, <1>8 DEF IInv

LEMMA InvStep == IInv /\ [Next]_vars => IInv'
<1> SUFFICES ASSUME IInv, [Next]_vars PROVE IInv'
  OBVIOUS
<1>0. TypeOK /\ HitInv /\ CounterInv /\ PromptQuota
  BY DEF IInv
<1>1. CASE Tick
  BY <1>1, TickStep
<1>2. ASSUME NEW t \in Task, NEW c \in Client, Begin(t, c) PROVE IInv'
  <2>1. clock \in 0..MaxTime /\ clock \in Nat /\ WindowOf(clock) \in Windows
    BY <1>0, CurrentWindow DEF TypeOK
  <2>2. TypeOK'
    BY <1>0, <1>2, <2>1 DEF Begin, TypeOK, store, history
  <2>3. HitInv'
    <3>1. ASSUME NEW s \in Task PROVE hit'[s].window <= WindowOf(clock)
      <4>1. CASE s = t
        <5>1. hit'[s].window = WindowOf(clock)
          BY <1>0, <1>2, <4>1 DEF Begin, TypeOK
        <5>2. WindowOf(clock) \in Nat
          BY <1>0, CurrentWindow
        <5> QED BY <5>1, <5>2
      <4>2. CASE s # t
        BY <1>0, <1>2, <4>2 DEF Begin, TypeOK, HitInv
      <4> QED BY <4>1, <4>2
    <3>2. WindowOf(clock)' = WindowOf(clock)
      BY <1>2 DEF Begin, WindowOf
    <3> QED BY <3>1, <3>2 DEF HitInv
  <2>4. CounterInv' /\ PromptQuota'
    BY <1>0, <1>2 DEF Begin, store, history, CounterInv, PromptQuota, Counter, Windows,
                      Never, WindowOf
  <2> QED BY <2>2, <2>3, <2>4 DEF IInv
<1>3. ASSUME NEW t \in Task, Replied(t) PROVE IInv'
  BY <1>3, RepliedStep
<1>4. ASSUME NEW t \in Task, ReplyLost(t) PROVE IInv'
  BY <1>4, ReplyLostStep
<1>5. ASSUME NEW t \in Task, Expired(t) PROVE IInv'
  BY <1>5, ExpireStep DEF Expired
<1>6. ASSUME NEW t \in Task, ExpiredLost(t) PROVE IInv'
  BY <1>6, ExpireStep DEF ExpiredLost
<1>7. ASSUME NEW t \in Task, Fail(t) PROVE IInv'
  <2>1. Key(hit[t]) \in Counter
    BY <1>0, KeyFacts
  <2>2. orphaned' \in [Counter -> BOOLEAN]
    BY <1>0, <1>7, <2>1 DEF Fail, TypeOK
  <2>3. TypeOK'
    BY <1>0, <1>7, <2>2 DEF Fail, TypeOK, store
  <2>4. HitInv' /\ CounterInv' /\ PromptQuota'
    BY <1>0, <1>7 DEF Fail, store, HitInv, CounterInv, PromptQuota, Counter, Windows,
                      Never, WindowOf
  <2> QED BY <2>3, <2>4 DEF IInv
<1>8. ASSUME NEW t \in Task, Leave(t) PROVE IInv'
  <2>1. TypeOK'
    BY <1>0, <1>8 DEF Leave, TypeOK, store, history
  <2>2. HitInv' /\ CounterInv' /\ PromptQuota'
    BY <1>0, <1>8 DEF Leave, store, history, HitInv, CounterInv, PromptQuota, Counter,
                      Windows, Never, WindowOf
  <2> QED BY <2>1, <2>2 DEF IInv
<1>9. CASE UNCHANGED vars
  <2>1. TypeOK'
    BY <1>0, <1>9 DEF vars, TypeOK, store, history
  <2>2. HitInv' /\ CounterInv' /\ PromptQuota'
    BY <1>0, <1>9 DEF vars, store, history, HitInv, CounterInv, PromptQuota, Counter,
                      Windows, Never, WindowOf
  <2> QED BY <2>1, <2>2 DEF IInv
<1> QED BY <1>1, <1>2, <1>3, <1>4, <1>5, <1>6, <1>7, <1>8, <1>9 DEF Next

\* Types, the origin of every hit, the life of every counter
\* (rate_limit.py:81-92).
THEOREM Invariance == Spec => []IInv
BY InvInit, InvStep, PTL DEF Spec

\* At most Limit requests of a client that Redis counts in time get through in a
\* window, over all workers (rate_limit.py:81-92).
THEOREM QuotaIsKept == Spec => []PromptQuota
<1>1. IInv => PromptQuota
  BY DEF IInv
<1> QED BY <1>1, Invariance, PTL

\* A request is refused only in a window that was charged Limit times
\* (rate_limit.py:86, 92).
THEOREM RefusalIsEarned == Spec => RefusalEarned
<1>1. ASSUME IInv, [Next]_vars, NEW t \in Task, pc[t] = "counting", pc'[t] = "refused"
      PROVE  charged[<<hit[t].client, hit[t].window>>] >= Limit
  <2>0. TypeOK /\ CounterInv /\ pc \in [Task -> {"idle", "counting", "expiring", "allowed", "refused"}]
    BY <1>1 DEF IInv, TypeOK
  <2>1. ~Tick /\ ~UNCHANGED vars
    BY <1>1 DEF Tick, vars
  <2>2. \A s \in Task : /\ \A c \in Client : ~Begin(s, c)
                        /\ ~ReplyLost(s) /\ ~Expired(s) /\ ~ExpiredLost(s)
                        /\ ~Fail(s) /\ ~Leave(s)
    BY <1>1, <2>0 DEF Begin, ReplyLost, Expired, ExpiredLost, Fail, Leave
  <2>3. PICK s \in Task : Replied(s)
    BY <1>1, <2>1, <2>2 DEF Next
  <2>4. s = t
    BY <1>1, <2>0, <2>3 DEF Replied
  <2> DEFINE q == Key(hit[t])
             n == count[q] + 1
  <2>5. ~(n <= Limit)
    <3>1. pc' = [pc EXCEPT ![t] = IF n = 1 THEN "expiring"
                                  ELSE IF Within(n) THEN "allowed" ELSE "refused"]
      BY <2>3, <2>4 DEF Replied
    <3> HIDE DEF n
    <3> QED BY <1>1, <2>0, <3>1 DEF Within
  <2>6. q \in Counter /\ q = <<hit[t].client, hit[t].window>>
    BY <2>0, KeyFacts DEF Key
  <2>7. count[q] <= charged[q] /\ count[q] \in Nat /\ charged[q] \in Nat
    <3> HIDE DEF q
    <3> QED BY <2>0, <2>6 DEF CounterInv, TypeOK
  <2>8. charged[q] >= Limit
    <3> HIDE DEF q
    <3> QED BY <2>5, <2>7, LimitAssumption
  <2> QED BY <2>6, <2>8
<1>2. IInv /\ [Next]_vars =>
        [\A t \in Task : pc[t] = "counting" /\ pc'[t] = "refused" =>
           charged[<<hit[t].client, hit[t].window>>] >= Limit]_vars
  BY <1>1
<1> QED BY <1>2, Invariance, PTL DEF Spec, RefusalEarned

\* A counter without a deadline keeps its excuse until it gets one.
LEMMA MortalStep == TypeOK /\ CountersMortal /\ [Next]_vars => CountersMortal'
<1> SUFFICES ASSUME TypeOK, CountersMortal, [Next]_vars,
                    NEW k \in Counter, count'[k] > 0, deadline'[k] = Never
             PROVE  \/ orphaned'[k]
                    \/ \E t \in Task : pc'[t] = "expiring" /\ Key(hit'[t]) = k
  BY DEF CountersMortal, Counter, Windows, Never, Key
<1>0. /\ count \in [Counter -> Nat] /\ orphaned \in [Counter -> BOOLEAN]
      /\ deadline \in [Counter -> Nat \cup {Never}]
      /\ pc \in [Task -> {"idle", "counting", "expiring", "allowed", "refused"}]
      /\ clock \in Nat
      /\ hit \in [Task -> [client : Client, window : Windows]]
  BY CurrentWindow DEF TypeOK
<1> DEFINE Excused == orphaned[k] \/ \E t \in Task : pc[t] = "expiring" /\ Key(hit[t]) = k
<1>1. count[k] > 0 /\ deadline[k] = Never => Excused
  BY DEF CountersMortal
<1>2. CASE Tick
  <2>1. /\ count'[k] = IF deadline[k] = clock + 1 THEN 0 ELSE count[k]
        /\ deadline'[k] = IF deadline[k] = clock + 1 THEN Never ELSE deadline[k]
        /\ orphaned'[k] = (orphaned[k] /\ deadline[k] # clock + 1)
        /\ pc' = pc /\ hit' = hit
    BY <1>2 DEF Tick
  <2>2. deadline[k] # clock + 1
    BY <2>1
  <2>3. count[k] > 0 /\ deadline[k] = Never
    BY <2>1, <2>2
  <2> QED BY <1>1, <2>1, <2>2, <2>3 DEF Key
<1>3. ASSUME NEW t \in Task, NEW c \in Client, Begin(t, c)
      PROVE  orphaned'[k] \/ \E s \in Task : pc'[s] = "expiring" /\ Key(hit'[s]) = k
  <2>1. Excused /\ orphaned' = orphaned
    BY <1>1, <1>3 DEF Begin, store, history
  <2>2. \A s \in Task : pc[s] = "expiring" => pc'[s] = "expiring" /\ hit'[s] = hit[s]
    BY <1>0, <1>3 DEF Begin
  <2> QED BY <2>1, <2>2 DEF Key
<1>4. ASSUME NEW t \in Task, Replied(t)
      PROVE  orphaned'[k] \/ \E s \in Task : pc'[s] = "expiring" /\ Key(hit'[s]) = k
  <2>1. /\ pc[t] = "counting" /\ hit' = hit /\ deadline' = deadline
        /\ count' = [count EXCEPT ![Key(hit[t])] = @ + 1]
        /\ orphaned' = orphaned
    BY <1>4, IncrementFacts DEF Replied
  <2>2. pc' = [pc EXCEPT ![t] = IF count[Key(hit[t])] + 1 = 1 THEN "expiring"
                ELSE IF Within(count[Key(hit[t])] + 1) THEN "allowed" ELSE "refused"]
    BY <1>4 DEF Replied
  <2>3. CASE count[k] > 0
    <3>1. Excused
      BY <1>1, <2>1, <2>3
    <3>2. \A s \in Task : pc[s] = "expiring" => pc'[s] = "expiring"
      BY <1>0, <2>1, <2>2
    <3> QED BY <2>1, <3>1, <3>2
  <2>4. CASE ~(count[k] > 0)
    <3>1. count[k] = 0
      BY <1>0, <2>4
    <3>2. k = Key(hit[t])
      BY <1>0, <2>1, <3>1
    <3>3. pc'[t] = "expiring"
      BY <1>0, <2>2, <3>1, <3>2
    <3> QED BY <2>1, <3>2, <3>3
  <2> QED BY <2>3, <2>4
<1>5. ASSUME NEW t \in Task, ReplyLost(t)
      PROVE  orphaned'[k] \/ \E s \in Task : pc'[s] = "expiring" /\ Key(hit'[s]) = k
  <2>1. /\ pc[t] = "counting" /\ hit' = hit /\ deadline' = deadline
        /\ count' = [count EXCEPT ![Key(hit[t])] = @ + 1]
    BY <1>5, IncrementFacts DEF ReplyLost
  <2>2. /\ orphaned' = [orphaned EXCEPT ![Key(hit[t])] = @ \/ count[Key(hit[t])] = 0]
        /\ pc' = pc \/ pc' = [pc EXCEPT ![t] = "idle"]
    BY <1>5 DEF ReplyLost
  <2>3. CASE count[k] > 0
    <3>1. Excused
      BY <1>1, <2>1, <2>3
    <3>2. \A s \in Task : pc[s] = "expiring" => pc'[s] = "expiring"
      BY <1>0, <2>1, <2>2
    <3>3. orphaned[k] => orphaned'[k]
      BY <1>0, <2>2
    <3> QED BY <2>1, <3>1, <3>2, <3>3
  <2>4. CASE ~(count[k] > 0)
    <3>1. count[k] = 0
      BY <1>0, <2>4
    <3>2. k = Key(hit[t])
      BY <1>0, <2>1, <3>1
    <3> QED BY <1>0, <2>2, <3>1, <3>2
  <2> QED BY <2>3, <2>4
<1>6. ASSUME NEW t \in Task, Expire(t), orphaned' = orphaned,
             pc' = pc \/ (\E v \in {"idle", "allowed"} : pc' = [pc EXCEPT ![t] = v])
      PROVE  orphaned'[k] \/ \E s \in Task : pc'[s] = "expiring" /\ Key(hit'[s]) = k
  <2>1. /\ hit' = hit /\ count' = count
        /\ deadline' = IF count[Key(hit[t])] > 0
                       THEN [deadline EXCEPT ![Key(hit[t])] = Life(hit[t])] ELSE deadline
    BY <1>6 DEF Expire
  <2>2. Life(hit[t]) # Never
    BY <1>0, LimitAssumption DEF Life, Never
  <2>3. k # Key(hit[t])
    BY <1>0, <2>1, <2>2
  <2>4. deadline[k] = Never
    BY <1>0, <2>1, <2>3
  <2>5. Excused
    BY <1>1, <2>1, <2>4
  <2>6. \A s \in Task : s # t => pc'[s] = pc[s]
    BY <1>0, <1>6
  <2> QED BY <1>6, <2>1, <2>3, <2>5, <2>6
<1>7. ASSUME NEW t \in Task, Fail(t)
      PROVE  orphaned'[k] \/ \E s \in Task : pc'[s] = "expiring" /\ Key(hit'[s]) = k
  <2>1. /\ Excused /\ hit' = hit /\ pc' = [pc EXCEPT ![t] = "idle"]
        /\ orphaned' = [orphaned EXCEPT ![Key(hit[t])] = @ \/ pc[t] = "expiring"]
    BY <1>1, <1>7 DEF Fail, store
  <2>2. CASE orphaned[k]
    BY <1>0, <2>1, <2>2
  <2>3. ASSUME NEW s \in Task, pc[s] = "expiring", Key(hit[s]) = k
        PROVE  orphaned'[k] \/ \E r \in Task : pc'[r] = "expiring" /\ Key(hit'[r]) = k
    <3>1. CASE s = t
      BY <1>0, <2>1, <2>3, <3>1
    <3>2. CASE s # t
      <4>1. pc'[s] = "expiring"
        BY <1>0, <2>1, <2>3, <3>2
      <4> QED BY <2>1, <2>3, <4>1
    <3> QED BY <3>1, <3>2
  <2> QED BY <2>1, <2>2, <2>3
<1>8. ASSUME NEW t \in Task, Leave(t)
      PROVE  orphaned'[k] \/ \E s \in Task : pc'[s] = "expiring" /\ Key(hit'[s]) = k
  <2>1. Excused /\ orphaned' = orphaned /\ hit' = hit
    BY <1>1, <1>8 DEF Leave, store, history
  <2>2. \A s \in Task : pc[s] = "expiring" => pc'[s] = "expiring"
    BY <1>0, <1>8 DEF Leave
  <2> QED BY <2>1, <2>2
<1>9. CASE UNCHANGED vars
  BY <1>1, <1>9 DEF vars, store, history, Key
<1>10. ASSUME NEW t \in Task, Expired(t) \/ ExpiredLost(t)
       PROVE  orphaned'[k] \/ \E s \in Task : pc'[s] = "expiring" /\ Key(hit'[s]) = k
  BY <1>6, <1>10 DEF Expired, ExpiredLost
<1> QED BY <1>2, <1>3, <1>4, <1>5, <1>7, <1>8, <1>9, <1>10 DEF Next

\* No counter is kept for ever unless its creator failed or lost a reply
\* (rate_limit.py:88-89).
THEOREM CountersAreMortal == Spec => []CountersMortal
<1>1. Init => CountersMortal
  BY DEF Init, CountersMortal
<1>2. IInv => TypeOK
  BY DEF IInv
<1> QED BY <1>1, <1>2, MortalStep, Invariance, PTL DEF Spec

\* One window more is a limit more.
LEMMA OneMore ==
  ASSUME NEW a \in Nat
  PROVE  /\ Limit * a \in Nat
         /\ Limit * (a + 1) = Limit * a + Limit
         /\ Limit \in Nat \ {0}
BY LimitAssumption

LEMMA Grows ==
  ASSUME NEW a \in Nat, NEW b \in Nat, a <= b
  PROVE  Limit * a <= Limit * b /\ Limit * a \in Nat /\ Limit * b \in Nat
BY LimitAssumption

\* What is known of one counter.
LEMMA CounterTypes ==
  ASSUME TypeOK, NEW k \in Counter
  PROVE  /\ k[2] \in Nat /\ k[2] \in Windows /\ count[k] \in Nat /\ granted[k] \in Nat
         /\ latest[k] \in Nat /\ deadline[k] \in Nat \cup {Never}
         /\ clock \in Nat /\ WindowOf(clock) \in Windows /\ WindowOf(clock) \in Nat
BY CurrentWindow, WindowsNat DEF TypeOK, Counter

LEMMA LateInit == Init => LateInv
<1> SUFFICES ASSUME Init PROVE LateInv
  OBVIOUS
<1>1. ASSUME NEW k \in Counter
      PROVE  /\ granted[k] <= Limit * (latest[k] - k[2] + 1)
             /\ k[2] \in Windows /\ k[2] <= k[2] /\ Lives(k, k[2])
  <2>1. k[2] \in Nat /\ k[2] \in Windows
    BY WindowsNat DEF Counter
  <2>2. granted[k] = 0 /\ latest[k] = k[2] /\ count[k] = 0 /\ deadline[k] = Never
    BY DEF Init
  <2>3. k[2] - k[2] + 1 = 1 /\ Limit * 1 \in Nat
    BY <2>1, LimitAssumption
  <2>4. 0 <= Limit * (k[2] - k[2] + 1)
    BY <2>3
  <2> QED BY <2>1, <2>2, <2>4 DEF Lives
<1> QED BY <1>1 DEF LateInv, LateQuota, LivesInv

\* A drop comes after the window in which the life began.
LEMMA TickLives ==
  ASSUME IInv, Tick, NEW k \in Counter, NEW s \in Windows, k[2] <= s, Lives(k, s)
  PROVE  Lives(k, s)'
<1>1. /\ k[2] \in Nat /\ count[k] \in Nat /\ granted[k] \in Nat
      /\ deadline[k] \in Nat \cup {Never} /\ clock \in Nat /\ WindowOf(clock) \in Nat
  BY CounterTypes DEF IInv
<1>2. s \in Nat
  BY WindowsNat
<1>3. /\ clock' = clock + 1 /\ granted' = granted
      /\ count'[k] = IF deadline[k] = clock + 1 THEN 0 ELSE count[k]
      /\ deadline'[k] = IF deadline[k] = clock + 1 THEN Never ELSE deadline[k]
  BY DEF Tick
<1>4. WindowOf(clock + 1) \in Nat /\ WindowOf(clock) <= WindowOf(clock + 1)
  BY <1>1, WindowFacts, WindowMonotone
<1>5. WindowOf(clock)' = WindowOf(clock + 1)
  BY <1>3 DEF WindowOf
<1>6. granted'[k] <= Limit * (s - k[2] + 1)
  BY <1>3 DEF Lives
<1>7. CASE count[k] = 0
  <2>1. deadline[k] = Never /\ (granted[k] = 0 \/ s < WindowOf(clock))
    BY <1>7 DEF Lives
  <2>2. count'[k] = 0 /\ deadline'[k] = Never
    BY <1>3, <1>7, <2>1
  <2>3. granted'[k] = 0 \/ s < WindowOf(clock + 1)
    BY <1>1, <1>2, <1>3, <1>4, <2>1
  <2> QED BY <1>5, <1>6, <2>2, <2>3 DEF Lives, Never
<1>8. CASE count[k] > 0
  <2>1. /\ s <= WindowOf(clock) /\ granted[k] <= Limit * (s - k[2]) + count[k]
        /\ deadline[k] # Never => deadline[k] >= (s + 1) * Window
    BY <1>8 DEF Lives
  <2>2. CASE deadline[k] = clock + 1
    <3>1. count'[k] = 0 /\ deadline'[k] = Never
      BY <1>3, <2>2
    <3>2. clock + 1 >= (s + 1) * Window
      BY <1>1, <2>1, <2>2 DEF Never
    <3>3. s < WindowOf(clock + 1)
      BY <1>1, <1>2, <3>2, WindowPassed
    <3> QED BY <1>5, <1>6, <3>1, <3>3 DEF Lives, Never
  <2>3. CASE deadline[k] # clock + 1
    <3>1. count'[k] = count[k] /\ deadline'[k] = deadline[k]
      BY <1>3, <2>3
    <3>2. s <= WindowOf(clock + 1)
      BY <1>1, <1>2, <1>4, <2>1
    <3> QED BY <1>3, <1>5, <1>6, <1>8, <2>1, <3>1, <3>2 DEF Lives, Never
  <2> QED BY <2>2, <2>3
<1> QED BY <1>1, <1>7, <1>8

\* An INCR begins a life in its window, or goes on with the one that is.
LEMMA IncrementLives ==
  ASSUME IInv, NEW t \in Task, Increment(t), NEW k \in Counter,
         NEW s \in Windows, k[2] <= s, Lives(k, s),
         granted[k] <= Limit * (latest[k] - k[2] + 1),
         \/ granted' = granted /\ latest' = latest
         \/ /\ Within(count[Key(hit[t])] + 1)
            /\ granted' = [granted EXCEPT ![Key(hit[t])] = @ + 1]
            /\ latest' = [latest EXCEPT ![Key(hit[t])] = WindowOf(clock)]
  PROVE  /\ granted'[k] <= Limit * (latest'[k] - k[2] + 1)
         /\ \E r \in Windows : k[2] <= r /\ Lives(k, r)'
<1> DEFINE q == Key(hit[t])
<1>w. PICK w \in Windows : w = WindowOf(clock)
  BY CounterTypes DEF IInv
<1>1. /\ TypeOK /\ HitInv /\ k[2] \in Nat /\ count[k] \in Nat /\ granted[k] \in Nat
      /\ latest[k] \in Nat /\ deadline[k] \in Nat \cup {Never}
      /\ clock \in Nat /\ w \in Nat
  BY <1>w, CounterTypes DEF IInv
<1>2. s \in Nat /\ s - k[2] \in Nat
  BY <1>1, WindowsNat
<1>3. q \in Counter /\ q[2] <= w
  BY <1>1, <1>w, KeyFacts DEF HitInv
<1>4. /\ clock' = clock /\ deadline' = deadline
      /\ count' = [count EXCEPT ![q] = @ + 1]
  BY <1>1, IncrementFacts
<1>5. WindowOf(clock)' = w
  BY <1>4, <1>w DEF WindowOf
<1> HIDE DEF q
<1>6. CASE k # q
  <2>1. /\ count'[k] = count[k] /\ granted'[k] = granted[k] /\ latest'[k] = latest[k]
        /\ deadline'[k] = deadline[k]
    BY <1>1, <1>4, <1>6 DEF q, TypeOK
  <2>2. Lives(k, s)'
    BY <1>4, <1>5, <1>w, <2>1 DEF Lives, Never
  <2> QED BY <2>1, <2>2
<1>7. CASE k = q
  <2>1. count'[k] = count[k] + 1 /\ deadline'[k] = deadline[k] /\ k[2] <= w
    BY <1>1, <1>3, <1>4, <1>7 DEF TypeOK
  <2>2. \/ granted'[k] = granted[k] /\ latest'[k] = latest[k]
        \/ granted'[k] = granted[k] + 1 /\ latest'[k] = w /\ count[k] + 1 <= Limit
    BY <1>1, <1>7, <1>w DEF q, TypeOK, Within
  <2>3. w - k[2] \in Nat /\ granted[k] <= Limit * (s - k[2] + 1)
    BY <1>1, <2>1 DEF Lives
  <2>4. CASE count[k] = 0
    <3>1. deadline[k] = Never /\ (granted[k] = 0 \/ s < w)
      BY <1>w, <2>4 DEF Lives
    <3>2. granted[k] <= Limit * (w - k[2])
      <4>1. CASE granted[k] = 0
        <5>1. Limit * (w - k[2]) \in Nat
          BY <2>3, OneMore
        <5> QED BY <4>1, <5>1
      <4>2. CASE s < w
        <5>1. s - k[2] + 1 \in Nat /\ s - k[2] + 1 <= w - k[2]
          BY <1>1, <1>2, <4>2
        <5>2. Limit * (s - k[2] + 1) <= Limit * (w - k[2])
          BY <2>3, <5>1, Grows
        <5>3. Limit * (s - k[2] + 1) \in Nat /\ Limit * (w - k[2]) \in Nat
          BY <2>3, <5>1, Grows
        <5> QED BY <1>1, <2>3, <5>2, <5>3
      <4> QED BY <3>1, <4>1, <4>2
    <3>3. /\ Limit * (w - k[2]) \in Nat /\ Limit \in Nat \ {0}
          /\ Limit * (w - k[2] + 1) = Limit * (w - k[2]) + Limit
      BY <2>3, OneMore
    <3>4. /\ granted'[k] <= Limit * (w - k[2]) + 1
          /\ granted'[k] <= Limit * (w - k[2] + 1)
      BY <1>1, <2>2, <3>2, <3>3
    <3>5. count'[k] = 1
      BY <2>1, <2>4
    <3>6. Lives(k, w)'
      BY <1>5, <2>1, <3>1, <3>4, <3>5, <1>1 DEF Lives, Never
    <3>7. granted'[k] <= Limit * (latest'[k] - k[2] + 1)
      <4>1. CASE granted'[k] = granted[k] /\ latest'[k] = latest[k]
        BY <4>1
      <4>2. CASE granted'[k] = granted[k] + 1 /\ latest'[k] = w
        BY <3>4, <4>2
      <4> QED BY <2>2, <4>1, <4>2
    <3> QED BY <1>1, <2>1, <3>6, <3>7
  <2>5. CASE count[k] > 0
    <3>1. /\ s <= w /\ granted[k] <= Limit * (s - k[2]) + count[k]
          /\ deadline[k] # Never => deadline[k] >= (s + 1) * Window
      BY <1>w, <2>5 DEF Lives
    <3>2. /\ Limit * (s - k[2]) \in Nat /\ Limit \in Nat \ {0}
          /\ Limit * (s - k[2] + 1) = Limit * (s - k[2]) + Limit
      BY <1>2, OneMore
    <3>3. /\ granted'[k] <= Limit * (s - k[2]) + count'[k]
          /\ granted'[k] <= Limit * (s - k[2] + 1)
      BY <1>1, <2>1, <2>2, <2>3, <3>1, <3>2
    <3>4. Lives(k, s)'
      BY <1>1, <1>5, <2>1, <2>5, <3>1, <3>3 DEF Lives, Never
    <3>5. Limit * (s - k[2] + 1) <= Limit * (w - k[2] + 1)
      <4>1. s - k[2] + 1 \in Nat /\ w - k[2] + 1 \in Nat /\ s - k[2] + 1 <= w - k[2] + 1
        BY <1>1, <1>2, <2>3, <3>1
      <4> QED BY <4>1, Grows
    <3>6. granted'[k] <= Limit * (latest'[k] - k[2] + 1)
      <4>1. w - k[2] + 1 \in Nat
        BY <2>3
      <4>2. Limit * (w - k[2] + 1) \in Nat /\ Limit * (s - k[2] + 1) \in Nat
        BY <1>2, <4>1, OneMore
      <4>3. granted'[k] \in Nat
        BY <1>1, <2>2
      <4>4. granted'[k] <= Limit * (w - k[2] + 1)
        BY <3>3, <3>5, <4>2, <4>3
      <4>5. CASE granted'[k] = granted[k] /\ latest'[k] = latest[k]
        BY <4>5
      <4>6. CASE granted'[k] = granted[k] + 1 /\ latest'[k] = w
        BY <4>4, <4>6
      <4> QED BY <2>2, <4>5, <4>6
    <3> QED BY <3>4, <3>6
  <2> QED BY <1>1, <2>4, <2>5
<1> QED BY <1>6, <1>7

\* A life that gets a deadline gets it past the window in which it began.
LEMMA ExpireLives ==
  ASSUME IInv, NEW t \in Task, Expire(t), NEW k \in Counter,
         NEW s \in Windows, Lives(k, s)
  PROVE  Lives(k, s)'
<1>1. /\ k[2] \in Nat /\ count[k] \in Nat /\ clock \in Nat /\ WindowOf(clock) \in Nat
      /\ deadline[k] \in Nat \cup {Never}
  BY CounterTypes DEF IInv
<1>2. s \in Nat
  BY WindowsNat
<1>3. /\ clock' = clock /\ count' = count /\ granted' = granted
      /\ deadline' = IF count[Key(hit[t])] > 0
                     THEN [deadline EXCEPT ![Key(hit[t])] = clock + Window] ELSE deadline
  BY DEF Expire, Life
<1>4. WindowOf(clock)' = WindowOf(clock)
  BY <1>3 DEF WindowOf
<1>5. CASE count[k] = 0
  <2>1. deadline'[k] = deadline[k]
    BY <1>3, <1>5 DEF IInv, TypeOK
  <2> QED BY <1>3, <1>4, <1>5, <2>1 DEF Lives, Never
<1>6. CASE count[k] > 0
  <2>1. s <= WindowOf(clock) /\ (deadline[k] # Never => deadline[k] >= (s + 1) * Window)
    BY <1>6 DEF Lives
  <2>2. clock + Window >= (s + 1) * Window
    BY <1>1, <1>2, <2>1, WindowReach
  <2>3. deadline'[k] = deadline[k] \/ deadline'[k] = clock + Window
    BY <1>3 DEF IInv, TypeOK
  <2>4. deadline'[k] # Never => deadline'[k] >= (s + 1) * Window
    BY <2>1, <2>2, <2>3
  <2> QED BY <1>3, <1>4, <1>6, <2>4 DEF Lives, Never
<1> QED BY <1>1, <1>5, <1>6

\* A step that leaves the counters and the clock alone.
LEMMA LivesUnchanged ==
  ASSUME LateInv, clock' = clock, count' = count, deadline' = deadline, granted' = granted,
         latest' = latest
  PROVE  LateInv'
<1>1. Counter' = Counter /\ Windows' = Windows /\ WindowOf(clock)' = WindowOf(clock)
  BY DEF Counter, Windows, WindowOf
<1>2. \A k \in Counter, s \in Windows : Lives(k, s) => Lives(k, s)'
  BY <1>1 DEF Lives, Never
<1> QED BY <1>1, <1>2 DEF LateInv, LateQuota, LivesInv

LEMMA LateStep == IInv /\ LateInv /\ [Next]_vars => LateInv'
<1> SUFFICES ASSUME IInv, LateInv, [Next]_vars PROVE LateInv'
  OBVIOUS
<1>0. Counter' = Counter /\ Windows' = Windows
  BY DEF Counter, Windows, WindowOf
<1>1. CASE Tick
  <2>1. granted' = granted /\ latest' = latest
    BY <1>1 DEF Tick
  <2>2. \A k \in Counter : \E s \in Windows : k[2] <= s /\ Lives(k, s)'
    BY <1>1, TickLives DEF LateInv, LivesInv
  <2> QED BY <1>0, <2>1, <2>2 DEF LateInv, LateQuota, LivesInv
<1>2. ASSUME NEW t \in Task, NEW c \in Client, Begin(t, c) PROVE LateInv'
  BY <1>2, LivesUnchanged DEF Begin, store, history
<1>3. ASSUME NEW t \in Task, Increment(t),
             \/ granted' = granted /\ latest' = latest
             \/ /\ Within(count[Key(hit[t])] + 1)
                /\ granted' = [granted EXCEPT ![Key(hit[t])] = @ + 1]
                /\ latest' = [latest EXCEPT ![Key(hit[t])] = WindowOf(clock)]
      PROVE  LateInv'
  <2>1. ASSUME NEW k \in Counter
        PROVE  /\ granted'[k] <= Limit * (latest'[k] - k[2] + 1)
               /\ \E r \in Windows : k[2] <= r /\ Lives(k, r)'
    <3>1. PICK s \in Windows : k[2] <= s /\ Lives(k, s)
      BY DEF LateInv, LivesInv
    <3>2. granted[k] <= Limit * (latest[k] - k[2] + 1)
      BY DEF LateInv, LateQuota
    <3> QED BY <1>3, <3>1, <3>2, IncrementLives
  <2> QED BY <1>0, <2>1 DEF LateInv, LateQuota, LivesInv
<1>4. ASSUME NEW t \in Task, Replied(t) PROVE LateInv'
  <2> DEFINE n == count[Key(hit[t])] + 1
  <2>1. Increment(t) /\ Grant(t, n)
    BY <1>4 DEF Replied
  <2>2. \/ granted' = granted /\ latest' = latest
        \/ /\ Within(n)
           /\ granted' = [granted EXCEPT ![Key(hit[t])] = @ + 1]
           /\ latest' = [latest EXCEPT ![Key(hit[t])] = WindowOf(clock)]
    <3> HIDE DEF n
    <3> QED BY <2>1 DEF Grant, Key
  <2> QED BY <1>3, <2>1, <2>2
<1>5. ASSUME NEW t \in Task, ReplyLost(t) PROVE LateInv'
  BY <1>3, <1>5 DEF ReplyLost
<1>6. ASSUME NEW t \in Task, Expired(t) \/ ExpiredLost(t) PROVE LateInv'
  <2>1. Expire(t) /\ granted' = granted /\ latest' = latest
    BY <1>6 DEF Expired, ExpiredLost, Expire
  <2>2. \A k \in Counter : \E s \in Windows : k[2] <= s /\ Lives(k, s)'
    BY <2>1, ExpireLives DEF LateInv, LivesInv
  <2> QED BY <1>0, <2>1, <2>2 DEF LateInv, LateQuota, LivesInv
<1>7. ASSUME NEW t \in Task, Fail(t) \/ Leave(t) PROVE LateInv'
  BY <1>7, LivesUnchanged DEF Fail, Leave, store, history
<1>8. CASE UNCHANGED vars
  BY <1>8, LivesUnchanged DEF vars, store, history
<1> QED BY <1>1, <1>2, <1>4, <1>5, <1>6, <1>7, <1>8 DEF Next

\* However late a hit is and whatever is lost or repeated, at most Limit requests of a
\* window get through, and Limit more for each later window in which one of them is
\* still let through: every life of a counter grants at most Limit, and the next one
\* begins in a later window (rate_limit.py:79-92).
THEOREM LateQuotaIsKept == Spec => []LateQuota
<1>1. LateInv => LateQuota
  BY DEF LateInv
<1> QED BY <1>1, LateInit, LateStep, Invariance, PTL DEF Spec
================================================================================
