---------------------------- MODULE JwksCacheProofs ----------------------------
(***************************************************************************)
(* Proofs about JwksCache, for every set of tasks, keys and tokens, every  *)
(* sequence of key sets the provider publishes, and every setting of the   *)
(* timeouts.                                                               *)
(***************************************************************************)
EXTENDS JwksCache, TLAPS

\* What an acquisition by a task that is neither inside nor waiting does to the
\* lock's variables.
LEMMA AcquireType ==
  ASSUME TypeOK,
         NEW t \in Task, NEW h \in Task \cup {NoTask}, NEW q \in Seq(Task),
         AcquireLock(t, h, q)
  PROVE  /\ lock' \in Task \cup {NoTask}
         /\ queue' \in Seq(Task)
         /\ pc' \in [Task -> Ended \cup {"idle", "waiting", "fetching"}]
<1>1. CASE h = NoTask /\ q = <<>>
  BY <1>1 DEF AcquireLock, TypeOK
<1>2. CASE ~(h = NoTask /\ q = <<>>)
  <2>1. lock' = h /\ queue' = Append(q, t) /\ pc' = [pc EXCEPT ![t] = "waiting"]
    BY <1>2 DEF AcquireLock
  <2>2. Append(q, t) \in Seq(Task)
    OBVIOUS
  <2> QED BY <2>1, <2>2 DEF TypeOK
<1> QED BY <1>1, <1>2

LEMMA ContinueType ==
  ASSUME TypeOK,
         NEW t \in Task, NEW w, NEW f, NEW v,
         NEW h \in Task \cup {NoTask}, NEW q \in Seq(Task),
         Continue(t, w, f, v, h, q)
  PROVE  /\ lock' \in Task \cup {NoTask}
         /\ queue' \in Seq(Task)
         /\ pc' \in [Task -> Ended \cup {"idle", "waiting", "fetching"}]
         /\ force' \in [Task -> BOOLEAN]
<1>1. CASE ~f /\ Unlisted(w, v)
  <2>1. AcquireLock(t, h, q) /\ force' = [force EXCEPT ![t] = TRUE]
    BY <1>1 DEF Continue
  <2> QED BY <2>1, AcquireType DEF TypeOK
<1>2. CASE ~(~f /\ Unlisted(w, v))
  <2>1. Verdict(w, v) \in Ended
    BY DEF Verdict, Ended
  <2> QED BY <1>2, <2>1 DEF Continue, TypeOK
<1> QED BY <1>1, <1>2

LEMMA WithoutFacts ==
  ASSUME NEW q \in Seq(Task), NEW k \in 1..Len(q)
  PROVE  /\ Without(q, k) \in Seq(Task)
         /\ Len(q) \in Nat
         /\ Len(Without(q, k)) = Len(q) - 1
         /\ \A i \in 1..(Len(q) - 1) :
              Without(q, k)[i] = IF i < k THEN q[i] ELSE q[i + 1]
BY DEF Without

LEMMA QueueFacts ==
  ASSUME NEW q \in Seq(Task), q # <<>>
  PROVE  Head(q) \in Task /\ Tail(q) \in Seq(Task)
OBVIOUS

LEMMA TypeInit == Init => TypeOK
<1> SUFFICES ASSUME Init PROVE TypeOK
  OBVIOUS
<1>1. idp \in Version /\ retiredAt \in [Version -> Nat]
  BY KeyAssumption DEF Init, Version
<1>2. queue \in Seq(Task)
  BY DEF Init
<1> QED BY <1>1, <1>2 DEF Init, TypeOK, None

LEMMA TypeStep ==
  ASSUME TypeOK, [Next]_vars
  PROVE  TypeOK'
<1> USE KeyAssumption, TimeAssumption DEF None, Version
<1>1. CASE Tick
  BY <1>1 DEF Tick, TypeOK, provider, keyCache, exchange
<1>2. CASE Rotate
  BY <1>2 DEF Rotate, TypeOK, keyCache, exchange, Unlisted
<1>3. ASSUME NEW t \in Task, WarmUp(t) PROVE TypeOK'
  <2>1. AcquireLock(t, lock, queue) /\ lock \in Task \cup {NoTask} /\ queue \in Seq(Task)
    BY <1>3 DEF WarmUp, TypeOK
  <2> QED BY <1>3, <2>1, AcquireType DEF WarmUp, TypeOK, provider, keyCache, exchange
<1>4. ASSUME NEW t \in Task, NEW w \in Token \cup {Probe}, RejectUnkeyed(t, w)
      PROVE  TypeOK'
  BY <1>4 DEF RejectUnkeyed, Arrive, TypeOK, Ended, Unlisted, provider, exchange
<1>5. ASSUME NEW t \in Task, NEW w \in Token \cup {Probe}, UseCache(t, w)
      PROVE  TypeOK'
  <2>1. Continue(t, w, FALSE, jwksCache, lock, queue)
    BY <1>5 DEF UseCache
  <2>2. /\ lock' \in Task \cup {NoTask}
        /\ queue' \in Seq(Task)
        /\ pc' \in [Task -> Ended \cup {"idle", "waiting", "fetching"}]
        /\ force' \in [Task -> BOOLEAN]
    BY <2>1, ContinueType DEF TypeOK
  <2> QED BY <1>5, <2>2 DEF UseCache, Arrive, TypeOK, Unlisted, provider, exchange
<1>6. ASSUME NEW t \in Task, NEW w \in Token \cup {Probe}, NeedRefresh(t, w)
      PROVE  TypeOK'
  <2>1. AcquireLock(t, lock, queue) /\ lock \in Task \cup {NoTask} /\ queue \in Seq(Task)
    BY <1>6 DEF NeedRefresh, TypeOK
  <2> QED BY <1>6, <2>1, AcquireType
          DEF NeedRefresh, Arrive, TypeOK, Unlisted, provider, exchange
<1>7. ASSUME NEW t \in Task, FindFilled(t) PROVE TypeOK'
  <2>1. /\ Continue(t, want[t], FALSE, jwksCache, NoTask, Tail(queue))
        /\ Tail(queue) \in Seq(Task)
    BY <1>7, QueueFacts DEF FindFilled, Granted, TypeOK
  <2>2. /\ lock' \in Task \cup {NoTask}
        /\ queue' \in Seq(Task)
        /\ pc' \in [Task -> Ended \cup {"idle", "waiting", "fetching"}]
        /\ force' \in [Task -> BOOLEAN]
    BY ONLY TypeOK, <2>1, ContinueType
  <2> QED BY <1>7, <2>2 DEF FindFilled, Granted, TypeOK, provider, exchange
<1>8. ASSUME NEW t \in Task, StartFetch(t) PROVE TypeOK'
  <2>1. Tail(queue) \in Seq(Task)
    BY <1>8, QueueFacts DEF StartFetch, Granted, TypeOK
  <2> QED BY <1>8, <2>1 DEF StartFetch, Granted, TypeOK, provider, keyCache, exchange
<1>9. ASSUME NEW t \in Task, Respond(t) PROVE TypeOK'
  BY <1>9 DEF Respond, TypeOK, provider, keyCache
<1>10. ASSUME NEW t \in Task, Deliver(t) PROVE TypeOK'
  <2>1. /\ Continue(t, want[t], force[t], answer[t], NoTask, queue)
        /\ queue \in Seq(Task)
    BY <1>10 DEF Deliver, TypeOK
  <2>2. /\ lock' \in Task \cup {NoTask}
        /\ queue' \in Seq(Task)
        /\ pc' \in [Task -> Ended \cup {"idle", "waiting", "fetching"}]
        /\ force' \in [Task -> BOOLEAN]
    BY ONLY TypeOK, <2>1, ContinueType
  <2> QED BY <1>10, <2>2 DEF Deliver, EndExchange, Warmed, TypeOK, provider
<1>11. ASSUME NEW t \in Task, FallBack(t) PROVE TypeOK'
  <2>1. /\ Continue(t, want[t], force[t], jwksCache, NoTask, queue)
        /\ queue \in Seq(Task)
    BY <1>11 DEF FallBack, TypeOK
  <2>2. /\ lock' \in Task \cup {NoTask}
        /\ queue' \in Seq(Task)
        /\ pc' \in [Task -> Ended \cup {"idle", "waiting", "fetching"}]
        /\ force' \in [Task -> BOOLEAN]
    BY ONLY TypeOK, <2>1, ContinueType
  <2> QED BY <1>11, <2>2 DEF FallBack, EndExchange, Warmed, TypeOK, provider
<1>12. ASSUME NEW t \in Task, GiveUp(t) PROVE TypeOK'
  BY <1>12 DEF GiveUp, Raise, EndExchange, Warmed, TypeOK, Ended, provider, keyCache
<1>13. ASSUME NEW t \in Task, CancelWaiting(t) PROVE TypeOK'
  BY <1>13, WithoutFacts
     DEF CancelWaiting, Cancelled, TypeOK, Ended, provider, keyCache, exchange
<1>14. ASSUME NEW t \in Task, CancelFetching(t) PROVE TypeOK'
  BY <1>14 DEF CancelFetching, Cancelled, TypeOK, Ended, provider, keyCache
<1>15. ASSUME NEW t \in Task, Leave(t) PROVE TypeOK'
  BY <1>15 DEF Leave, TypeOK, provider, keyCache, exchange
<1>16. CASE UNCHANGED vars
  BY <1>16 DEF vars, TypeOK, provider, keyCache, exchange
<1> QED
  BY <1>1, <1>2, <1>3, <1>4, <1>5, <1>6, <1>7, <1>8, <1>9, <1>10, <1>11,
     <1>12, <1>13, <1>14, <1>15, <1>16 DEF Next

\* Type correctness: the variables keep the ranges the code gives them.
THEOREM TypeCorrect == Spec => []TypeOK
<1>1. TypeOK /\ [Next]_vars => TypeOK'
  BY TypeStep
<1> QED BY TypeInit, <1>1, PTL DEF Spec

----------------------------------------------------------------------------

\* Apart from t, which is neither inside nor waiting, the lock is held by h and
\* waited for by q: what LockDiscipline says of the moment t enters or leaves it.
Apart(t, h, q) ==
  /\ h # t
  /\ \A i \in 1..Len(q) : q[i] # t
  /\ \A u \in Task \ {t} : pc[u] = "fetching" <=> h = u
  /\ \A u \in Task \ {t} : pc[u] = "waiting" <=> \E i \in 1..Len(q) : q[i] = u
  /\ \A i, j \in 1..Len(q) : q[i] = q[j] => i = j

LEMMA EndDiscipline ==
  ASSUME TypeOK, NEW t \in Task, NEW h, NEW q \in Seq(Task), Apart(t, h, q),
         NEW verdict \in Ended \cup {"idle"},
         pc' = [pc EXCEPT ![t] = verdict], lock' = h, queue' = q
  PROVE  LockDiscipline'
<1>1. pc'[t] = verdict /\ \A u \in Task \ {t} : pc'[u] = pc[u]
  BY DEF TypeOK
<1>2. verdict # "fetching" /\ verdict # "waiting"
  BY DEF Ended
<1> QED BY <1>1, <1>2 DEF Apart, LockDiscipline

LEMMA AcquireDiscipline ==
  ASSUME TypeOK, NEW t \in Task, NEW h \in Task \cup {NoTask}, NEW q \in Seq(Task),
         Apart(t, h, q), AcquireLock(t, h, q)
  PROVE  LockDiscipline'
<1>1. CASE h = NoTask /\ q = <<>>
  <2>1. lock' = t /\ queue' = q /\ pc' = [pc EXCEPT ![t] = "fetching"]
    BY <1>1 DEF AcquireLock
  <2>2. pc'[t] = "fetching" /\ \A u \in Task \ {t} : pc'[u] = pc[u]
    BY <2>1 DEF TypeOK
  <2>3. \A u \in Task \ {t} : pc[u] # "fetching" /\ pc[u] # "waiting"
    <3>1. 1..Len(q) = {}
      BY <1>1
    <3> QED BY <1>1, <3>1, TaskAssumption DEF Apart
  <2> QED BY <1>1, <2>1, <2>2, <2>3 DEF LockDiscipline
<1>2. CASE ~(h = NoTask /\ q = <<>>)
  <2>1. lock' = h /\ queue' = Append(q, t) /\ pc' = [pc EXCEPT ![t] = "waiting"]
    BY <1>2 DEF AcquireLock
  <2>2. pc'[t] = "waiting" /\ \A u \in Task \ {t} : pc'[u] = pc[u]
    BY <2>1 DEF TypeOK
  <2>3. /\ Len(queue') = Len(q) + 1
        /\ queue'[Len(q) + 1] = t
        /\ \A i \in 1..Len(q) : queue'[i] = q[i]
        /\ Len(q) \in Nat
    BY <2>1
  <2>4. \A u \in Task : pc'[u] = "fetching" <=> lock' = u
    BY <2>1, <2>2 DEF Apart
  <2>5. \A u \in Task : pc'[u] = "waiting" <=> \E i \in 1..Len(queue') : queue'[i] = u
    <3>1. \A u \in Task \ {t} : pc'[u] = "waiting" <=> \E i \in 1..Len(q) : q[i] = u
      BY <2>2 DEF Apart
    <3>2. \A u \in Task \ {t} : (\E i \in 1..Len(q) : q[i] = u)
                               <=> (\E i \in 1..Len(queue') : queue'[i] = u)
      BY <2>3
    <3> QED BY <3>1, <3>2, <2>2, <2>3
  <2>6. \A i, j \in 1..Len(queue') : queue'[i] = queue'[j] => i = j
    BY <2>3 DEF Apart
  <2> QED BY <2>4, <2>5, <2>6 DEF LockDiscipline
<1> QED BY <1>1, <1>2

LEMMA ContinueDiscipline ==
  ASSUME TypeOK, NEW t \in Task, NEW h \in Task \cup {NoTask}, NEW q \in Seq(Task),
         NEW w, NEW f, NEW v,
         Apart(t, h, q), Continue(t, w, f, v, h, q)
  PROVE  LockDiscipline'
<1>1. CASE ~f /\ Unlisted(w, v)
  BY ONLY <1>1, TypeOK, t \in Task, h \in Task \cup {NoTask}, q \in Seq(Task),
          Apart(t, h, q), Continue(t, w, f, v, h, q), AcquireDiscipline
     DEF Continue
<1>2. CASE ~(~f /\ Unlisted(w, v))
  <2>1. Verdict(w, v) \in Ended
    BY DEF Verdict, Ended
  <2>2. pc' = [pc EXCEPT ![t] = Verdict(w, v)] /\ lock' = h /\ queue' = q
    BY <1>2 DEF Continue
  <2> QED BY <2>1, <2>2, EndDiscipline
<1> QED BY <1>1, <1>2

LEMMA TailFacts ==
  ASSUME NEW q \in Seq(Task), q # <<>>
  PROVE  /\ Len(Tail(q)) = Len(q) - 1
         /\ Len(q) \in Nat \ {0}
         /\ \A i \in 1..Len(Tail(q)) : Tail(q)[i] = q[i + 1]
         /\ Head(q) = q[1]
         /\ Tail(q) \in Seq(Task)
OBVIOUS

\* A waiter taken from the queue, the head or any other, is apart from it.
LEMMA HeadApart ==
  ASSUME TypeOK, LockDiscipline, NEW t \in Task,
         queue # <<>>, t = Head(queue), lock = NoTask
  PROVE  Apart(t, NoTask, Tail(queue))
<1> DEFINE r == Tail(queue)
<1>1. queue \in Seq(Task)
  BY DEF TypeOK
<1>2. /\ Len(r) = Len(queue) - 1
      /\ Len(queue) \in Nat \ {0}
      /\ \A i \in 1..Len(r) : r[i] = queue[i + 1]
      /\ t = queue[1]
  BY <1>1, TailFacts
<1> HIDE DEF r
<1>3. \A i, j \in 1..Len(r) : r[i] = r[j] => i = j
  BY <1>2 DEF LockDiscipline
<1>4. \A i \in 1..Len(r) : r[i] # t
  BY <1>2 DEF LockDiscipline
<1>5. ASSUME NEW u \in Task \ {t}
      PROVE  pc[u] = "waiting" <=> \E i \in 1..Len(r) : r[i] = u
  <2>1. (\E i \in 1..Len(queue) : queue[i] = u) <=> \E i \in 1..Len(r) : r[i] = u
    <3>1. ASSUME NEW i \in 1..Len(queue), queue[i] = u
          PROVE  \E j \in 1..Len(r) : r[j] = u
      <4>1. i - 1 \in 1..Len(r) /\ r[i - 1] = queue[i]
        BY <1>2, <3>1
      <4> QED BY <3>1, <4>1
    <3>2. ASSUME NEW i \in 1..Len(r), r[i] = u
          PROVE  \E j \in 1..Len(queue) : queue[j] = u
      BY <1>2, <3>2
    <3> QED BY <3>1, <3>2
  <2> QED BY <2>1 DEF LockDiscipline
<1>6. \A u \in Task \ {t} : pc[u] = "fetching" <=> NoTask = u
  BY TaskAssumption DEF LockDiscipline
<1>7. NoTask # t
  BY TaskAssumption
<1>8. Apart(t, NoTask, r)
  BY <1>3, <1>4, <1>5, <1>6, <1>7 DEF Apart
<1> QED BY <1>8 DEF r

LEMMA WaiterApart ==
  ASSUME TypeOK, LockDiscipline, NEW t \in Task,
         NEW k \in 1..Len(queue), queue[k] = t
  PROVE  Apart(t, lock, Without(queue, k))
<1> DEFINE r == Without(queue, k)
<1>1. queue \in Seq(Task)
  BY DEF TypeOK
<1>2. /\ Len(r) = Len(queue) - 1
      /\ Len(queue) \in Nat
      /\ \A i \in 1..(Len(queue) - 1) : r[i] = IF i < k THEN queue[i] ELSE queue[i + 1]
  BY <1>1, WithoutFacts
<1> HIDE DEF r
<1>3. \A i, j \in 1..Len(r) : r[i] = r[j] => i = j
  BY <1>2 DEF LockDiscipline
<1>4. \A i \in 1..Len(r) : r[i] # t
  BY <1>2 DEF LockDiscipline
<1>5. ASSUME NEW u \in Task \ {t}
      PROVE  pc[u] = "waiting" <=> \E i \in 1..Len(r) : r[i] = u
  <2>1. ASSUME NEW i \in 1..Len(queue), queue[i] = u
        PROVE  \E j \in 1..Len(r) : r[j] = u
    <3>1. CASE i < k
      BY <1>2, <2>1, <3>1
    <3>2. CASE i > k
      <4>1. i - 1 \in 1..Len(r) /\ r[i - 1] = queue[i]
        BY <1>2, <2>1, <3>2
      <4> QED BY <2>1, <4>1
    <3>3. i # k
      BY <2>1
    <3> QED BY <3>1, <3>2, <3>3
  <2>2. ASSUME NEW i \in 1..Len(r), r[i] = u
        PROVE  \E j \in 1..Len(queue) : queue[j] = u
    BY <1>2, <2>2
  <2> QED BY <2>1, <2>2 DEF LockDiscipline
<1>6. pc[t] = "waiting" /\ lock # t
  BY DEF LockDiscipline
<1>7. Apart(t, lock, r)
  BY <1>3, <1>4, <1>5, <1>6 DEF Apart, LockDiscipline
<1> QED BY <1>7 DEF r

LEMMA IdleApart ==
  ASSUME LockDiscipline, NEW t \in Task, pc[t] # "waiting", pc[t] # "fetching"
  PROVE  Apart(t, lock, queue)
BY DEF LockDiscipline, Apart

LEMMA HolderApart ==
  ASSUME LockDiscipline, NEW t \in Task, pc[t] = "fetching"
  PROVE  Apart(t, NoTask, queue)
BY TaskAssumption DEF LockDiscipline, Apart

LEMMA LockStep ==
  ASSUME TypeOK, LockDiscipline, [Next]_vars
  PROVE  LockDiscipline'
<1>0. queue \in Seq(Task) /\ lock \in Task \cup {NoTask}
  BY DEF TypeOK
<1>1. CASE Tick
  BY <1>1 DEF Tick, LockDiscipline
<1>2. CASE Rotate
  BY <1>2 DEF Rotate, LockDiscipline
<1>3. ASSUME NEW t \in Task, WarmUp(t) PROVE LockDiscipline'
  <2>1. Apart(t, lock, queue) /\ AcquireLock(t, lock, queue)
    BY <1>3, IdleApart DEF WarmUp
  <2> QED BY <1>0, <2>1, AcquireDiscipline
<1>4. ASSUME NEW t \in Task, NEW w \in Token \cup {Probe}, RejectUnkeyed(t, w)
      PROVE  LockDiscipline'
  <2>1. /\ Apart(t, lock, queue)
        /\ pc' = [pc EXCEPT ![t] = "rejected"] /\ lock' = lock /\ queue' = queue
    BY <1>4, IdleApart DEF RejectUnkeyed, Arrive
  <2> QED BY <1>0, <2>1, EndDiscipline DEF Ended
<1>5. ASSUME NEW t \in Task, NEW w \in Token \cup {Probe}, UseCache(t, w)
      PROVE  LockDiscipline'
  <2>1. Apart(t, lock, queue) /\ Continue(t, w, FALSE, jwksCache, lock, queue)
    BY <1>5, IdleApart DEF UseCache, Arrive
  <2> QED BY <1>0, <2>1, ContinueDiscipline
<1>6. ASSUME NEW t \in Task, NEW w \in Token \cup {Probe}, NeedRefresh(t, w)
      PROVE  LockDiscipline'
  <2>1. Apart(t, lock, queue) /\ AcquireLock(t, lock, queue)
    BY <1>6, IdleApart DEF NeedRefresh, Arrive
  <2> QED BY <1>0, <2>1, AcquireDiscipline
<1>7. ASSUME NEW t \in Task, FindFilled(t) PROVE LockDiscipline'
  <2>1. /\ Apart(t, NoTask, Tail(queue))
        /\ Tail(queue) \in Seq(Task)
        /\ Continue(t, want[t], FALSE, jwksCache, NoTask, Tail(queue))
    BY <1>0, <1>7, HeadApart, QueueFacts DEF FindFilled, Granted
  <2> QED BY <2>1, ContinueDiscipline
<1>8. ASSUME NEW t \in Task, StartFetch(t) PROVE LockDiscipline'
  <2>1. /\ Apart(t, NoTask, Tail(queue))
        /\ lock' = t /\ queue' = Tail(queue) /\ pc' = [pc EXCEPT ![t] = "fetching"]
    BY <1>8, HeadApart DEF StartFetch, Granted
  <2>2. pc'[t] = "fetching" /\ \A u \in Task \ {t} : pc'[u] = pc[u]
    BY <2>1 DEF TypeOK
  <2> QED BY <2>1, <2>2, TaskAssumption DEF Apart, LockDiscipline
<1>9. ASSUME NEW t \in Task, Respond(t) PROVE LockDiscipline'
  BY <1>9 DEF Respond, LockDiscipline
<1>10. ASSUME NEW t \in Task, Deliver(t) PROVE LockDiscipline'
  <2>1. /\ Apart(t, NoTask, queue)
        /\ Continue(t, want[t], force[t], answer[t], NoTask, queue)
    BY <1>10, HolderApart DEF Deliver, EndExchange
  <2> QED BY <1>0, <2>1, ContinueDiscipline
<1>11. ASSUME NEW t \in Task, FallBack(t) PROVE LockDiscipline'
  <2>1. /\ Apart(t, NoTask, queue)
        /\ Continue(t, want[t], force[t], jwksCache, NoTask, queue)
    BY <1>11, HolderApart DEF FallBack, EndExchange
  <2> QED BY <1>0, <2>1, ContinueDiscipline
<1>12. ASSUME NEW t \in Task, GiveUp(t) PROVE LockDiscipline'
  <2>1. Apart(t, NoTask, queue)
    BY <1>12, HolderApart DEF GiveUp, EndExchange
  <2>2. PICK verdict \in Ended :
          pc' = [pc EXCEPT ![t] = verdict] /\ lock' = NoTask /\ queue' = queue
    BY <1>12 DEF GiveUp, Raise, Ended
  <2> QED BY <1>0, <2>1, <2>2, EndDiscipline
<1>13. ASSUME NEW t \in Task, CancelWaiting(t) PROVE LockDiscipline'
  <2>1. PICK k \in 1..Len(queue) : queue[k] = t /\ queue' = Without(queue, k)
    BY <1>13 DEF CancelWaiting
  <2>2. Apart(t, lock, Without(queue, k)) /\ Without(queue, k) \in Seq(Task)
    BY <1>0, <2>1, WaiterApart, WithoutFacts
  <2>3. pc' = [pc EXCEPT ![t] = "cancelled"] /\ lock' = lock
    BY <1>13 DEF CancelWaiting, Cancelled
  <2> QED BY <2>1, <2>2, <2>3, EndDiscipline DEF Ended
<1>14. ASSUME NEW t \in Task, CancelFetching(t) PROVE LockDiscipline'
  <2>1. Apart(t, NoTask, queue)
    BY <1>14, HolderApart DEF CancelFetching
  <2>2. pc' = [pc EXCEPT ![t] = "cancelled"] /\ lock' = NoTask /\ queue' = queue
    BY <1>14 DEF CancelFetching, Cancelled
  <2> QED BY <1>0, <2>1, <2>2, EndDiscipline DEF Ended
<1>15. ASSUME NEW t \in Task, Leave(t) PROVE LockDiscipline'
  <2>1. Apart(t, lock, queue)
    BY <1>15, IdleApart DEF Leave, Ended
  <2>2. pc' = [pc EXCEPT ![t] = "idle"] /\ lock' = lock /\ queue' = queue
    BY <1>15 DEF Leave
  <2> QED BY <1>0, <2>1, <2>2, EndDiscipline
<1>16. CASE UNCHANGED vars
  BY <1>16 DEF vars, LockDiscipline
<1> QED
  BY <1>1, <1>2, <1>3, <1>4, <1>5, <1>6, <1>7, <1>8, <1>9, <1>10, <1>11,
     <1>12, <1>13, <1>14, <1>15, <1>16 DEF Next

----------------------------------------------------------------------------

\* What a step that touches neither the provider, the clock nor the cache needs
\* to keep the rest of the invariant: t leaves with no response under way.
LEMMA QuietStep ==
  ASSUME AnswerInv, CacheInv, ExcuseInv, NEW t \in Task,
         UNCHANGED <<clock, idp, retiredAt, jwksCache, jwksLoadedAt>>,
         \A u \in Task \ {t} :
            /\ pc'[u] = pc[u] /\ want'[u] = want[u] /\ excuse'[u] = excuse[u]
            /\ answer'[u] = answer[u] /\ answeredAt'[u] = answeredAt[u],
         answer'[t] = None,
         Unlisted(want'[t], idp) => excuse'[t]
  PROVE  AnswerInv' /\ CacheInv' /\ ExcuseInv'
<1>1. AnswerInv'
  BY DEF AnswerInv
<1>2. CacheInv'
  BY DEF CacheInv
<1>3. ExcuseInv'
  BY DEF ExcuseInv, Unlisted
<1> QED BY <1>1, <1>2, <1>3

\* Going for the lock, or ending, is a matter of t alone.
LEMMA AcquireOthers ==
  ASSUME TypeOK, NEW t \in Task, NEW h, NEW q, AcquireLock(t, h, q)
  PROVE  \A u \in Task \ {t} : pc'[u] = pc[u]
<1>1. PICK x : pc' = [pc EXCEPT ![t] = x]
  BY DEF AcquireLock
<1> QED BY <1>1 DEF TypeOK

LEMMA ContinueOthers ==
  ASSUME TypeOK, NEW t \in Task, NEW w, NEW f, NEW v, NEW h, NEW q,
         Continue(t, w, f, v, h, q)
  PROVE  \A u \in Task \ {t} : pc'[u] = pc[u]
<1>1. CASE ~f /\ Unlisted(w, v)
  BY ONLY <1>1, TypeOK, t \in Task, Continue(t, w, f, v, h, q), AcquireOthers
     DEF Continue
<1>2. CASE ~(~f /\ Unlisted(w, v))
  BY <1>2 DEF Continue, TypeOK
<1> QED BY <1>1, <1>2

\* The lock makes the response of the task inside the only one under way.
LEMMA OneExchange ==
  ASSUME LockDiscipline, AnswerInv, NEW t \in Task, pc[t] = "fetching"
  PROVE  \A u \in Task \ {t} : answer[u] = None
BY DEF LockDiscipline, AnswerInv

LEMMA NoExchange ==
  ASSUME AnswerInv, NEW t \in Task, pc[t] # "fetching"
  PROVE  answer[t] = None
BY DEF AnswerInv

LEMMA ArriveQuiet ==
  ASSUME TypeOK, AnswerInv, CacheInv, ExcuseInv,
         NEW t \in Task, NEW w \in Token \cup {Probe}, Arrive(t, w),
         \A u \in Task \ {t} : pc'[u] = pc[u]
  PROVE  AnswerInv' /\ CacheInv' /\ ExcuseInv'
<1>1. answer[t] = None /\ answer' = answer /\ answeredAt' = answeredAt
  BY NoExchange DEF Arrive, exchange
<1>2. /\ \A u \in Task \ {t} : want'[u] = want[u] /\ excuse'[u] = excuse[u]
      /\ want'[t] = w /\ (Unlisted(w, idp) => excuse'[t])
  BY DEF Arrive, TypeOK
<1>3. UNCHANGED <<clock, idp, retiredAt, jwksCache, jwksLoadedAt>>
  BY DEF Arrive, provider
<1> QED BY <1>1, <1>2, <1>3, QuietStep

LEMMA EndExchangeQuiet ==
  ASSUME TypeOK, AnswerInv, CacheInv, ExcuseInv, NEW t \in Task, EndExchange(t),
         UNCHANGED <<jwksCache, jwksLoadedAt>>,
         excuse' = [excuse EXCEPT ![t] = TRUE],
         \A u \in Task \ {t} : pc'[u] = pc[u]
  PROVE  AnswerInv' /\ CacheInv' /\ ExcuseInv'
<1>1. /\ answer'[t] = None
      /\ \A u \in Task \ {t} : answer'[u] = answer[u] /\ answeredAt'[u] = answeredAt[u]
  BY DEF EndExchange, TypeOK
<1>2. /\ \A u \in Task \ {t} : want'[u] = want[u] /\ excuse'[u] = excuse[u]
      /\ excuse'[t]
  BY DEF EndExchange, TypeOK
<1>3. UNCHANGED <<clock, idp, retiredAt>>
  BY DEF EndExchange, provider
<1> QED BY <1>1, <1>2, <1>3, QuietStep

\* Every step keeps what is known of responses, of the cache and of excuses.
LEMMA CacheStep ==
  ASSUME TypeOK, LockDiscipline, AnswerInv, CacheInv, ExcuseInv, [Next]_vars
  PROVE  AnswerInv' /\ CacheInv' /\ ExcuseInv'
<1> USE DEF None, Version
<1>1. CASE Tick
  <2>1. AnswerInv'
    BY <1>1, TimeAssumption DEF Tick, AnswerInv, TypeOK, provider, keyCache, exchange
  <2>2. CacheInv'
    BY <1>1 DEF Tick, CacheInv, TypeOK, provider, keyCache
  <2>3. ExcuseInv'
    BY <1>1 DEF Tick, ExcuseInv, Unlisted, provider, exchange
  <2> QED BY <2>1, <2>2, <2>3
<1>2. CASE Rotate
  <2>0. /\ idp' = idp + 1 /\ idp \in Nat
        /\ retiredAt'[idp] = clock
        /\ \A v \in 1..LastVersion : v # idp => retiredAt'[v] = retiredAt[v]
        /\ UNCHANGED <<clock, jwksCache, jwksLoadedAt, answer, answeredAt, pc, want>>
    BY <1>2, KeyAssumption DEF Rotate, TypeOK, keyCache, exchange
  <2>1. AnswerInv'
    <3> SUFFICES ASSUME NEW t \in Task, answer[t] # None
                 PROVE  /\ jwksCache <= answer[t] /\ answer[t] <= idp + 1
                        /\ pc[t] = "fetching"
                        /\ clock <= answeredAt[t] + HttpTimeout
                        /\ answer[t] < idp + 1 => answeredAt[t] <= retiredAt'[answer[t]]
      BY <2>0 DEF AnswerInv
    <3>1. answeredAt[t] <= clock
      BY DEF AnswerInv
    <3>2. /\ jwksCache \in Nat /\ answer[t] \in 1..LastVersion
          /\ jwksCache <= answer[t] /\ answer[t] <= idp /\ pc[t] = "fetching"
          /\ clock <= answeredAt[t] + HttpTimeout
          /\ answer[t] < idp => answeredAt[t] <= retiredAt[answer[t]]
      BY DEF AnswerInv, TypeOK
    <3> QED BY <2>0, <3>1, <3>2
  <2>2. CacheInv'
    <3> SUFFICES ASSUME jwksCache # None
                 PROVE  /\ jwksCache <= idp + 1
                        /\ jwksLoadedAt <= clock
                        /\ jwksCache < idp + 1
                              => jwksLoadedAt <= retiredAt'[jwksCache] + HttpTimeout
      BY <2>0 DEF CacheInv
    <3>1. /\ jwksCache \in 1..LastVersion
          /\ jwksLoadedAt \in Nat /\ clock \in Nat
      BY DEF TypeOK
    <3> QED BY <2>0, <3>1, TimeAssumption DEF CacheInv
  <2>3. ExcuseInv'
    BY <1>2 DEF Rotate, ExcuseInv, Unlisted, TypeOK, exchange
  <2> QED BY <2>1, <2>2, <2>3
<1>3. ASSUME NEW t \in Task, WarmUp(t) PROVE AnswerInv' /\ CacheInv' /\ ExcuseInv'
  <2>1. \A u \in Task \ {t} : pc'[u] = pc[u]
    BY <1>3, AcquireOthers DEF WarmUp
  <2>2. /\ UNCHANGED <<clock, idp, retiredAt, jwksCache, jwksLoadedAt>>
        /\ UNCHANGED <<answer, answeredAt, excuse>>
        /\ \A u \in Task \ {t} : want'[u] = want[u]
    BY <1>3 DEF WarmUp, TypeOK, provider, keyCache, exchange
  <2>3. answer[t] = None
    BY <1>3, NoExchange DEF WarmUp
  <2>4. ~Unlisted(want'[t], idp)
    BY <1>3, TaskAssumption DEF WarmUp, TypeOK, Unlisted
  <2> QED BY <2>1, <2>2, <2>3, <2>4, QuietStep
<1>4. ASSUME NEW t \in Task, NEW w \in Token \cup {Probe}, RejectUnkeyed(t, w)
      PROVE  AnswerInv' /\ CacheInv' /\ ExcuseInv'
  <2>1. Arrive(t, w) /\ \A u \in Task \ {t} : pc'[u] = pc[u]
    BY <1>4 DEF RejectUnkeyed, TypeOK
  <2> QED BY <2>1, ArriveQuiet
<1>5. ASSUME NEW t \in Task, NEW w \in Token \cup {Probe}, UseCache(t, w)
      PROVE  AnswerInv' /\ CacheInv' /\ ExcuseInv'
  <2>1. Arrive(t, w) /\ \A u \in Task \ {t} : pc'[u] = pc[u]
    BY <1>5, ContinueOthers DEF UseCache
  <2> QED BY <2>1, ArriveQuiet
<1>6. ASSUME NEW t \in Task, NEW w \in Token \cup {Probe}, NeedRefresh(t, w)
      PROVE  AnswerInv' /\ CacheInv' /\ ExcuseInv'
  <2>1. Arrive(t, w) /\ \A u \in Task \ {t} : pc'[u] = pc[u]
    BY <1>6, AcquireOthers DEF NeedRefresh
  <2> QED BY <2>1, ArriveQuiet
<1>7. ASSUME NEW t \in Task, FindFilled(t) \/ StartFetch(t)
      PROVE  AnswerInv' /\ CacheInv' /\ ExcuseInv'
  <2>1. Granted(t)
    BY <1>7 DEF FindFilled, StartFetch
  <2>2. \A u \in Task \ {t} : pc'[u] = pc[u]
    BY <1>7, ContinueOthers DEF FindFilled, StartFetch, TypeOK
  <2>3. answer[t] = None
    BY <2>1, NoExchange, TaskAssumption DEF Granted, LockDiscipline
  <2>4. /\ UNCHANGED <<clock, idp, retiredAt, jwksCache, jwksLoadedAt>>
        /\ UNCHANGED <<answer, answeredAt, excuse, want>>
    BY <2>1 DEF Granted, provider, exchange
  <2>5. Unlisted(want'[t], idp) => excuse'[t]
    BY <2>4 DEF ExcuseInv
  <2> QED BY <2>2, <2>3, <2>4, <2>5, QuietStep
<1>8. ASSUME NEW t \in Task, Respond(t) PROVE AnswerInv' /\ CacheInv' /\ ExcuseInv'
  <2>1. /\ answer'[t] = idp /\ answeredAt'[t] = clock
        /\ \A u \in Task \ {t} : answer'[u] = answer[u] /\ answeredAt'[u] = answeredAt[u]
        /\ UNCHANGED <<clock, idp, retiredAt, jwksCache, jwksLoadedAt, pc, want, excuse>>
        /\ pc[t] = "fetching" /\ idp \in Nat /\ clock \in Nat
    BY <1>8 DEF Respond, TypeOK, provider, keyCache
  <2>2. AnswerInv'
    BY <2>1, TimeAssumption DEF AnswerInv, CacheInv
  <2>3. CacheInv'
    BY <2>1 DEF CacheInv
  <2>4. ExcuseInv'
    BY <2>1 DEF ExcuseInv, Unlisted
  <2> QED BY <2>2, <2>3, <2>4
<1>9. ASSUME NEW t \in Task, Deliver(t) PROVE AnswerInv' /\ CacheInv' /\ ExcuseInv'
  <2>1. /\ jwksCache' = answer[t] /\ jwksLoadedAt' = clock /\ answer[t] # None
        /\ answer'[t] = None
        /\ \A u \in Task \ {t} : answer'[u] = answer[u]
        /\ UNCHANGED <<clock, idp, retiredAt, want, excuse>>
        /\ pc[t] = "fetching"
    BY <1>9 DEF Deliver, EndExchange, TypeOK, provider
  <2>2. \A u \in Task : answer'[u] = None
    BY <2>1, OneExchange
  <2>3. AnswerInv'
    BY <2>2 DEF AnswerInv
  <2>4. CacheInv'
    <3>1. answer[t] \in 1..LastVersion /\ answeredAt[t] \in Nat /\ clock \in Nat
      BY <2>1 DEF TypeOK
    <3> QED BY <2>1, <3>1, TimeAssumption DEF CacheInv, AnswerInv, TypeOK
  <2>5. ExcuseInv'
    BY <2>1, <2>2 DEF ExcuseInv, Unlisted
  <2> QED BY <2>3, <2>4, <2>5
<1>10. ASSUME NEW t \in Task, FallBack(t) PROVE AnswerInv' /\ CacheInv' /\ ExcuseInv'
  <2>1. \A u \in Task \ {t} : pc'[u] = pc[u]
    BY <1>10, ContinueOthers DEF FallBack
  <2> QED BY <1>10, <2>1, EndExchangeQuiet DEF FallBack
<1>11. ASSUME NEW t \in Task, GiveUp(t) PROVE AnswerInv' /\ CacheInv' /\ ExcuseInv'
  <2>1. \A u \in Task \ {t} : pc'[u] = pc[u]
    BY <1>11 DEF GiveUp, Raise, TypeOK
  <2> QED BY <1>11, <2>1, EndExchangeQuiet DEF GiveUp, keyCache
<1>12. ASSUME NEW t \in Task, CancelWaiting(t) PROVE AnswerInv' /\ CacheInv' /\ ExcuseInv'
  <2>1. /\ \A u \in Task \ {t} : pc'[u] = pc[u]
        /\ UNCHANGED <<clock, idp, retiredAt, jwksCache, jwksLoadedAt>>
        /\ UNCHANGED <<answer, answeredAt, want, excuse>>
    BY <1>12 DEF CancelWaiting, Cancelled, TypeOK, provider, keyCache, exchange
  <2>2. answer[t] = None
    <3>1. pc[t] = "waiting"
      BY <1>12 DEF CancelWaiting, LockDiscipline
    <3> QED BY <3>1, NoExchange
  <2>3. Unlisted(want'[t], idp) => excuse'[t]
    BY <2>1 DEF ExcuseInv
  <2> QED BY <2>1, <2>2, <2>3, QuietStep
<1>13. ASSUME NEW t \in Task, CancelFetching(t) PROVE AnswerInv' /\ CacheInv' /\ ExcuseInv'
  <2>1. /\ \A u \in Task \ {t} :
             pc'[u] = pc[u] /\ answer'[u] = answer[u] /\ answeredAt'[u] = answeredAt[u]
        /\ answer'[t] = None
        /\ UNCHANGED <<clock, idp, retiredAt, jwksCache, jwksLoadedAt, want, excuse>>
    BY <1>13 DEF CancelFetching, Cancelled, TypeOK, provider, keyCache
  <2>2. Unlisted(want'[t], idp) => excuse'[t]
    BY <2>1 DEF ExcuseInv
  <2> QED BY <2>1, <2>2, QuietStep
<1>14. ASSUME NEW t \in Task, Leave(t) PROVE AnswerInv' /\ CacheInv' /\ ExcuseInv'
  <2>1. /\ \A u \in Task \ {t} :
             pc'[u] = pc[u] /\ want'[u] = want[u] /\ excuse'[u] = excuse[u]
        /\ UNCHANGED <<clock, idp, retiredAt, jwksCache, jwksLoadedAt, answer, answeredAt>>
        /\ want'[t] = Probe
    BY <1>14 DEF Leave, TypeOK, provider, keyCache, exchange
  <2>2. answer[t] = None
    BY <1>14, NoExchange DEF Leave, Ended
  <2>3. ~Unlisted(want'[t], idp)
    BY <2>1, TaskAssumption DEF Unlisted
  <2> QED BY <2>1, <2>2, <2>3, QuietStep
<1>15. CASE UNCHANGED vars
  BY <1>15 DEF vars, AnswerInv, CacheInv, ExcuseInv, Unlisted, provider, keyCache, exchange
<1> QED
  BY <1>1, <1>2, <1>3, <1>4, <1>5, <1>6, <1>7, <1>8, <1>9, <1>10, <1>11,
     <1>12, <1>13, <1>14, <1>15 DEF Next

\* The cache, once filled, is never emptied; the warm-up ends with a filled one
\* or, when it is required, with no service at all.
LEMMA WarmStep ==
  ASSUME TypeOK, WarmBeforeTraffic, [Next]_vars
  PROVE  WarmBeforeTraffic'
<1>1. jwksCache # None => jwksCache' # None
  BY DEF Next, vars, provider, keyCache, exchange, Tick, Rotate, WarmUp, Arrive,
         RejectUnkeyed, UseCache, NeedRefresh, Granted, FindFilled, StartFetch,
         Respond, Deliver, FallBack, GiveUp, Cancelled, CancelWaiting,
         CancelFetching, Leave
<1>2. CASE \E t \in Task : Deliver(t)
  BY <1>2 DEF Deliver, WarmBeforeTraffic
<1>3. CASE \E t \in Task : FallBack(t)
  BY <1>3 DEF FallBack, StaleUsable, WarmBeforeTraffic
<1>4. CASE \E t \in Task : GiveUp(t)
  BY <1>1, <1>4 DEF GiveUp, Warmed, WarmBeforeTraffic
<1>5. CASE \E t \in Task : WarmUp(t)
  BY <1>5 DEF WarmUp, WarmBeforeTraffic
<1>6. CASE phase' = phase
  BY <1>1, <1>6 DEF WarmBeforeTraffic
<1>7. \/ \E t \in Task : Deliver(t) \/ FallBack(t) \/ GiveUp(t) \/ WarmUp(t)
      \/ phase' = phase
  BY DEF Next, vars, Tick, Rotate, Arrive, RejectUnkeyed, UseCache, NeedRefresh,
         Granted, FindFilled, StartFetch, Respond, Cancelled, CancelWaiting,
         CancelFetching, Leave
<1> QED BY <1>2, <1>3, <1>4, <1>5, <1>6, <1>7

\* Fresh is a matter of the clock and the cache.
LEMMA FreshKept ==
  ASSUME UNCHANGED <<clock, jwksCache, jwksLoadedAt>>
  PROVE  Fresh' <=> Fresh
BY DEF Fresh

\* A task that asks the provider for a probe holds the lock.
LEMMA ProbeQuiet ==
  ASSUME ProbeInv, NEW t \in Task,
         UNCHANGED <<clock, jwksCache, jwksLoadedAt>>,
         \A u \in Task \ {t} :
            pc'[u] = pc[u] /\ want'[u] = want[u] /\ force'[u] = force[u],
         want'[t] = Probe \/ pc'[t] \notin {"waiting", "fetching"} => ~force'[t],
         want'[t] = Probe /\ pc'[t] = "fetching" => ~Fresh
  PROVE  ProbeInv'
BY FreshKept DEF ProbeInv

LEMMA AcquirePlaces ==
  ASSUME TypeOK, NEW t \in Task, NEW h, NEW q, AcquireLock(t, h, q)
  PROVE  pc'[t] \in {"waiting", "fetching"}
<1>1. PICK x \in {"waiting", "fetching"} : pc' = [pc EXCEPT ![t] = x]
  BY DEF AcquireLock
<1> QED BY <1>1 DEF TypeOK

\* A probe that got its keys ends; any task that ends has no force left.
LEMMA ContinueProbe ==
  ASSUME TypeOK, NEW t \in Task, NEW w, NEW f, NEW v, NEW h, NEW q,
         Continue(t, w, f, v, h, q)
  PROVE  /\ w = Probe => ~force'[t] /\ pc'[t] \in Ended
         /\ pc'[t] \notin {"waiting", "fetching"} => ~force'[t]
         /\ \A u \in Task \ {t} : force'[u] = force[u]
<1>1. CASE ~f /\ Unlisted(w, v)
  <2>1. AcquireLock(t, h, q) /\ force' = [force EXCEPT ![t] = TRUE] /\ w # Probe
    BY <1>1, TaskAssumption DEF Continue, Unlisted
  <2>2. pc'[t] \in {"waiting", "fetching"}
    BY ONLY TypeOK, t \in Task, <2>1, AcquirePlaces
  <2> QED BY <2>1, <2>2 DEF TypeOK
<1>2. CASE ~(~f /\ Unlisted(w, v))
  <2>1. Verdict(w, v) \in Ended
    BY DEF Verdict, Ended
  <2> QED BY <1>2, <2>1 DEF Continue, TypeOK
<1> QED BY <1>1, <1>2

LEMMA ProbeStep ==
  ASSUME TypeOK, LockDiscipline, ProbeInv, [Next]_vars
  PROVE  ProbeInv'
<1>1. CASE Tick
  BY <1>1, TimeAssumption DEF Tick, ProbeInv, Fresh, TypeOK, keyCache
<1>2. CASE Rotate
  BY <1>2, FreshKept DEF Rotate, ProbeInv, keyCache
<1>3. ASSUME NEW t \in Task, WarmUp(t) PROVE ProbeInv'
  <2>1. \A u \in Task \ {t} : pc'[u] = pc[u]
    BY <1>3, AcquireOthers DEF WarmUp
  <2>2. pc'[t] \in {"waiting", "fetching"}
    BY <1>3, AcquirePlaces DEF WarmUp
  <2>3. /\ UNCHANGED <<clock, jwksCache, jwksLoadedAt>>
        /\ want'[t] # Probe
        /\ \A u \in Task \ {t} : want'[u] = want[u] /\ force'[u] = force[u]
    BY <1>3, TaskAssumption DEF WarmUp, TypeOK, keyCache
  <2> QED BY <2>1, <2>2, <2>3, ProbeQuiet
<1>4. ASSUME NEW t \in Task, NEW w \in Token \cup {Probe}, Arrive(t, w)
      PROVE  /\ UNCHANGED <<clock, jwksCache, jwksLoadedAt>>
             /\ want'[t] = w /\ ~force[t]
             /\ \A u \in Task \ {t} : want'[u] = want[u]
  BY <1>4 DEF Arrive, TypeOK, ProbeInv
<1>5. ASSUME NEW t \in Task, NEW w \in Token \cup {Probe}, RejectUnkeyed(t, w)
      PROVE  ProbeInv'
  <2>1. /\ \A u \in Task \ {t} : pc'[u] = pc[u] /\ force'[u] = force[u]
        /\ pc'[t] = "rejected" /\ force'[t] = force[t] /\ Arrive(t, w)
    BY <1>5 DEF RejectUnkeyed, TypeOK
  <2> QED BY <1>4, <2>1, ProbeQuiet
<1>6. ASSUME NEW t \in Task, NEW w \in Token \cup {Probe}, UseCache(t, w)
      PROVE  ProbeInv'
  <2>1. Continue(t, w, FALSE, jwksCache, lock, queue) /\ Arrive(t, w)
    BY <1>6 DEF UseCache
  <2>2. /\ w = Probe => ~force'[t] /\ pc'[t] \in Ended
        /\ pc'[t] \notin {"waiting", "fetching"} => ~force'[t]
        /\ \A u \in Task \ {t} : pc'[u] = pc[u] /\ force'[u] = force[u]
    BY <2>1, ContinueProbe, ContinueOthers
  <2> QED BY <1>4, <2>1, <2>2, ProbeQuiet DEF Ended
<1>7. ASSUME NEW t \in Task, NEW w \in Token \cup {Probe}, NeedRefresh(t, w)
      PROVE  ProbeInv'
  <2>1. Arrive(t, w) /\ ~Fresh /\ \A u \in Task \ {t} : pc'[u] = pc[u]
    BY <1>7, AcquireOthers DEF NeedRefresh
  <2>2. ~force'[t] /\ \A u \in Task \ {t} : force'[u] = force[u]
    BY <1>7 DEF NeedRefresh, TypeOK
  <2> QED BY <1>4, <2>1, <2>2, ProbeQuiet
<1>8. ASSUME NEW t \in Task, FindFilled(t) PROVE ProbeInv'
  <2>1. Continue(t, want[t], FALSE, jwksCache, NoTask, Tail(queue))
    BY <1>8 DEF FindFilled
  <2>2. /\ want[t] = Probe => ~force'[t] /\ pc'[t] \in Ended
        /\ pc'[t] \notin {"waiting", "fetching"} => ~force'[t]
        /\ \A u \in Task \ {t} : pc'[u] = pc[u] /\ force'[u] = force[u]
    BY <2>1, ContinueProbe, ContinueOthers
  <2>3. UNCHANGED <<clock, jwksCache, jwksLoadedAt, want>>
    BY <1>8 DEF FindFilled, Granted
  <2> QED BY <2>2, <2>3, ProbeQuiet DEF Ended
<1>9. ASSUME NEW t \in Task, StartFetch(t) PROVE ProbeInv'
  <2>1. /\ UNCHANGED <<clock, jwksCache, jwksLoadedAt, want, force>>
        /\ pc'[t] = "fetching" /\ \A u \in Task \ {t} : pc'[u] = pc[u]
        /\ force[t] \/ ~Fresh
    BY <1>9 DEF StartFetch, Granted, TypeOK
  <2> QED BY <2>1, ProbeQuiet DEF ProbeInv
<1>10. ASSUME NEW t \in Task, Respond(t) PROVE ProbeInv'
  BY <1>10, FreshKept DEF Respond, ProbeInv, keyCache
<1>11. ASSUME NEW t \in Task, Deliver(t) PROVE ProbeInv'
  <2>1. /\ Continue(t, want[t], force[t], answer[t], NoTask, queue)
        /\ want' = want /\ pc[t] = "fetching"
    BY <1>11 DEF Deliver, EndExchange
  <2>2. /\ want[t] = Probe => ~force'[t] /\ pc'[t] \in Ended
        /\ pc'[t] \notin {"waiting", "fetching"} => ~force'[t]
        /\ \A u \in Task \ {t} : pc'[u] = pc[u] /\ force'[u] = force[u]
    BY ONLY TypeOK, t \in Task, <2>1, ContinueProbe, ContinueOthers
  <2>3. \A u \in Task \ {t} : pc[u] # "fetching"
    BY <2>1 DEF LockDiscipline
  <2> QED BY <2>1, <2>2, <2>3 DEF ProbeInv, Ended
<1>12. ASSUME NEW t \in Task, FallBack(t) PROVE ProbeInv'
  <2>1. /\ Continue(t, want[t], force[t], jwksCache, NoTask, queue)
        /\ UNCHANGED <<clock, jwksCache, jwksLoadedAt, want>>
    BY <1>12 DEF FallBack, EndExchange
  <2>2. /\ want[t] = Probe => ~force'[t] /\ pc'[t] \in Ended
        /\ pc'[t] \notin {"waiting", "fetching"} => ~force'[t]
        /\ \A u \in Task \ {t} : pc'[u] = pc[u] /\ force'[u] = force[u]
    BY ONLY TypeOK, t \in Task, <2>1, ContinueProbe, ContinueOthers
  <2> QED BY <2>1, <2>2, ProbeQuiet DEF Ended
<1>13. ASSUME NEW t \in Task,
              GiveUp(t) \/ CancelWaiting(t) \/ CancelFetching(t) \/ Leave(t)
       PROVE  ProbeInv'
  <2>1. /\ UNCHANGED <<clock, jwksCache, jwksLoadedAt>>
        /\ \A u \in Task \ {t} :
             pc'[u] = pc[u] /\ want'[u] = want[u] /\ force'[u] = force[u]
        /\ pc'[t] \in Ended \cup {"idle"}
    BY <1>13 DEF GiveUp, EndExchange, Raise, CancelWaiting, CancelFetching,
                 Cancelled, Leave, TypeOK, keyCache, Ended
  <2>2. ~force'[t]
    BY <1>13 DEF GiveUp, Raise, CancelWaiting, CancelFetching, Cancelled, Leave,
                 TypeOK, ProbeInv, Ended
  <2> QED BY <2>1, <2>2, ProbeQuiet DEF Ended
<1>14. CASE UNCHANGED vars
  BY <1>14, FreshKept DEF vars, ProbeInv, keyCache
<1> QED
  BY <1>1, <1>2, <1>3, <1>5, <1>6, <1>7, <1>8, <1>9, <1>10, <1>11, <1>12,
     <1>13, <1>14 DEF Next

LEMMA InvInit == Init => IInv
<1> SUFFICES ASSUME Init PROVE IInv
  OBVIOUS
<1>1. TypeOK
  BY TypeInit
<1>2. LockDiscipline
  BY TaskAssumption DEF Init, LockDiscipline
<1>3. AnswerInv /\ CacheInv /\ ProbeInv /\ WarmBeforeTraffic
  BY DEF Init, AnswerInv, CacheInv, ProbeInv, WarmBeforeTraffic
<1>4. ExcuseInv
  BY TaskAssumption DEF Init, ExcuseInv, Unlisted
<1> QED BY <1>1, <1>2, <1>3, <1>4 DEF IInv

LEMMA InvStep ==
  ASSUME IInv, [Next]_vars
  PROVE  IInv'
BY TypeStep, LockStep, CacheStep, ProbeStep, WarmStep DEF IInv

\* The lock, the response under way and the cache agree in every reachable
\* state; the theorems below rest on it.
THEOREM Invariance == Spec => []IInv
<1>1. IInv /\ [Next]_vars => IInv'
  BY InvStep
<1> QED BY InvInit, <1>1, PTL DEF Spec

\* The lock is never lost, doubled or left held by a task that was cancelled.
THEOREM LockIsDisciplined == Spec => []LockDiscipline
<1>1. IInv => LockDiscipline
  BY DEF IInv
<1> QED BY Invariance, <1>1, PTL

\* A required warm-up comes before the first request.
THEOREM WarmedBeforeTraffic == Spec => []WarmBeforeTraffic
<1>1. IInv => WarmBeforeTraffic
  BY DEF IInv
<1> QED BY Invariance, <1>1, PTL

----------------------------------------------------------------------------

\* The cache only moves forward along the provider's history.
THEOREM NoRegress == Spec => CacheNeverRegresses
<1>1. IInv /\ [Next]_vars => [jwksCache' >= jwksCache]_vars
  <2> SUFFICES ASSUME IInv, [Next]_vars PROVE [jwksCache' >= jwksCache]_vars
    OBVIOUS
  <2>1. jwksCache \in Nat
    BY KeyAssumption DEF IInv, TypeOK, None, Version
  <2>2. CASE \E t \in Task : Deliver(t)
    BY <2>1, <2>2 DEF Deliver, IInv, AnswerInv, TypeOK, None, Version
  <2>3. CASE jwksCache' = jwksCache
    BY <2>1, <2>3
  <2>4. (\E t \in Task : Deliver(t)) \/ jwksCache' = jwksCache
    BY DEF Next, vars, keyCache, Tick, Rotate, WarmUp, Arrive, RejectUnkeyed,
           UseCache, NeedRefresh, Granted, FindFilled, StartFetch, Respond,
           FallBack, GiveUp, Cancelled, CancelWaiting, CancelFetching, Leave
  <2> QED BY <2>2, <2>3, <2>4
<1> QED BY Invariance, <1>1, PTL DEF Spec, CacheNeverRegresses

\* Who ends a task, and with which key set.
LEMMA ContinueVerdict ==
  ASSUME TypeOK, NEW t \in Task, NEW w, NEW f, NEW v, NEW h, NEW q,
         Continue(t, w, f, v, h, q)
  PROVE  /\ pc'[t] = "accepted" => w \in Genuine /\ KidOf[w] \in KeysOf[v]
         /\ pc'[t] = "rejected" => w \in Token /\ (w \in Genuine => f /\ Unlisted(w, v))
<1>1. CASE ~f /\ Unlisted(w, v)
  <2>1. AcquireLock(t, h, q)
    BY <1>1 DEF Continue
  <2>2. pc'[t] \in {"waiting", "fetching"}
    BY ONLY TypeOK, t \in Task, <2>1, AcquirePlaces
  <2> QED BY <2>2
<1>2. CASE ~(~f /\ Unlisted(w, v))
  <2>1. pc'[t] = Verdict(w, v)
    BY <1>2 DEF Continue, TypeOK
  <2> QED BY <1>2, <2>1, KeyAssumption DEF Verdict, Unlisted
<1> QED BY <1>1, <1>2

\* Only its own step ends a task, and only some steps do.
LEMMA OwnStep ==
  ASSUME TypeOK, Next, NEW t \in Task, pc'[t] # pc[t], pc'[t] \in Ended
  PROVE  \/ \E w \in Token \cup {Probe} : RejectUnkeyed(t, w) \/ UseCache(t, w)
         \/ FindFilled(t) \/ Deliver(t) \/ FallBack(t) \/ GiveUp(t)
         \/ pc'[t] = "cancelled"
<1>1. ASSUME NEW u \in Task, u # t, NEW w, NEW f, NEW v, NEW h, NEW q,
             Continue(u, w, f, v, h, q)
      PROVE  FALSE
  BY <1>1, ContinueOthers
<1>2. ASSUME NEW u \in Task, NEW h, NEW q, AcquireLock(u, h, q) PROVE FALSE
  <2>1. pc'[u] \in {"waiting", "fetching"} /\ \A x \in Task \ {u} : pc'[x] = pc[x]
    BY <1>2, AcquireOthers, AcquirePlaces
  <2> QED BY <2>1 DEF Ended
<1>3. ASSUME NEW u \in Task, WarmUp(u) PROVE FALSE
  BY <1>2, <1>3 DEF WarmUp
<1>4. ASSUME NEW u \in Task, NEW w \in Token \cup {Probe}, NeedRefresh(u, w)
      PROVE  FALSE
  BY <1>2, <1>4 DEF NeedRefresh
<1>5. ASSUME NEW u \in Task, NEW w \in Token \cup {Probe}, UseCache(u, w)
      PROVE  u = t
  BY <1>1, <1>5 DEF UseCache
<1>6. ASSUME NEW u \in Task, FindFilled(u) PROVE u = t
  BY <1>1, <1>6 DEF FindFilled
<1>7. ASSUME NEW u \in Task, Deliver(u) PROVE u = t
  <2>1. Continue(u, want[u], force[u], answer[u], NoTask, queue)
    BY <1>7 DEF Deliver
  <2>2. \A x \in Task \ {u} : pc'[x] = pc[x]
    BY ONLY TypeOK, u \in Task, <2>1, ContinueOthers
  <2> QED BY <2>2
<1>8. ASSUME NEW u \in Task, FallBack(u) PROVE u = t
  <2>1. Continue(u, want[u], force[u], jwksCache, NoTask, queue)
    BY <1>8 DEF FallBack
  <2>2. \A x \in Task \ {u} : pc'[x] = pc[x]
    BY ONLY TypeOK, u \in Task, <2>1, ContinueOthers
  <2> QED BY <2>2
<1>9. ASSUME NEW u \in Task, GiveUp(u) PROVE u = t
  BY <1>9 DEF GiveUp, Raise, TypeOK
<1>10. ASSUME NEW u \in Task, StartFetch(u) \/ Leave(u) PROVE FALSE
  BY <1>10 DEF StartFetch, Leave, TypeOK, Ended
<1>11. ASSUME NEW u \in Task, CancelWaiting(u) \/ CancelFetching(u)
       PROVE  pc'[t] = "cancelled"
  BY <1>11 DEF CancelWaiting, CancelFetching, Cancelled, TypeOK
<1>12. ASSUME NEW u \in Task, NEW w \in Token \cup {Probe}, RejectUnkeyed(u, w)
       PROVE  u = t
  BY <1>12 DEF RejectUnkeyed, TypeOK
<1>13. ~Tick /\ ~Rotate /\ \A u \in Task : ~Respond(u)
  BY DEF Tick, Rotate, Respond
<1> QED
  BY <1>3, <1>4, <1>5, <1>6, <1>7, <1>8, <1>9, <1>10, <1>11, <1>12, <1>13 DEF Next

\* A cache that the code would use is recent enough.
LEMMA UsableRecent ==
  ASSUME TypeOK, CacheInv, Fresh \/ StaleUsable
  PROVE  jwksCache \in 1..idp /\ Recent(jwksCache)
<1>1. /\ jwksCache \in 1..LastVersion /\ jwksCache # None /\ idp \in 1..LastVersion
      /\ clock \in Nat /\ jwksLoadedAt \in Nat /\ retiredAt[jwksCache] \in Nat
  BY DEF Fresh, StaleUsable, TypeOK, None, Version
<1> QED BY <1>1, KeyAssumption, TimeAssumption
        DEF Fresh, StaleUsable, CacheInv, Recent, Window

LEMMA AnswerRecent ==
  ASSUME TypeOK, AnswerInv, NEW t \in Task, answer[t] # None
  PROVE  answer[t] \in 1..idp /\ Recent(answer[t])
<1>1. /\ answer[t] \in 1..LastVersion /\ idp \in 1..LastVersion
      /\ clock \in Nat /\ answeredAt[t] \in Nat /\ retiredAt[answer[t]] \in Nat
  BY DEF TypeOK, None, Version
<1> QED BY <1>1, KeyAssumption, TimeAssumption DEF AnswerInv, Recent, Window

\* A revoked key stops working within HttpTimeout and the longer of Ttl and
\* MaxStale.
THEOREM RevocationBound == Spec => RevokedKeysExpire
<1> DEFINE Good(t) == Ends(t, "accepted") =>
                        \E v \in 1..idp : Recent(v) /\ KidOf[want'[t]] \in KeysOf[v]
<1>1. IInv /\ [Next]_vars => [\A t \in Task : Good(t)]_vars
  <2> SUFFICES ASSUME IInv, Next PROVE \A t \in Task : Good(t)
    OBVIOUS
  <2> SUFFICES ASSUME NEW t \in Task, Ends(t, "accepted")
               PROVE  \E v \in 1..idp : Recent(v) /\ KidOf[want'[t]] \in KeysOf[v]
    OBVIOUS
  <2>0. TypeOK /\ AnswerInv /\ CacheInv
    BY DEF IInv
  <2>1. \/ \E w \in Token \cup {Probe} : UseCache(t, w)
        \/ FindFilled(t) \/ Deliver(t) \/ FallBack(t)
    <3>1. pc'[t] # pc[t] /\ pc'[t] = "accepted"
      BY DEF Ends
    <3>2. ASSUME NEW w \in Token \cup {Probe}, RejectUnkeyed(t, w) PROVE FALSE
      BY <2>0, <3>1, <3>2 DEF RejectUnkeyed, TypeOK
    <3>3. CASE GiveUp(t)
      BY <2>0, <3>1, <3>3 DEF GiveUp, Raise, TypeOK
    <3> QED BY <2>0, <3>1, <3>2, <3>3, OwnStep DEF Ended
  <2>2. ASSUME NEW w \in Token \cup {Probe}, UseCache(t, w)
        PROVE  \E v \in 1..idp : Recent(v) /\ KidOf[want'[t]] \in KeysOf[v]
    <3>1. want'[t] = w /\ Fresh
          /\ Continue(t, w, FALSE, jwksCache, lock, queue)
      BY <2>0, <2>2 DEF UseCache, Arrive, TypeOK
    <3>2. KidOf[w] \in KeysOf[jwksCache]
      BY <2>0, <3>1, ContinueVerdict DEF Ends
    <3> QED BY <2>0, <3>1, <3>2, UsableRecent
  <2>3. CASE FindFilled(t)
    <3>1. want'[t] = want[t] /\ Fresh
          /\ Continue(t, want[t], FALSE, jwksCache, NoTask, Tail(queue))
      BY <2>3 DEF FindFilled, Granted
    <3>2. KidOf[want[t]] \in KeysOf[jwksCache]
      BY <2>0, <3>1, ContinueVerdict DEF Ends
    <3> QED BY <2>0, <3>1, <3>2, UsableRecent
  <2>4. CASE Deliver(t)
    <3>1. want'[t] = want[t] /\ answer[t] # None
          /\ Continue(t, want[t], force[t], answer[t], NoTask, queue)
      BY <2>4 DEF Deliver, EndExchange
    <3>2. KidOf[want[t]] \in KeysOf[answer[t]]
      BY ONLY <2>0, <3>1, t \in Task, Ends(t, "accepted"), ContinueVerdict DEF Ends
    <3> QED BY <2>0, <3>1, <3>2, AnswerRecent
  <2>5. CASE FallBack(t)
    <3>1. want'[t] = want[t] /\ StaleUsable
          /\ Continue(t, want[t], force[t], jwksCache, NoTask, queue)
      BY <2>5 DEF FallBack, EndExchange
    <3>2. KidOf[want[t]] \in KeysOf[jwksCache]
      BY ONLY <2>0, <3>1, t \in Task, Ends(t, "accepted"), ContinueVerdict DEF Ends
    <3> QED BY <2>0, <3>1, <3>2, UsableRecent
  <2> QED BY <2>1, <2>2, <2>3, <2>4, <2>5
<1> QED BY Invariance, <1>1, PTL DEF Spec, RevokedKeysExpire

\* A genuine token is rejected only for a failure of the provider or for a key
\* it did not publish all along.
THEOREM RejectionIsExcused == Spec => RejectionExcused
<1> DEFINE Good(t) == /\ Ends(t, "rejected")
                      /\ want'[t] \in Genuine
                      /\ KidOf[want'[t]] # NoKid
                      => excuse'[t]
<1>1. IInv /\ [Next]_vars => [\A t \in Task : Good(t)]_vars
  <2> SUFFICES ASSUME IInv, Next, NEW t \in Task, Ends(t, "rejected"),
                      want'[t] \in Genuine, KidOf[want'[t]] # NoKid
               PROVE  excuse'[t]
    OBVIOUS
  <2>0. TypeOK /\ ExcuseInv
    BY DEF IInv
  <2>1. \/ \E w \in Token \cup {Probe} : RejectUnkeyed(t, w) \/ UseCache(t, w)
        \/ FindFilled(t) \/ Deliver(t) \/ FallBack(t) \/ GiveUp(t)
    BY <2>0, OwnStep DEF Ends, Ended
  <2>2. ASSUME NEW w \in Token \cup {Probe}, RejectUnkeyed(t, w) PROVE FALSE
    BY <2>0, <2>2 DEF RejectUnkeyed, Arrive, TypeOK
  <2>3. ASSUME NEW w \in Token \cup {Probe}, UseCache(t, w) PROVE FALSE
    <3>1. want'[t] = w /\ Continue(t, w, FALSE, jwksCache, lock, queue)
      BY <2>0, <2>3 DEF UseCache, Arrive, TypeOK
    <3> QED BY <2>0, <3>1, ContinueVerdict DEF Ends
  <2>4. CASE FindFilled(t)
    <3>1. want'[t] = want[t]
          /\ Continue(t, want[t], FALSE, jwksCache, NoTask, Tail(queue))
      BY <2>4 DEF FindFilled, Granted
    <3> QED BY <2>0, <3>1, ContinueVerdict DEF Ends
  <2>5. CASE Deliver(t)
    <3>1. /\ want'[t] = want[t] /\ answer[t] # None /\ excuse' = excuse
          /\ Continue(t, want[t], force[t], answer[t], NoTask, queue)
      BY <2>5 DEF Deliver, EndExchange
    <3>2. want[t] \in Genuine => Unlisted(want[t], answer[t])
      BY ONLY <2>0, <3>1, t \in Task, Ends(t, "rejected"), ContinueVerdict DEF Ends
    <3> QED BY <2>0, <3>1, <3>2 DEF ExcuseInv
  <2>6. CASE FallBack(t) \/ GiveUp(t)
    BY <2>0, <2>6 DEF FallBack, GiveUp, TypeOK
  <2> QED BY <2>1, <2>2, <2>3, <2>4, <2>5, <2>6
<1> QED BY Invariance, <1>1, PTL DEF Spec, RejectionExcused

\* What the readiness check reports is true of the cache it leaves behind.
THEOREM ProbeIsHonest == Spec => ProbeHonest
<1> DEFINE Good(t) == want'[t] = Probe =>
              /\ Ends(t, "ready") => Fresh' /\ ~usedStale'
              /\ Ends(t, "degraded") => ~Fresh' /\ StaleUsable' /\ usedStale'
              /\ Ends(t, "unready") => ~Fresh' /\ ~StaleUsable'
<1>1. IInv /\ [Next]_vars => [\A t \in Task : Good(t)]_vars
  <2> SUFFICES ASSUME IInv, Next, NEW t \in Task, want'[t] = Probe
               PROVE  /\ Ends(t, "ready") => Fresh' /\ ~usedStale'
                      /\ Ends(t, "degraded") => ~Fresh' /\ StaleUsable' /\ usedStale'
                      /\ Ends(t, "unready") => ~Fresh' /\ ~StaleUsable'
    OBVIOUS
  <2>0. TypeOK /\ ProbeInv
    BY DEF IInv
  <2> SUFFICES ASSUME pc'[t] # pc[t], pc'[t] \in {"ready", "degraded", "unready"}
               PROVE  /\ pc'[t] = "ready" => Fresh' /\ ~usedStale'
                      /\ pc'[t] = "degraded" => ~Fresh' /\ StaleUsable' /\ usedStale'
                      /\ pc'[t] = "unready" => ~Fresh' /\ ~StaleUsable'
    BY DEF Ends
  <2>1. \/ \E w \in Token \cup {Probe} : RejectUnkeyed(t, w) \/ UseCache(t, w)
        \/ FindFilled(t) \/ Deliver(t) \/ FallBack(t) \/ GiveUp(t)
    BY <2>0, OwnStep DEF Ended
  <2>2. ASSUME NEW w, NEW f, NEW v, NEW h, NEW q,
               Continue(t, w, f, v, h, q)
        PROVE  pc'[t] = (IF usedStale' THEN "degraded" ELSE "ready")
    <3>1. ~(~f /\ Unlisted(w, v))
      <4>1. ASSUME AcquireLock(t, h, q) PROVE FALSE
        BY <2>0, <4>1, AcquirePlaces
      <4> QED BY <2>2, <4>1 DEF Continue
    <3>2. pc'[t] = Verdict(w, v)
      BY <2>0, <2>2, <3>1 DEF Continue, TypeOK
    <3> QED BY <3>2 DEF Verdict
  <2>3. ASSUME NEW w \in Token \cup {Probe}, RejectUnkeyed(t, w) PROVE FALSE
    BY <2>0, <2>3 DEF RejectUnkeyed, TypeOK
  <2>4. ASSUME NEW w \in Token \cup {Probe}, UseCache(t, w)
        PROVE  pc'[t] = "ready" /\ Fresh' /\ ~usedStale'
    <3>1. Continue(t, w, FALSE, jwksCache, lock, queue)
          /\ UNCHANGED <<clock, jwksCache, jwksLoadedAt>> /\ Fresh /\ ~usedStale'
      BY <2>4 DEF UseCache, Arrive
    <3> QED BY <2>2, <3>1, FreshKept
  <2>5. CASE FindFilled(t)
    <3>1. Continue(t, want[t], FALSE, jwksCache, NoTask, Tail(queue))
          /\ UNCHANGED <<clock, jwksCache, jwksLoadedAt>> /\ Fresh /\ ~usedStale'
      BY <2>5 DEF FindFilled, Granted
    <3> QED BY <2>2, <3>1, FreshKept
  <2>6. CASE Deliver(t)
    <3>1. /\ Continue(t, want[t], force[t], answer[t], NoTask, queue)
          /\ jwksCache' # None /\ jwksLoadedAt' = clock /\ clock' = clock
          /\ ~usedStale'
      BY <2>6 DEF Deliver, EndExchange
    <3>2. pc'[t] = "ready"
      BY ONLY <2>2, <3>1
    <3>3. Fresh'
      BY <2>0, <3>1, TimeAssumption DEF Fresh, TypeOK
    <3> QED BY <3>1, <3>2, <3>3
  <2>7. CASE FallBack(t)
    <3>1. /\ Continue(t, want[t], force[t], jwksCache, NoTask, queue)
          /\ UNCHANGED <<clock, jwksCache, jwksLoadedAt, want>>
          /\ StaleUsable /\ usedStale' /\ pc[t] = "fetching"
      BY <2>7 DEF FallBack, EndExchange
    <3>2. pc'[t] = "degraded"
      BY ONLY <2>2, <3>1
    <3>3. ~Fresh' /\ StaleUsable'
      BY <2>0, <3>1 DEF ProbeInv, Fresh, StaleUsable
    <3> QED BY <3>1, <3>2, <3>3
  <2>8. CASE GiveUp(t)
    <3>1. /\ UNCHANGED <<clock, jwksCache, jwksLoadedAt, want>>
          /\ ~StaleUsable /\ pc[t] = "fetching" /\ want[t] = Probe
          /\ pc'[t] = "unready"
      BY <2>0, <2>8, TaskAssumption
         DEF GiveUp, EndExchange, Raise, TypeOK, keyCache
    <3> QED BY <2>0, <3>1 DEF ProbeInv, Fresh, StaleUsable
  <2> QED BY <2>1, <2>3, <2>4, <2>5, <2>6, <2>7, <2>8
<1> QED BY Invariance, <1>1, PTL DEF Spec, ProbeHonest

----------------------------------------------------------------------------
\* JwksCache implements KeyTrust.

LEMMA StatusUpdate ==
  ASSUME TypeOK, NEW t \in Task, NEW x, pc' = [pc EXCEPT ![t] = x]
  PROVE  Status' = [Status EXCEPT ![t] =
                      IF x \in {"waiting", "fetching"} THEN "pending" ELSE x]
BY DEF Status, TypeOK

LEMMA AcquireStatus ==
  ASSUME TypeOK, NEW t \in Task, NEW h, NEW q, AcquireLock(t, h, q)
  PROVE  Status' = [Status EXCEPT ![t] = "pending"]
<1>1. PICK x \in {"waiting", "fetching"} : pc' = [pc EXCEPT ![t] = x]
  BY DEF AcquireLock
<1> QED BY <1>1, StatusUpdate

\* After a fetch a task is pending, for the forced one, or has a verdict that
\* favours it only on the strength of the key set fetched.
LEMMA ContinueStatus ==
  ASSUME TypeOK, NEW t \in Task, NEW w, NEW f, NEW v, NEW h, NEW q,
         Continue(t, w, f, v, h, q)
  PROVE  \/ Status' = [Status EXCEPT ![t] = "pending"]
         \/ \E d \in Trust!Favourable \cup Trust!Adverse :
              /\ Status' = [Status EXCEPT ![t] = d]
              /\ d \in Trust!Favourable /\ w \in Token
                   => w \in Genuine /\ KidOf[w] \in KeysOf[v]
<1>1. CASE ~f /\ Unlisted(w, v)
  <2>1. AcquireLock(t, h, q)
    BY <1>1 DEF Continue
  <2> QED BY ONLY TypeOK, t \in Task, <2>1, AcquireStatus
<1>2. CASE ~(~f /\ Unlisted(w, v))
  <2> DEFINE d == Verdict(w, v)
  <2>1. /\ d \in {"accepted", "rejected", "ready", "degraded"}
        /\ w \in Token => d \in {"accepted", "rejected"}
        /\ d = "accepted" => w \in Genuine /\ KidOf[w] \in KeysOf[v]
    BY KeyAssumption DEF Verdict, Unlisted
  <2>2. pc' = [pc EXCEPT ![t] = d]
    BY <1>2 DEF Continue
  <2> HIDE DEF d
  <2>3. Status' = [Status EXCEPT ![t] = d]
    BY <2>1, <2>2, StatusUpdate
  <2> QED BY <2>1, <2>3 DEF Trust!Favourable, Trust!Adverse
<1> QED BY <1>1, <1>2

\* A fetch on behalf of t, whatever it fetched and however it ends, is a step
\* of KeyTrust.
LEMMA FetchStep ==
  ASSUME TypeOK, NEW t \in Task, NEW f, NEW v, NEW h, NEW q,
         NEW w \in Token \cup {Probe, Boot},
         Continue(t, w, f, v, h, q),
         UNCHANGED <<clock, idp, retiredAt>>,
         \/ pc[t] \in {"waiting", "fetching"} /\ want' = want /\ w = want[t]
         \/ /\ pc[t] = "idle" /\ w \in Token \cup {Probe}
            /\ want' = [want EXCEPT ![t] = w]
            /\ jwksCache' = jwksCache,
         Trust!Forward, jwksCache' = v, Trust!Within(v, Window)
  PROVE  [Trust!Next]_Trust!vars
<1>1. CASE Status' = [Status EXCEPT ![t] = "pending"]
  <2>1. CASE pc[t] \in {"waiting", "fetching"} /\ want' = want
    <3>1. Status' = Status
      BY <1>1, <2>1 DEF Status, TypeOK
    <3> QED BY <2>1, <3>1 DEF Trust!Next, Trust!Learn, Trust!world
  <2>2. CASE /\ pc[t] = "idle" /\ w \in Token \cup {Probe}
             /\ want' = [want EXCEPT ![t] = w] /\ jwksCache' = jwksCache
    <3>1. Status[t] = "idle"
      BY <2>2 DEF Status
    <3> QED BY <1>1, <2>2, <3>1 DEF Trust!Next, Trust!Ask, Trust!world
  <2> QED BY <2>1, <2>2
<1>2. CASE \E d \in Trust!Favourable \cup Trust!Adverse :
              /\ Status' = [Status EXCEPT ![t] = d]
              /\ d \in Trust!Favourable /\ w \in Token
                   => w \in Genuine /\ KidOf[w] \in KeysOf[v]
  <2>1. want'[t] = w
    BY DEF TypeOK
  <2>2. \E d \in Trust!Favourable \cup Trust!Adverse :
              /\ Status' = [Status EXCEPT ![t] = d]
              /\ d \in Trust!Favourable => Trust!Grounded(want'[t])
    BY <1>2, <2>1 DEF Trust!Grounded
  <2>3. \/ /\ Status[t] = "idle"
           /\ \E x \in Token \cup {Probe} : want' = [want EXCEPT ![t] = x]
        \/ Status[t] = "pending" /\ want' = want
    BY DEF Status
  <2> QED BY <2>2, <2>3 DEF Trust!Next, Trust!Answer, Trust!world
<1> QED
  BY ONLY TypeOK, t \in Task, Continue(t, w, f, v, h, q), ContinueStatus,
          <1>1, <1>2

\* Ending t without the keys being looked at is a step of KeyTrust.
LEMMA AdverseStep ==
  ASSUME TypeOK, NEW t \in Task, NEW d \in Trust!Adverse,
         pc' = [pc EXCEPT ![t] = d],
         UNCHANGED <<clock, idp, retiredAt, jwksCache>>,
         \/ pc[t] \in {"waiting", "fetching"} /\ want' = want
         \/ /\ pc[t] = "idle"
            /\ \E w \in Token \cup {Probe} : want' = [want EXCEPT ![t] = w]
  PROVE  Trust!Next
<1>1. Status' = [Status EXCEPT ![t] = d]
  BY StatusUpdate DEF Trust!Adverse
<1>2. \/ /\ Status[t] = "idle"
         /\ \E x \in Token \cup {Probe} : want' = [want EXCEPT ![t] = x]
      \/ Status[t] = "pending" /\ want' = want
  BY DEF Status
<1>3. d \notin Trust!Favourable
  BY DEF Trust!Favourable, Trust!Adverse
<1> QED BY <1>1, <1>2, <1>3
        DEF Trust!Next, Trust!Answer, Trust!Forward, Trust!world

LEMMA AskStep ==
  ASSUME TypeOK, NEW t \in Task, NEW w \in Token \cup {Probe, Boot}, NEW h, NEW q,
         AcquireLock(t, h, q), pc[t] = "idle", want' = [want EXCEPT ![t] = w],
         UNCHANGED <<clock, idp, retiredAt, jwksCache>>
  PROVE  Trust!Next
<1>1. Status[t] = "idle" /\ Status' = [Status EXCEPT ![t] = "pending"]
  BY AcquireStatus DEF Status
<1> QED BY <1>1 DEF Trust!Next, Trust!Ask, Trust!world

LEMMA UsableWithin ==
  ASSUME TypeOK, CacheInv, Fresh \/ StaleUsable
  PROVE  Trust!Within(jwksCache, Window)
BY UsableRecent DEF Recent, Trust!Within, Trust!None, None, Fresh, StaleUsable

LEMMA AnswerWithin ==
  ASSUME TypeOK, AnswerInv, NEW t \in Task, answer[t] # None
  PROVE  /\ Trust!Within(answer[t], Window)
         /\ Trust!Within(answer[t], HttpTimeout)
         /\ answer[t] >= jwksCache
<1>1. /\ answer[t] \in 1..LastVersion /\ idp \in 1..LastVersion
      /\ clock \in Nat /\ answeredAt[t] \in Nat /\ retiredAt[answer[t]] \in Nat
      /\ jwksCache \in Nat
  BY KeyAssumption DEF TypeOK, None, Version
<1>2. Trust!Within(answer[t], Window)
  BY <1>1, AnswerRecent DEF Recent, Trust!Within, Trust!None, None
<1>3. Trust!Within(answer[t], HttpTimeout) /\ answer[t] >= jwksCache
  BY <1>1, TimeAssumption DEF AnswerInv, Trust!Within, Trust!None, None
<1> QED BY <1>2, <1>3

LEMMA TrustStep ==
  ASSUME IInv, [Next]_vars
  PROVE  [Trust!Next]_Trust!vars
<1>0. TypeOK /\ AnswerInv /\ CacheInv /\ LockDiscipline
  BY DEF IInv
<1>1. CASE Tick
  BY <1>1 DEF Tick, Trust!Next, Trust!Tick, Status, provider, keyCache
<1>2. CASE Rotate
  BY <1>2 DEF Rotate, Trust!Next, Trust!Rotate, Status, keyCache
<1>3. ASSUME NEW t \in Task, WarmUp(t) PROVE [Trust!Next]_Trust!vars
  BY <1>0, <1>3, AskStep DEF WarmUp, provider, keyCache
<1>4. ASSUME NEW t \in Task, NEW w \in Token \cup {Probe}, RejectUnkeyed(t, w)
      PROVE  [Trust!Next]_Trust!vars
  BY <1>0, <1>4, AdverseStep DEF RejectUnkeyed, Arrive, provider, Trust!Adverse
<1>5. ASSUME NEW t \in Task, NEW w \in Token \cup {Probe}, UseCache(t, w)
      PROVE  [Trust!Next]_Trust!vars
  <2>1. /\ Continue(t, w, FALSE, jwksCache, lock, queue)
        /\ UNCHANGED <<clock, idp, retiredAt, jwksCache>>
        /\ pc[t] = "idle" /\ want' = [want EXCEPT ![t] = w] /\ Fresh
    BY <1>5 DEF UseCache, Arrive, provider
  <2>2. Trust!Forward /\ Trust!Within(jwksCache, Window)
    BY <1>0, <2>1, UsableWithin DEF Trust!Forward
  <2> QED BY <1>0, <2>1, <2>2, FetchStep
<1>6. ASSUME NEW t \in Task, NEW w \in Token \cup {Probe}, NeedRefresh(t, w)
      PROVE  [Trust!Next]_Trust!vars
  BY <1>0, <1>6, AskStep DEF NeedRefresh, Arrive, provider
<1>7. ASSUME NEW t \in Task, FindFilled(t) PROVE [Trust!Next]_Trust!vars
  <2>1. /\ Continue(t, want[t], FALSE, jwksCache, NoTask, Tail(queue))
        /\ UNCHANGED <<clock, idp, retiredAt, jwksCache, want>> /\ Fresh
    BY <1>7 DEF FindFilled, Granted, provider
  <2>2. pc[t] = "waiting"
    <3>1. queue \in Seq(Task) /\ queue # <<>> /\ t = Head(queue)
      BY <1>0, <1>7 DEF FindFilled, Granted, TypeOK
    <3>2. 1 \in 1..Len(queue) /\ queue[1] = t
      BY <3>1, TailFacts
    <3> QED BY <1>0, <3>2 DEF LockDiscipline
  <2>3. Trust!Forward /\ Trust!Within(jwksCache, Window)
    BY <1>0, <2>1, UsableWithin DEF Trust!Forward
  <2>4. want[t] \in Token \cup {Probe, Boot}
    BY <1>0 DEF TypeOK
  <2> QED BY <1>0, <2>1, <2>2, <2>3, <2>4, FetchStep
<1>8. ASSUME NEW t \in Task, StartFetch(t) PROVE [Trust!Next]_Trust!vars
  <2>1. pc[t] = "waiting"
    <3>1. queue \in Seq(Task) /\ queue # <<>> /\ t = Head(queue)
      BY <1>0, <1>8 DEF StartFetch, Granted, TypeOK
    <3>2. 1 \in 1..Len(queue) /\ queue[1] = t
      BY <3>1, TailFacts
    <3> QED BY <1>0, <3>2 DEF LockDiscipline
  <2>2. Status' = Status
    BY <1>0, <1>8, <2>1 DEF StartFetch, Status, TypeOK
  <2> QED BY <1>8, <2>2 DEF StartFetch, Granted, Trust!vars, Trust!world, provider
<1>9. ASSUME NEW t \in Task, Respond(t) PROVE [Trust!Next]_Trust!vars
  BY <1>9 DEF Respond, Status, Trust!vars, Trust!world, provider, keyCache
<1>10. ASSUME NEW t \in Task, Deliver(t) PROVE [Trust!Next]_Trust!vars
  <2>1. /\ Continue(t, want[t], force[t], answer[t], NoTask, queue)
        /\ UNCHANGED <<clock, idp, retiredAt, want>>
        /\ jwksCache' = answer[t] /\ answer[t] # None
        /\ pc[t] \in {"waiting", "fetching"}
        /\ want[t] \in Token \cup {Probe, Boot}
    BY <1>0, <1>10 DEF Deliver, EndExchange, provider, TypeOK
  <2>2. Trust!Within(answer[t], Window) /\ Trust!Forward
    <3>1. /\ Trust!Within(answer[t], Window)
          /\ Trust!Within(answer[t], HttpTimeout)
          /\ answer[t] >= jwksCache
      BY <1>0, <2>1, AnswerWithin
    <3> QED BY <2>1, <3>1 DEF Trust!Forward
  <2> QED BY ONLY <1>0, t \in Task, <2>1, <2>2, FetchStep
<1>11. ASSUME NEW t \in Task, FallBack(t) PROVE [Trust!Next]_Trust!vars
  <2>1. /\ Continue(t, want[t], force[t], jwksCache, NoTask, queue)
        /\ UNCHANGED <<clock, idp, retiredAt, want, jwksCache>>
        /\ StaleUsable
        /\ pc[t] \in {"waiting", "fetching"}
        /\ want[t] \in Token \cup {Probe, Boot}
    BY <1>0, <1>11 DEF FallBack, EndExchange, provider, TypeOK
  <2>2. Trust!Within(jwksCache, Window) /\ Trust!Forward
    BY <1>0, <2>1, UsableWithin DEF Trust!Forward
  <2> QED BY ONLY <1>0, t \in Task, <2>1, <2>2, FetchStep
<1>12. ASSUME NEW t \in Task, GiveUp(t) PROVE [Trust!Next]_Trust!vars
  <2>1. PICK d \in {"rejected", "unready"} : pc' = [pc EXCEPT ![t] = d]
    BY <1>12 DEF GiveUp, Raise
  <2>2. /\ UNCHANGED <<clock, idp, retiredAt, jwksCache, want>>
        /\ pc[t] \in {"waiting", "fetching"}
    BY <1>12 DEF GiveUp, EndExchange, provider, keyCache
  <2> QED BY <1>0, <2>1, <2>2, AdverseStep DEF Trust!Adverse
<1>13. ASSUME NEW t \in Task, CancelWaiting(t) \/ CancelFetching(t)
       PROVE  [Trust!Next]_Trust!vars
  <2>1. pc[t] \in {"waiting", "fetching"}
    BY <1>0, <1>13 DEF CancelWaiting, CancelFetching, LockDiscipline
  <2>2. /\ UNCHANGED <<clock, idp, retiredAt, jwksCache, want>>
        /\ pc' = [pc EXCEPT ![t] = "cancelled"]
    BY <1>13 DEF CancelWaiting, CancelFetching, Cancelled, provider, keyCache
  <2> QED BY <1>0, <2>1, <2>2, AdverseStep DEF Trust!Adverse
<1>14. ASSUME NEW t \in Task, Leave(t) PROVE [Trust!Next]_Trust!vars
  <2>1. Status[t] \in Trust!Favourable \cup Trust!Adverse
    BY <1>14 DEF Leave, Status, Ended, Trust!Favourable, Trust!Adverse
  <2>2. Status' = [Status EXCEPT ![t] = "idle"]
    BY <1>0, <1>14, StatusUpdate DEF Leave
  <2> QED BY <1>14, <2>1, <2>2
          DEF Leave, Trust!Next, Trust!Leave, Trust!world, provider, keyCache
<1>15. CASE UNCHANGED vars
  BY <1>15 DEF vars, Trust!vars, Trust!world, Status, provider, keyCache
<1> QED
  BY <1>1, <1>2, <1>3, <1>4, <1>5, <1>6, <1>7, <1>8, <1>9, <1>10, <1>11,
     <1>12, <1>13, <1>14, <1>15 DEF Next

\* Every behaviour of the cache, its lock and its exchanges is one KeyTrust
\* allows.
THEOREM Refinement == Spec => ImplementsKeyTrust
<1>1. Init => Trust!Init
  BY DEF Init, Trust!Init, Status, None, Trust!None, Version, Trust!Version
<1>2. IInv /\ [Next]_vars => [Trust!Next]_Trust!vars
  BY TrustStep
<1> QED BY Invariance, <1>1, <1>2, PTL DEF Spec, ImplementsKeyTrust, Trust!Spec
================================================================================
