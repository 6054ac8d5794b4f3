------------------------------ MODULE ServiceProofs ------------------------------
(***************************************************************************)
(* Proofs about Service, for every set of environments, requests and       *)
(* offers, and every timeout and latency.                                  *)
(***************************************************************************)
EXTENDS Service, SequenceTheorems, WellFoundedInduction, TLAPS

(* The first and the last of some positions.                               *)

LEMMA FirstExists ==
  ASSUME NEW T, T \subseteq Nat, T # {}
  PROVE  \E i \in T : \A j \in T : i <= j
<1>1. PICK i \in T : \A j \in T : ~ (<<j, i>> \in OpToRel(<, Nat))
  BY NatLessThanWellFounded, WFMin
<1>2. \A j \in T : ~ j < i
  <2> SUFFICES ASSUME NEW j \in T, j < i PROVE FALSE
    OBVIOUS
  <2>1. <<j, i>> \in Nat \X Nat /\ <<j, i>>[1] < <<j, i>>[2]
    OBVIOUS
  <2> QED BY <1>1, <2>1 DEF OpToRel
<1> QED BY <1>2

LEMMA LastExists ==
  ASSUME NEW n \in Nat, NEW T, T \subseteq 1..n, T # {}
  PROVE  \E i \in T : \A j \in T : j <= i
<1> DEFINE U == {n - i : i \in T}
<1>1. U \subseteq Nat /\ U # {}
  <2>1. \A i \in T : i \in 1..n /\ n - i \in Nat
    OBVIOUS
  <2>2. PICK i \in T : TRUE
    OBVIOUS
  <2>3. n - i \in U
    BY <2>2
  <2> QED BY <2>1, <2>3
<1>2. PICK u \in U : \A j \in U : u <= j
  <2> HIDE DEF U
  <2> QED BY <1>1, FirstExists
<1>3. PICK i \in T : u = n - i
  BY <1>2
<1>4. \A j \in T : n - i <= n - j
  BY <1>2, <1>3
<1>5. \A j \in T : j \in Nat
  OBVIOUS
<1> QED BY <1>4, <1>5

LEMMA RightmostMax ==
  ASSUME NEW S, NEW s \in Seq(S), NEW set, Places(s, set) # {}
  PROVE  \E i \in Places(s, set) :
            Rightmost(s, set) = s[i] /\ \A j \in Places(s, set) : j <= i
<1>1. Places(s, set) \subseteq 1..Len(s) /\ Len(s) \in Nat
  BY DEF Places
<1>2. \E i \in Places(s, set) : \A j \in Places(s, set) : j <= i
  BY <1>1, LastExists
<1> QED BY <1>2 DEF Rightmost

\* An entry of the set with none behind it is the rightmost.
LEMMA RightmostIs ==
  ASSUME NEW S, NEW s \in Seq(S), NEW set, NEW i \in 1..Len(s), s[i] \in set,
         \A j \in (i + 1)..Len(s) : s[j] \notin set
  PROVE  Places(s, set) # {} /\ Rightmost(s, set) = s[i]
<1>1. i \in Places(s, set)
  BY DEF Places
<1>2. PICK m \in Places(s, set) :
        Rightmost(s, set) = s[m] /\ \A j \in Places(s, set) : j <= m
  BY <1>1, RightmostMax
<1>3. m \in 1..Len(s) /\ s[m] \in set /\ i <= m
  BY <1>1, <1>2 DEF Places
<1>4. m = i
  BY <1>3
<1> QED BY <1>1, <1>2, <1>4

----------------------------------------------------------------------------
(* The client a request counts for                                         *)

\* The addresses on the way of an offer.
LEMMA ChainType ==
  ASSUME NEW o, o.client \in Address, o.via \in Seq(Address)
  PROVE  /\ Chain(o) \in Seq(Address)
         /\ Len(Chain(o)) = Len(o.via) + 1
         /\ Len(o.via) \in Nat
<1>1. <<o.client>> \in Seq(Address) /\ Len(<<o.client>>) = 1 /\ Len(o.via) \in Nat
  OBVIOUS
<1> QED BY <1>1, ConcatProperties DEF Chain

\* The lines of X-Forwarded-For.
LEMMA Lines ==
  ASSUME NEW h \in Headers
  PROVE  LET s == h.forwarded
             E == Address \cup {Garbled}
         IN /\ s \in Seq(E) /\ Len(s) \in Nat
            /\ h.first \in 0..Len(s) /\ h.last \in 0..Len(s)
            /\ s # <<>> => h.first >= 1 /\ h.last < Len(s)
            /\ FirstLine(h) \in Seq(E) /\ Len(FirstLine(h)) = h.first
            /\ \A x \in 1..h.first : FirstLine(h)[x] = s[x]
            /\ LastLine(h) \in Seq(E) /\ Len(LastLine(h)) = Len(s) - h.last
            /\ \A x \in 1..(Len(s) - h.last) : LastLine(h)[x] = s[h.last + x]
<1> DEFINE s == h.forwarded
           E == Address \cup {Garbled}
           f == h.first
           l == h.last
           n == Len(s)
<1>1. /\ s \in Seq(E) /\ f \in Nat /\ l \in Nat /\ n \in Nat
      /\ (f = n /\ l = 0) \/ (1 <= f /\ f <= l /\ l < n)
  BY DEF Headers
<1>2. FirstLine(h) = SubSeq(s, 1, f) /\ LastLine(h) = SubSeq(s, l + 1, n)
  BY DEF FirstLine, LastLine
<1>3. s # <<>> => n # 0
  BY <1>1
<1> HIDE DEF s, E, f, l, n
<1>4. f \in 0..n /\ l \in 0..n /\ (s # <<>> => f >= 1 /\ l < n)
  BY <1>1, <1>3
<1>5. \A x \in 1..n : s[x] \in E
  BY <1>1 DEF n
<1>6. /\ SubSeq(s, 1, f) \in Seq(E) /\ Len(SubSeq(s, 1, f)) = f
      /\ \A x \in 1..f : SubSeq(s, 1, f)[x] = s[x]
  <2>1. \A x \in 1..f : s[x] \in E
    BY <1>1, <1>4, <1>5
  <2>2. 1 \in Int /\ f \in Int
    BY <1>1
  <2>3. /\ SubSeq(s, 1, f) \in Seq(E)
        /\ Len(SubSeq(s, 1, f)) = IF 1 <= f THEN f - 1 + 1 ELSE 0
        /\ \A x \in 1..(f - 1 + 1) : SubSeq(s, 1, f)[x] = s[1 + x - 1]
    BY <2>1, <2>2, SubSeqProperties
  <2>4. \A x \in 1..f : x \in 1..(f - 1 + 1) /\ 1 + x - 1 = x
    BY <1>1
  <2>5. Len(SubSeq(s, 1, f)) = f
    BY <1>1, <2>3
  <2> QED BY <2>3, <2>4, <2>5
<1>7. /\ SubSeq(s, l + 1, n) \in Seq(E) /\ Len(SubSeq(s, l + 1, n)) = n - l
      /\ \A x \in 1..(n - l) : SubSeq(s, l + 1, n)[x] = s[l + x]
  <2> DEFINE b == l + 1
  <2>1. b \in Int /\ n \in Int /\ b \in 1..(n + 1)
    BY <1>1, <1>4
  <2> HIDE DEF b
  <2>2. \A x \in b..n : s[x] \in E
    BY <1>1, <1>5, <2>1
  <2>3. /\ SubSeq(s, b, n) \in Seq(E)
        /\ Len(SubSeq(s, b, n)) = IF b <= n THEN n - b + 1 ELSE 0
        /\ \A x \in 1..(n - b + 1) : SubSeq(s, b, n)[x] = s[b + x - 1]
    BY <2>1, <2>2, SubSeqProperties
  <2>4. \A x \in 1..(n - l) : x \in 1..(n - b + 1) /\ b + x - 1 = l + x
    BY <1>1 DEF b
  <2>5. (IF b <= n THEN n - b + 1 ELSE 0) = n - l
    BY <1>1, <1>4 DEF b
  <2>6. /\ SubSeq(s, b, n) \in Seq(E) /\ Len(SubSeq(s, b, n)) = n - l
        /\ \A x \in 1..(n - l) : SubSeq(s, b, n)[x] = s[l + x]
    BY <2>3, <2>4, <2>5
  <2> QED BY <2>6 DEF b
<1> QED BY <1>1, <1>2, <1>4, <1>6, <1>7 DEF s, E, f, l, n

\* What a proxy passes on.
LEMMA RelayedType ==
  ASSUME NEW h \in Headers, NEW host \in Address, NEW heard \in Address
  PROVE  LET g == Relayed(h, Habit[host], heard)
             habit == Habit[host]
             n == Len(h.forwarded)
         IN /\ g \in Headers
            /\ g.real_ip = IF habit.names THEN heard ELSE h.real_ip
            /\ habit.forwarded = "kept" =>
                g.forwarded = h.forwarded /\ g.first = h.first /\ g.last = h.last
            /\ habit.forwarded = "replaced" /\ habit.bare =>
                g.forwarded = <<heard>> /\ g.first = 1 /\ g.last = 0
            /\ habit.forwarded \in {"joined", "added"} /\ habit.bare =>
                /\ Len(g.forwarded) = n + 1
                /\ g.forwarded[n + 1] = heard
                /\ \A x \in 1..n : g.forwarded[x] = h.forwarded[x]
            /\ habit.forwarded = "joined" => g.first = n + 1 /\ g.last = 0
            /\ habit.forwarded = "added" =>
                g.last = n /\ g.first = IF h.first = 0 THEN 1 ELSE h.first
<1> DEFINE E == Address \cup {Garbled}
           habit == Habit[host]
           s == h.forwarded
           n == Len(s)
           entry == IF habit.bare THEN heard ELSE Garbled
           more == Append(s, entry)
           named == [h EXCEPT !.real_ip = IF habit.names THEN heard ELSE h.real_ip]
           g == Relayed(h, habit, heard)
<1>1. /\ habit.forwarded \in {"joined", "added", "replaced", "kept"}
      /\ habit.bare \in BOOLEAN /\ habit.names \in BOOLEAN
  BY HabitAssumption
<1>2. /\ s \in Seq(E) /\ n \in Nat /\ entry \in E
      /\ h.first \in 0..n /\ h.last \in 0..n
      /\ (h.first = n /\ h.last = 0) \/ (1 <= h.first /\ h.first <= h.last /\ h.last < n)
  BY Lines DEF Headers
<1>3. h = [forwarded |-> s, first |-> h.first, last |-> h.last, real_ip |-> h.real_ip]
  BY DEF Headers
<1>4. (IF habit.names THEN heard ELSE h.real_ip) \in Address \cup {Garbled, Absent}
  BY DEF Headers
<1> HIDE DEF habit, s, n, entry, E
<1>5. /\ more \in Seq(E) /\ Len(more) = n + 1 /\ more[n + 1] = entry
      /\ \A x \in 1..n : more[x] = s[x]
  BY <1>2 DEF n
<1>6. <<entry>> \in Seq(E) /\ Len(<<entry>>) = 1
  BY <1>2
<1>7. named = [forwarded |-> s, first |-> h.first, last |-> h.last,
               real_ip |-> IF habit.names THEN heard ELSE h.real_ip]
  BY <1>3
<1> HIDE DEF more, named
<1>8. CASE habit.forwarded = "kept"
  <2>1. g = named
    BY <1>8 DEF Relayed, named
  <2> QED BY <1>2, <1>4, <1>7, <1>8, <2>1 DEF Headers, E, s, n, habit
<1>9. CASE habit.forwarded = "replaced"
  <2>1. g = [named EXCEPT !.forwarded = <<entry>>, !.first = 1, !.last = 0]
    BY <1>9 DEF Relayed, named, entry
  <2>2. g = [forwarded |-> <<entry>>, first |-> 1, last |-> 0,
             real_ip |-> IF habit.names THEN heard ELSE h.real_ip]
    BY <1>7, <2>1
  <2>3. g \in Headers
    <3>1. <<entry>> \in Seq(E) /\ 1 = Len(<<entry>>) /\ 1 \in Nat /\ 0 \in Nat
      BY <1>6
    <3> HIDE DEF g
    <3> DEFINE one == <<entry>>
    <3>2. one \in Seq(E) /\ 1 = Len(one)
      BY <3>1
    <3>3. g = [forwarded |-> one, first |-> 1, last |-> 0,
               real_ip |-> IF habit.names THEN heard ELSE h.real_ip]
      BY <2>2
    <3> HIDE DEF one
    <3> QED BY <1>4, <3>1, <3>2, <3>3 DEF Headers, E
  <2> QED BY <1>9, <2>2, <2>3 DEF entry, habit
<1>10. CASE habit.forwarded = "joined"
  <2>1. g = [named EXCEPT !.forwarded = more, !.first = Len(more), !.last = 0]
    BY <1>10 DEF Relayed, named, entry, more, s
  <2>2. g = [forwarded |-> more, first |-> n + 1, last |-> 0,
             real_ip |-> IF habit.names THEN heard ELSE h.real_ip]
    BY <1>5, <1>7, <2>1
  <2>3. g \in Headers
    BY <1>2, <1>4, <1>5, <2>2 DEF Headers, E
  <2> QED BY <1>5, <1>10, <2>2, <2>3 DEF entry, habit, s, n
<1>11. CASE habit.forwarded = "added"
  <2>1. g = [named EXCEPT !.forwarded = more, !.first = IF named.first = 0 THEN 1 ELSE named.first,
                          !.last = Len(s)]
    BY <1>11 DEF Relayed, named, entry, more, s
  <2>2. g = [forwarded |-> more, first |-> IF h.first = 0 THEN 1 ELSE h.first, last |-> n,
             real_ip |-> IF habit.names THEN heard ELSE h.real_ip]
    BY <1>7, <2>1 DEF n
  <2>3. g \in Headers
    BY <1>2, <1>4, <1>5, <2>2 DEF Headers, E
  <2> QED BY <1>5, <1>11, <2>2, <2>3 DEF entry, habit, s, n
<1> QED BY <1>1, <1>8, <1>9, <1>10, <1>11

\* The proxy that hears from a host vouches for it.
LEMMA FirstVouches ==
  ASSUME NEW e, NEW h \in Headers, NEW host \in Address, NEW heard \in Address,
         Habit[host].bare,
         Habit[host].forwarded
            \in {"joined", "replaced"} \cup (IF e.proxy.trust_proxy_headers THEN {} ELSE {"added"}),
         e.proxy.trust_proxy_headers /\ e.proxy.proxy_headers[1] # "x-forwarded-for" =>
            Habit[host].names
  PROVE  Vouches(e, Relayed(h, Habit[host], heard), heard)
<1> DEFINE g == Relayed(h, Habit[host], heard)
           n == Len(g.forwarded)
<1>1. Len(h.forwarded) \in Nat
  BY Lines
<1>2. /\ n \in Nat \ {0} /\ g.forwarded[n] = heard
      /\ IF e.proxy.trust_proxy_headers THEN n <= g.first ELSE g.last < n
  <2>1. CASE Habit[host].forwarded = "replaced"
    <3>1. g.forwarded = <<heard>> /\ g.first = 1 /\ g.last = 0
      BY <2>1, RelayedType
    <3> HIDE DEF g
    <3> QED BY <3>1
  <2>2. CASE Habit[host].forwarded = "joined"
    <3>1. /\ n = Len(h.forwarded) + 1 /\ g.forwarded[Len(h.forwarded) + 1] = heard
          /\ g.first = Len(h.forwarded) + 1 /\ g.last = 0
      BY <2>2, RelayedType
    <3> HIDE DEF g
    <3> QED BY <1>1, <3>1
  <2>3. CASE Habit[host].forwarded = "added"
    <3>1. /\ n = Len(h.forwarded) + 1 /\ g.forwarded[Len(h.forwarded) + 1] = heard
          /\ g.last = Len(h.forwarded) /\ ~ e.proxy.trust_proxy_headers
      BY <2>3, RelayedType
    <3> HIDE DEF g
    <3> QED BY <1>1, <3>1
  <2> QED BY <2>1, <2>2, <2>3
<1>3. Habit[host].names => g.real_ip = heard
  BY RelayedType
<1> HIDE DEF g
<1>4. \A x \in (n + 1)..n : FALSE
  BY <1>2
<1> SUFFICES Vouches(e, g, heard)
  BY DEF g
<1> QED BY <1>2, <1>3, <1>4 DEF Vouches

\* A proxy that hears from another leaves alone what that vouched for.
LEMMA NextVouches ==
  ASSUME NEW e, NEW h \in Headers, NEW address, Vouches(e, h, address),
         NEW host \in Address, NEW heard \in Address \cap Proxies(e),
         Habit[host].bare,
         Habit[host].forwarded
            \in {"joined", "kept"} \cup (IF e.proxy.trust_proxy_headers THEN {"added"} ELSE {})
  PROVE  Vouches(e, Relayed(h, Habit[host], heard), address)
<1> DEFINE g == Relayed(h, Habit[host], heard)
           s == h.forwarded
           n == Len(s)
           limiter == e.proxy.trust_proxy_headers
<1>1. n \in Nat /\ h.first \in 0..n /\ h.last \in 0..n
  BY Lines
<1>2. PICK p \in 1..n :
        /\ s[p] = address
        /\ \A x \in (p + 1)..n : s[x] \in Address \cap Proxies(e)
        /\ IF limiter THEN p <= h.first ELSE h.last < p
  BY DEF Vouches
<1>3. limiter /\ e.proxy.proxy_headers[1] # "x-forwarded-for" =>
        h.real_ip \in {address} \cup Proxies(e)
  BY DEF Vouches
<1>4. g.real_ip \in {heard, h.real_ip}
  BY RelayedType
<1>5. CASE Habit[host].forwarded = "kept"
  <2>1. g.forwarded = s /\ g.first = h.first /\ g.last = h.last
    BY <1>5, RelayedType
  <2> HIDE DEF g
  <2>2. Vouches(e, g, address)
    BY <1>2, <1>3, <1>4, <2>1 DEF Vouches
  <2> QED BY <2>2 DEF g
<1>6. CASE Habit[host].forwarded \in {"joined", "added"}
  <2>1. /\ Len(g.forwarded) = n + 1 /\ g.forwarded[n + 1] = heard
        /\ \A x \in 1..n : g.forwarded[x] = s[x]
    BY <1>6, RelayedType
  <2>2. IF limiter THEN p <= g.first ELSE g.last < p
    <3>1. CASE Habit[host].forwarded = "joined"
      <4>1. g.first = n + 1 /\ g.last = 0
        BY <3>1, RelayedType
      <4> HIDE DEF g
      <4> QED BY <1>1, <4>1
    <3>2. CASE Habit[host].forwarded = "added"
      <4>1. g.first = (IF h.first = 0 THEN 1 ELSE h.first) /\ limiter
        BY <3>2, RelayedType
      <4> HIDE DEF g
      <4> QED BY <1>1, <1>2, <4>1
    <3> QED BY <1>6, <3>1, <3>2
  <2> HIDE DEF g, s, limiter
  <2>3. p \in 1..Len(g.forwarded) /\ g.forwarded[p] = address
    BY <1>1, <1>2, <2>1
  <2>4. ASSUME NEW x \in (p + 1)..Len(g.forwarded)
        PROVE  g.forwarded[x] \in Address \cap Proxies(e)
    <3>1. (x \in (p + 1)..n /\ x \in 1..n) \/ x = n + 1
      BY <1>1, <1>2, <2>1, <2>4
    <3> QED BY <1>2, <2>1, <3>1
  <2>5. Vouches(e, g, address)
    BY <1>3, <1>4, <2>2, <2>3, <2>4 DEF Vouches, limiter
  <2> QED BY <2>5 DEF g
<1> QED BY <1>5, <1>6

\* What one configured header says of the client counts when no other says
\* something else.
LEMMA ForwardedIs ==
  ASSUME NEW h, NEW names \in Seq(STRING), NEW trusted, NEW n \in 1..Len(names),
         FromHeader(names[n], h, trusted) # Absent,
         \A i \in 1..Len(names) :
            FromHeader(names[i], h, trusted) \in {FromHeader(names[n], h, trusted), Absent}
  PROVE  ForwardedClientIp(h, names, trusted) = FromHeader(names[n], h, trusted)
<1> DEFINE telling == {i \in 1..Len(names) : FromHeader(names[i], h, trusted) # Absent}
<1>1. telling # {} /\ telling \subseteq Nat
  BY Len(names) \in Nat
<1>2. \A i \in telling : FromHeader(names[i], h, trusted) = FromHeader(names[n], h, trusted)
  OBVIOUS
<1>3. ForwardedClientIp(h, names, trusted) =
        IF telling = {} THEN Absent
        ELSE FromHeader(names[CHOOSE i \in telling : \A j \in telling : i <= j], h, trusted)
  BY DEF ForwardedClientIp
<1> HIDE DEF telling
<1>4. \E i \in telling : \A j \in telling : i <= j
  BY <1>1, FirstExists
<1>5. (CHOOSE i \in telling : \A j \in telling : i <= j) \in telling
  BY <1>4
<1> QED BY <1>1, <1>2, <1>3, <1>5

\* The first header speaks for all if it says something.
LEMMA ForwardedFirst ==
  ASSUME NEW h, NEW names \in Seq(STRING), NEW trusted, names # <<>>,
         FromHeader(names[1], h, trusted) # Absent
  PROVE  ForwardedClientIp(h, names, trusted) = FromHeader(names[1], h, trusted)
<1> DEFINE telling == {i \in 1..Len(names) : FromHeader(names[i], h, trusted) # Absent}
<1>1. 1 \in telling /\ \A j \in telling : j \in Nat /\ 1 <= j
  BY Len(names) \in Nat \ {0}
<1>2. ForwardedClientIp(h, names, trusted) =
        IF telling = {} THEN Absent
        ELSE FromHeader(names[CHOOSE i \in telling : \A j \in telling : i <= j], h, trusted)
  BY DEF ForwardedClientIp
<1> HIDE DEF telling
<1>3. (CHOOSE i \in telling : \A j \in telling : i <= j) = 1
  <2> DEFINE c == CHOOSE i \in telling : \A j \in telling : i <= j
  <2>1. c \in telling /\ \A j \in telling : c <= j
    BY <1>1
  <2> HIDE DEF c
  <2>2. c = 1
    BY <1>1, <2>1
  <2> QED BY <2>2 DEF c
<1> QED BY <1>1, <1>2, <1>3

\* An address that is vouched for is the one uvicorn sees, or one of the
\* operator's proxies is.
LEMMA VouchedScope ==
  ASSUME NEW e, NEW h \in Headers, NEW address \in Address, Vouches(e, h, address),
         e.forwarded_allow_ips \subseteq Proxies(e), address \notin Proxies(e),
         NEW peer \in Address \cap Proxies(e)
  PROVE  LET client == ScopeClient(peer, h, e.forwarded_allow_ips)
         IN \/ client = address
            \/ client \in Address \cap Proxies(e) /\ e.proxy.trust_proxy_headers
<1> DEFINE allowed == e.forwarded_allow_ips
           strange == (Address \cup {Garbled}) \ allowed
           s == h.forwarded
           n == Len(s)
           l == h.last
           line == LastLine(h)
           client == ScopeClient(peer, h, allowed)
           limiter == e.proxy.trust_proxy_headers
<1>1. n \in Nat /\ l \in 0..n /\ (s # <<>> => l < n)
      /\ line \in Seq(Address \cup {Garbled}) /\ Len(line) = n - l
      /\ \A x \in 1..(n - l) : line[x] = s[l + x]
  BY Lines
<1>2. PICK p \in 1..n :
        /\ s[p] = address
        /\ \A x \in (p + 1)..n : s[x] \in Address \cap Proxies(e)
        /\ IF limiter THEN p <= h.first ELSE l < p
  BY DEF Vouches
<1>3. client = IF peer \notin allowed \/ line = <<>> THEN peer
               ELSE IF Places(line, strange) = {} THEN line[1] ELSE Rightmost(line, strange)
  BY DEF ScopeClient
<1>4. ~ limiter => Proxies(e) = allowed
  BY DEF Proxies
<1>5. address \in strange
  OBVIOUS
<1>6. \A x \in allowed : x \notin strange
  OBVIOUS
<1>7. s # <<>>
  BY <1>1, <1>2
<1> HIDE DEF allowed, strange, s, n, l, line, client, limiter
<1>8. l < n /\ Len(line) >= 1 /\ line # <<>>
  BY <1>1, <1>7
<1>9. CASE limiter
  <2>1. ASSUME NEW x \in 1..(n - l), line[x] \in strange => l + x >= p
        PROVE  line[x] = address \/ line[x] \in Address \cap Proxies(e) \/ line[x] \notin strange
    <3>1. l + x \in (p + 1)..n \/ l + x = p \/ ~ l + x >= p
      BY <1>1, <1>2, <2>1
    <3> QED BY <1>1, <1>2, <2>1, <3>1
  <2>2. CASE peer \notin allowed
    BY <1>3, <1>9, <2>2 DEF limiter, client, allowed
  <2>3. CASE peer \in allowed /\ Places(line, strange) = {}
    <3>1. client = line[1] /\ 1 \in 1..(n - l) /\ line[1] = s[l + 1]
      BY <1>1, <1>3, <1>8, <2>3
    <3>2. \A x \in 1..Len(line) : line[x] \notin strange
      BY <2>3 DEF Places
    <3>3. l + 1 \in (p + 1)..n
      <4>1. SUFFICES ASSUME ~ l + 1 > p PROVE FALSE
        BY <1>1, <1>2, <1>8
      <4>2. p - l \in 1..(n - l) /\ l + (p - l) = p
        BY <1>1, <1>2, <4>1
      <4>3. line[p - l] = address
        BY <1>1, <1>2, <4>2
      <4> QED BY <1>1, <1>5, <3>2, <4>2, <4>3
    <3>4. client \in Address \cap Proxies(e)
      BY <1>2, <3>1, <3>3
    <3> QED BY <1>9, <3>4 DEF limiter, client, allowed
  <2>4. CASE peer \in allowed /\ Places(line, strange) # {}
    <3>1. client = Rightmost(line, strange)
      BY <1>3, <1>8, <2>4
    <3>2. PICK m \in Places(line, strange) :
            client = line[m] /\ \A j \in Places(line, strange) : j <= m
      BY <1>1, <2>4, <3>1, RightmostMax
    <3>3. m \in 1..(n - l) /\ line[m] \in strange
      BY <1>1, <3>2 DEF Places
    <3>4. l + m >= p
      <4>1. SUFFICES ASSUME ~ l + m >= p PROVE FALSE
        OBVIOUS
      <4>2. p - l \in 1..(n - l) /\ l + (p - l) = p /\ p - l > m
        BY <1>1, <1>2, <3>3, <4>1
      <4>3. line[p - l] = address
        BY <1>1, <1>2, <4>2
      <4>4. p - l \in Places(line, strange)
        BY <1>1, <1>5, <4>2, <4>3 DEF Places
      <4> QED BY <3>2, <3>3, <4>2, <4>4
    <3>5. client = address \/ client \in Address \cap Proxies(e)
      BY <2>1, <3>2, <3>3, <3>4
    <3> QED BY <1>9, <3>5 DEF limiter, client, allowed
  <2> QED BY <2>2, <2>3, <2>4
<1>10. CASE ~ limiter
  <2>1. peer \in allowed /\ l < p
    BY <1>2, <1>4, <1>10
  <2> DEFINE k == p - l
  <2>2. k \in 1..Len(line) /\ l + k = p /\ k \in 1..(n - l)
    BY <1>1, <1>2, <2>1
  <2> HIDE DEF k
  <2>3. line[k] = address
    BY <1>1, <1>2, <2>2
  <2>4. \A j \in (k + 1)..Len(line) : line[j] \notin strange
    <3> SUFFICES ASSUME NEW j \in (k + 1)..Len(line) PROVE line[j] \notin strange
      OBVIOUS
    <3>1. j \in 1..(n - l) /\ l + j \in (p + 1)..n
      BY <1>1, <1>2, <2>2
    <3>2. line[j] \in Proxies(e)
      BY <1>1, <1>2, <3>1
    <3> QED BY <1>4, <1>6, <1>10, <3>2
  <2>5. Places(line, strange) # {} /\ Rightmost(line, strange) = line[k]
    BY <1>1, <1>5, <2>2, <2>3, <2>4, RightmostIs
  <2>6. client = address
    BY <1>3, <1>8, <2>1, <2>3, <2>5
  <2> QED BY <2>6 DEF client, allowed
<1> QED BY <1>9, <1>10

\* The last stranger on the way is who the limiter sees, if it is vouched for.
LEMMA StrangerCounts ==
  ASSUME NEW h \in Headers, NEW address \in Address, NEW peer \in Address,
         given.proxy.proxy_headers \in Seq(STRING),
         given.forwarded_allow_ips \subseteq Proxies(given),
         given.proxy.trust_proxy_headers =>
            \E i \in 1..Len(given.proxy.proxy_headers) :
                given.proxy.proxy_headers[i] = "x-forwarded-for",
         address \notin Proxies(given),
         \/ peer = address
         \/ peer \in Proxies(given) /\ Vouches(given, h, address)
  PROVE  LimitedClient(ScopeClient(peer, h, given.forwarded_allow_ips), h) = address
<1> DEFINE trusted == given.proxy.trusted_proxies
           names == given.proxy.proxy_headers
           limiter == given.proxy.trust_proxy_headers
           client == ScopeClient(peer, h, given.forwarded_allow_ips)
           said == ForwardedClientIp(h, names, trusted)
<1>1. LimitedClient(client, h) =
        IF limiter /\ client \in Address /\ client \in trusted /\ said # Absent
        THEN said ELSE client
  BY DEF LimitedClient
<1>2. limiter => Proxies(given) = trusted
  BY DEF Proxies
<1>3. address # Absent
  BY EntryAssumption
<1>4. ASSUME client = address PROVE LimitedClient(client, h) = address
  BY <1>1, <1>2, <1>4
<1>5. CASE peer = address
  <2>1. client = address
    BY <1>5 DEF ScopeClient
  <2> QED BY <1>4, <2>1
<1>6. CASE peer \in Proxies(given) /\ Vouches(given, h, address)
  <2>1. \/ client = address
        \/ client \in Address \cap Proxies(given) /\ limiter
    BY <1>6, VouchedScope
  <2>2. CASE client \in Address \cap Proxies(given) /\ limiter
    <3> DEFINE s == h.forwarded
               line == FirstLine(h)
               strange == Address \ trusted
    <3>1. PICK p \in 1..Len(s) :
            /\ s[p] = address
            /\ \A x \in (p + 1)..Len(s) : s[x] \in Address \cap Proxies(given)
            /\ p <= h.first
      BY <1>6, <2>2 DEF Vouches
    <3>2. /\ Len(s) \in Nat /\ h.first \in 0..Len(s)
          /\ line \in Seq(Address \cup {Garbled}) /\ Len(line) = h.first
          /\ \A x \in 1..h.first : line[x] = s[x]
      BY Lines
    <3>3. FromHeader("x-forwarded-for", h, trusted) = address
      <4>1. address \in strange /\ \A x \in trusted : x \notin strange
        BY <1>2, <2>2
      <4> HIDE DEF strange, line, s
      <4>2. p \in 1..Len(line) /\ line[p] = address
        BY <3>1, <3>2
      <4>3. \A j \in (p + 1)..Len(line) : line[j] \notin strange
        <5> SUFFICES ASSUME NEW j \in (p + 1)..Len(line) PROVE line[j] \notin strange
          OBVIOUS
        <5>1. j \in (p + 1)..Len(s) /\ j \in 1..h.first
          BY <3>1, <3>2
        <5>2. line[j] \in Proxies(given)
          BY <3>1, <3>2, <5>1
        <5> QED BY <1>2, <2>2, <4>1, <5>2
      <4>4. Places(line, strange) # {} /\ Rightmost(line, strange) = line[p]
        BY <3>2, <4>1, <4>2, <4>3, RightmostIs
      <4> QED BY <4>2, <4>4 DEF FromHeader, RightmostUntrusted, strange, line
    <3>4. PICK i \in 1..Len(names) : names[i] = "x-forwarded-for"
      BY <2>2
    <3>5. said = address
      <4>1. \A j \in 1..Len(names) : names[j] \in STRING
        OBVIOUS
      <4>2. names \in Seq(STRING) /\ names # <<>>
        BY <3>4
      <4>3. CASE names[1] = "x-forwarded-for"
        <5>1. FromHeader(names[1], h, trusted) = address
          BY <3>3, <4>3
        <5> HIDE DEF names, trusted
        <5> QED BY <1>3, <4>2, <5>1, ForwardedFirst
      <4>4. CASE names[1] # "x-forwarded-for"
        <5>1. h.real_ip \in {address} \cup trusted
          BY <1>2, <1>6, <2>2, <4>4 DEF Vouches
        <5>2. \A name \in STRING : FromHeader(name, h, trusted) \in {address, Absent}
          BY <3>3, <5>1 DEF FromHeader
        <5>3. FromHeader(names[i], h, trusted) = address
          BY <3>3, <3>4
        <5>4. \A x \in 1..Len(names) : FromHeader(names[x], h, trusted) \in {address, Absent}
          BY <4>1, <5>2
        <5> HIDE DEF names, trusted
        <5> QED BY <1>3, <3>4, <4>2, <5>3, <5>4, ForwardedIs
      <4> QED BY <4>3, <4>4
    <3> QED BY <1>1, <1>2, <1>3, <2>2, <3>5
  <2> QED BY <1>4, <2>1, <2>2
<1> QED BY <1>5, <1>6

----------------------------------------------------------------------------
(* What the settings have come to                                          *)

\* A step of the settings leaves everything else alone.
LEMMA SettingsStep ==
  ASSUME Staged, SettingsNext
  PROVE  Staged' /\ given' = given /\ stage # "serving" /\ stage' # "serving"
<1>1. CASE ResolveLoggingDefaults
  BY <1>1 DEF Staged, Call, Building, ResolveLoggingDefaults
<1>2. CASE ResolveDatabaseDefaults
  <2>1. DOMAIN derived' = DOMAIN derived
    BY <1>2 DEF ResolveDatabaseDefaults
  <2>2. CASE stage' = "refused"
    BY <1>2, <2>1, <2>2 DEF Staged, Call, Building, ResolveDatabaseDefaults
  <2>3. CASE stage' # "refused"
    <3>1. /\ stage = "database" /\ stage' = "otel" /\ given' = given
          /\ AlembicUrl(given.database) # NoUrl
      BY <1>2, <2>3 DEF Call, ResolveDatabaseDefaults
    <3>2. /\ derived'.database_url = DatabaseUrl(given.database)
          /\ derived'.alembic_database_url = AlembicUrl(given.database)
      BY <1>2 DEF Staged, ResolveDatabaseDefaults
    <3> QED BY <2>1, <3>1, <3>2 DEF Staged, Building
  <2> QED BY <2>2, <2>3
<1>3. CASE ResolveOtelDefaults
  BY <1>3 DEF Staged, Call, Building, ResolveOtelDefaults
<1>4. CASE ResolveRateLimitStorageDefaults
  BY <1>4 DEF Staged, Call, Building, ResolveRateLimitStorageDefaults
<1>5. CASE ResolveCacheStorageDefaults
  BY <1>5 DEF Staged, Call, Building, ResolveCacheStorageDefaults
<1>6. CASE ResolveCspForDocs
  BY <1>6 DEF Staged, Call, Building, ResolveCspForDocs
<1>7. CASE ValidateAuthSettings
  BY <1>7 DEF Staged, Call, Building, ValidateAuthSettings
<1>8. CASE ValidateProxySettings
  BY <1>8 DEF Staged, Call, Building, ValidateProxySettings
<1>9. CASE ValidateCorsCredentials
  BY <1>9 DEF Staged, Call, Building, ValidateCorsCredentials
<1>10. CASE ValidateHealthPaths
  BY <1>10 DEF Staged, Call, Building, ValidateHealthPaths
<1> QED BY <1>1, <1>2, <1>3, <1>4, <1>5, <1>6, <1>7, <1>8, <1>9, <1>10 DEF SettingsNext

\* A step of create_app, or of the service it made.
Creates == Construct \/ SetupLogging \/ SetupMetrics \/ SetupRoutes

LEMMA CreateStep ==
  ASSUME Staged, Creates
  PROVE  Staged' /\ stage # "serving" /\ UNCHANGED <<given, derived, clock, hits, held, req>>
BY DEF Creates, Construct, SetupLogging, SetupMetrics, SetupRoutes, Build, Staged, Building

Serves == (\E r \in Request : \E next : Progress(r, next)) \/ Clear \/ Tick

LEMMA ServeStep ==
  ASSUME Staged, Serves
  PROVE  Staged' /\ stage = "serving" /\ UNCHANGED <<given, derived, stage, routes>>
<1>1. UNCHANGED <<given, derived, stage, routes>> /\ stage = "serving"
  BY DEF Serves, Progress, Clear, Tick
<1> QED BY <1>1 DEF Staged, Building

\* What a request does.
Asks(r) ==
  \/ Send(r) \/ Relay(r) \/ Admit(r) \/ Hit(r) \/ Answer(r) \/ Authorize(r)
  \/ LiveTime(r) \/ MemoryTime(r) \/ Get(r) \/ GetReplied(r) \/ SetEx(r)
  \/ Disconnect(r) \/ Timeout(r)

LEMMA AskServes ==
  ASSUME NEW r \in Request, Asks(r)
  PROVE  \E next : Progress(r, next)
BY Zenon DEF Asks, Send, Relay, Admit, Hit, Answer, Authorize, LiveTime, MemoryTime, Get,
   GetReplied, SetEx, Disconnect, Timeout

LEMMA NextCases ==
  ASSUME Next
  PROVE  \/ SettingsNext /\ UNCHANGED <<routes, clock, hits, held, req>>
         \/ Creates
         \/ \E r \in Request : Asks(r)
         \/ Clear
         \/ Tick
BY DEF Next, Creates, Asks

----------------------------------------------------------------------------
(* Requests                                                                *)

\* A request that moves on and stays on its trace leaves all on theirs.
LEMMA TracedProgress ==
  ASSUME Traced, NEW r \in Request, NEW next, Progress(r, next), TracedRequest(r, next)
  PROVE  Traced'
<1>1. /\ UNCHANGED <<given, derived, stage, routes>>
      /\ DOMAIN req' = Request
      /\ req'[r] = next
      /\ \A x \in Request : x # r => req'[x] = req[x]
  BY DEF Progress, Traced
<1>2. ASSUME NEW x \in Request PROVE TracedRequest(x, req[x])'
  <2>1. TracedRequest(x, req[x])
    BY DEF Traced
  <2>2. CASE x = r
    BY <1>1, <2>2 DEF TracedRequest, EndpointAt, Redis
  <2>3. CASE x # r
    <3>1. req'[x] = req[x]
      BY <1>1, <2>3
    <3> QED BY <1>1, <2>1, <3>1 DEF TracedRequest, EndpointAt, Redis
  <2> QED BY <2>2, <2>3
<1> QED BY <1>1, <1>2 DEF Traced

\* Before the service is up no request is under way, and so a step towards it
\* leaves all on their traces.
LEMMA TracedBefore ==
  ASSUME Traced, stage # "serving", req' = req
  PROVE  Traced'
BY DEF Traced, TracedRequest

LEMMA TracedFrame ==
  ASSUME Traced, UNCHANGED <<given, derived, stage, routes, req>>
  PROVE  Traced'
BY DEF Traced, TracedRequest, EndpointAt, Redis

\* What proxies have vouched for up to a host is vouched for up to the next.
LEMMA RelayVouches ==
  ASSUME NEW e, NEW c \in Seq(Address), NEW k \in Nat, k + 2 <= Len(c), NEW h \in Headers,
         \A i \in 1..k : Vouched(e, c, i, k + 1) => Vouches(e, h, c[i])
  PROVE  LET g == Relayed(h, Habit[c[k + 2]], c[k + 1])
         IN \A i \in 1..(k + 1) : Vouched(e, c, i, (k + 1) + 1) => Vouches(e, g, c[i])
<1> DEFINE m == k + 1
           host == c[k + 2]
           heard == c[m]
           g == Relayed(h, Habit[host], heard)
           limiter == e.proxy.trust_proxy_headers
<1>1. m + 1 = k + 2 /\ m \in Nat /\ host \in Address /\ heard \in Address
  BY Len(c) \in Nat
<1> SUFFICES ASSUME NEW i \in 1..m, Vouched(e, c, i, m + 1) PROVE Vouches(e, g, c[i])
  OBVIOUS
<1>2. /\ \A j \in (i + 1)..(m + 1) : c[j] \in Proxies(e) /\ Habit[c[j]].bare
      /\ i < m + 1 =>
            /\ Habit[c[i + 1]].forwarded
                    \in {"joined", "replaced"} \cup (IF limiter THEN {} ELSE {"added"})
            /\ limiter /\ e.proxy.proxy_headers[1] # "x-forwarded-for" => Habit[c[i + 1]].names
      /\ \A j \in (i + 2)..(m + 1) :
            Habit[c[j]].forwarded
                \in {"joined", "kept"} \cup (IF limiter THEN {"added"} ELSE {})
  BY DEF Vouched
<1> HIDE DEF m
<1>3. m + 1 \in (i + 1)..(m + 1) /\ host = c[m + 1]
  BY <1>1
<1>4. Habit[host].bare
  BY <1>2, <1>3
<1> HIDE DEF host, heard, limiter
<1>5. CASE i = m
  <2>1. i < m + 1 /\ c[i + 1] = host /\ c[i] = heard
    BY <1>1, <1>3, <1>5 DEF heard
  <2>2. /\ Habit[host].forwarded
                \in {"joined", "replaced"} \cup (IF limiter THEN {} ELSE {"added"})
        /\ limiter /\ e.proxy.proxy_headers[1] # "x-forwarded-for" => Habit[host].names
    BY <1>2, <2>1
  <2>3. Vouches(e, Relayed(h, Habit[host], heard), heard)
    BY <1>1, <1>4, <2>2, FirstVouches DEF limiter
  <2> QED BY <2>1, <2>3
<1>6. CASE i # m
  <2>1. i \in 1..k /\ m \in (i + 1)..(m + 1) /\ m + 1 \in (i + 2)..(m + 1)
    BY <1>1, <1>6 DEF m
  <2>2. heard \in Address \cap Proxies(e)
    BY <1>1, <1>2, <2>1 DEF heard
  <2>3. Habit[host].forwarded
            \in {"joined", "kept"} \cup (IF limiter THEN {"added"} ELSE {})
    BY <1>2, <1>3, <2>1
  <2>4. Vouched(e, c, i, m)
    <3>1. /\ \A j \in (i + 1)..m : j \in (i + 1)..(m + 1)
          /\ \A j \in (i + 2)..m : j \in (i + 2)..(m + 1)
          /\ i < m + 1
      BY <1>1
    <3> QED BY <1>2, <3>1 DEF Vouched, limiter
  <2>5. Vouches(e, h, c[i])
    BY <2>1, <2>4 DEF m
  <2>6. Vouches(e, Relayed(h, Habit[host], heard), c[i])
    BY <1>1, <1>4, <2>2, <2>3, <2>5, NextVouches DEF limiter
  <2> QED BY <2>6
<1> QED BY <1>5, <1>6

\* What an answer changes of a request, and what it leaves.
LEMMA DoneFields ==
  ASSUME NEW r, NEW q, TracedRequest(r, q), NEW status
  PROVE  LET n == Done(q, status)
         IN /\ DOMAIN n = DOMAIN q
            /\ n.pc = "done" /\ n.offer = q.offer /\ n.hop = q.hop /\ n.headers = q.headers
            /\ n.since = 0 /\ n.time = 0 /\ n.age = q.age /\ n.status = status
BY DEF TracedRequest, Done

LEMMA ToldFields ==
  ASSUME NEW r, NEW q, TracedRequest(r, q), NEW time
  PROVE  LET n == Told(q, time)
         IN /\ DOMAIN n = DOMAIN q
            /\ n.pc = "done" /\ n.offer = q.offer /\ n.hop = q.hop /\ n.headers = q.headers
            /\ n.since = 0 /\ n.time = 0 /\ n.age = clock - time /\ n.status = 200
BY DEF TracedRequest, Done, Told

LEMMA DoneTraced ==
  ASSUME NEW r, NEW q, TracedRequest(r, q), q.pc # "unsent",
         NEW status \in {200, 204, 401, 403, 404, 429, 500, 503, 504},
         status = 200 /\ EndpointAt(q.offer.path) \in DOMAIN Required =>
            \E listed \in BOOLEAN :
                Verdict(given.auth, EndpointAt(q.offer.path), q.offer.authorization, listed) = 200
  PROVE  TracedRequest(r, Done(q, status))
BY DoneFields DEF TracedRequest

LEMMA ToldTraced ==
  ASSUME NEW r, NEW q, TracedRequest(r, q), q.pc # "unsent", NEW time,
         EndpointAt(q.offer.path) = "cached_time"
  PROVE  TracedRequest(r, Told(q, time))
<1>1. "cached_time" \notin DOMAIN Required
  BY DEF Required
<1> QED BY <1>1, ToldFields DEF TracedRequest

LEMMA AskTraced ==
  ASSUME given \in Environment, Traced, NEW r \in Request, Asks(r)
  PROVE  Traced'
<1> DEFINE q == req[r]
<1>1. TracedRequest(r, q)
  BY DEF Traced
<1>2. ASSUME NEW o \in Offered(r, given)
      PROVE  o.client \in Address /\ o.via \in Seq(Address) /\ o.headers \in Headers
  BY OfferAssumption
<1> SUFFICES \E next : Progress(r, next) /\ TracedRequest(r, next)
  BY TracedProgress
<1>3. CASE Send(r)
  <2>1. PICK o \in Offered(r, given) :
            Progress(r, [q EXCEPT !.pc = "travelling", !.offer = o, !.headers = o.headers])
    BY <1>3 DEF Send
  <2>2. /\ q.pc = "unsent" /\ q.hop = 0 /\ stage = "serving"
        /\ o.headers \in Headers /\ Len(o.via) \in Nat
    BY <1>1, <1>2, <1>3 DEF Send, Progress, TracedRequest
  <2>3. TracedRequest(r, [q EXCEPT !.pc = "travelling", !.offer = o, !.headers = o.headers])
    <3> HIDE DEF q
    <3> QED BY <1>1, <2>2 DEF TracedRequest
  <2> QED BY <2>1, <2>3
<1>4. CASE Relay(r)
  <2> DEFINE o == q.offer
  <2> DEFINE c == Chain(o)
             k == q.hop
             g == Relayed(q.headers, Habit[c[k + 2]], c[k + 1])
             next == [q EXCEPT !.hop = k + 1, !.headers = g]
  <2>1. q.pc = "travelling" /\ k < Len(o.via) /\ Progress(r, next)
    BY <1>4 DEF Relay
  <2>2. /\ stage = "serving" /\ o \in Offered(r, given) /\ k \in 0..Len(o.via)
        /\ q.headers \in Headers /\ q.status = 0
        /\ \A i \in 1..k : Vouched(given, c, i, k + 1) => Vouches(given, q.headers, c[i])
        /\ DOMAIN q = {"pc", "offer", "hop", "headers", "since", "seen", "time", "age", "status"}
    BY <1>1, <2>1 DEF TracedRequest
  <2>3. o.client \in Address /\ o.via \in Seq(Address)
    BY <1>2, <2>2
  <2>4. c \in Seq(Address) /\ Len(c) = Len(o.via) + 1 /\ Len(o.via) \in Nat
    BY <2>3, ChainType
  <2> HIDE DEF c, k
  <2>5. k \in Nat /\ k + 1 \in 0..Len(o.via) /\ k + 1 \in 1..Len(c) /\ k + 2 \in 1..Len(c)
    BY <2>1, <2>2, <2>4
  <2>6. \A i \in 1..(k + 1) : Vouched(given, c, i, (k + 1) + 1) => Vouches(given, g, c[i])
    BY <2>2, <2>4, <2>5, RelayVouches
  <2>7. g \in Headers
    <3>1. c[k + 1] \in Address /\ c[k + 2] \in Address
      BY <2>4, <2>5
    <3> QED BY <2>2, <3>1, RelayedType
  <2> HIDE DEF g
  <2>8. /\ DOMAIN next = DOMAIN q /\ next.pc = "travelling" /\ next.offer = o
        /\ next.hop = k + 1 /\ next.headers = g /\ next.status = 0
    BY <2>1, <2>2
  <2> HIDE DEF next
  <2>9. TracedRequest(r, next)
    BY <2>2, <2>5, <2>6, <2>7, <2>8 DEF TracedRequest, c
  <2> QED BY <2>1, <2>9
<1>5. CASE Admit(r)
  <2>1. q.pc = "travelling" /\ Progress(r, [q EXCEPT !.pc = "admitted", !.since = clock])
    BY <1>5 DEF Admit, Arrived
  <2>2. TracedRequest(r, [q EXCEPT !.pc = "admitted", !.since = clock])
    BY <1>1, <2>1 DEF TracedRequest
  <2> QED BY <2>1, <2>2
<1>6. CASE Hit(r)
  <2>1. q.pc = "travelling" /\ TracedRequest(r, Done(q, 429))
    BY <1>1, <1>6, DoneTraced DEF Hit, Arrived
  <2>2. Progress(r, [q EXCEPT !.pc = "admitted", !.since = clock]) \/ Progress(r, Done(q, 429))
    BY <1>6 DEF Hit
  <2>3. TracedRequest(r, [q EXCEPT !.pc = "admitted", !.since = clock])
    BY <1>1, <2>1 DEF TracedRequest
  <2> QED BY <2>1, <2>2, <2>3
<1>7. CASE Answer(r)
  <2>1. PICK e \in {"none", "openapi", "docs", "oauth2", "redoc", "metrics", "root", "health", "ready",
                 "favicon", "info", "endpoints"} :
            At(r, e) /\ \E status \in Statuses(e) : Progress(r, Done(q, status))
    BY <1>7 DEF Answer
  <2>2. PICK status \in Statuses(e) : Progress(r, Done(q, status))
    BY <2>1
  <2>3. status \in {200, 204, 404, 503} /\ e \notin DOMAIN Required
    BY DEF Statuses, Required
  <2>4. q.pc = "admitted" /\ EndpointAt(q.offer.path) = e
    BY <2>1 DEF At
  <2>5. TracedRequest(r, Done(q, status))
    BY <1>1, <2>3, <2>4, DoneTraced
  <2> QED BY <2>2, <2>5
<1>8. CASE Authorize(r)
  <2>1. PICK e \in DOMAIN Required, listed \in BOOLEAN :
            At(r, e) /\ Progress(r, Done(q, Verdict(given.auth, e, q.offer.authorization, listed)))
    BY <1>8 DEF Authorize
  <2>2. q.pc = "admitted" /\ EndpointAt(q.offer.path) = e
    BY <2>1 DEF At
  <2>3. Verdict(given.auth, e, q.offer.authorization, listed) \in {200, 401, 403}
    BY DEF Verdict
  <2>4. TracedRequest(r, Done(q, Verdict(given.auth, e, q.offer.authorization, listed)))
    BY <1>1, <2>2, <2>3, DoneTraced
  <2> QED BY <2>1, <2>4
<1>9. CASE LiveTime(r) \/ MemoryTime(r)
  <2>1. q.pc = "admitted" /\ EndpointAt(q.offer.path) = "cached_time"
    BY <1>9 DEF LiveTime, MemoryTime, At
  <2>2. PICK time : Progress(r, Told(q, time))
    BY <1>9 DEF LiveTime, MemoryTime
  <2> QED BY <1>1, <2>1, <2>2, ToldTraced
<1>10. CASE Get(r)
  <2>1. q.pc = "admitted" /\ EndpointAt(q.offer.path) = "cached_time" /\ Redis
    BY <1>10 DEF Get, At
  <2>2. PICK seen : Progress(r, [q EXCEPT !.pc = "got", !.seen = seen])
    BY <1>10 DEF Get
  <2>3. TracedRequest(r, [q EXCEPT !.pc = "got", !.seen = seen])
    BY <1>1, <2>1 DEF TracedRequest
  <2> QED BY <2>2, <2>3
<1>11. CASE GetReplied(r)
  <2>1. q.pc = "got" /\ EndpointAt(q.offer.path) = "cached_time" /\ Redis
    BY <1>1, <1>11 DEF GetReplied, TracedRequest
  <2>2. Progress(r, Told(q, q.seen.time)) \/ Progress(r, [q EXCEPT !.pc = "storing", !.time = clock])
    BY <1>11 DEF GetReplied
  <2>3. TracedRequest(r, Told(q, q.seen.time))
    BY <1>1, <2>1, ToldTraced
  <2>4. TracedRequest(r, [q EXCEPT !.pc = "storing", !.time = clock])
    BY <1>1, <2>1 DEF TracedRequest
  <2> QED BY <2>2, <2>3, <2>4
<1>12. CASE SetEx(r)
  <2>1. q.pc = "storing" /\ EndpointAt(q.offer.path) = "cached_time" /\ q.status \in {0, 504}
    BY <1>1, <1>12 DEF SetEx, TracedRequest
  <2>2. IF q.status = 0 THEN Progress(r, Told(q, q.time)) ELSE Progress(r, Done(q, q.status))
    BY <1>12 DEF SetEx
  <2>3. TracedRequest(r, Told(q, q.time))
    BY <1>1, <2>1, ToldTraced
  <2>4. TracedRequest(r, Done(q, 504))
    BY <1>1, <2>1, DoneTraced
  <2> QED BY <2>1, <2>2, <2>3, <2>4
<1>13. CASE Disconnect(r)
  <2>1. q.pc \in {"admitted", "got", "storing"} /\ q.status \in {0, 504}
    BY <1>1, <1>13 DEF Disconnect, At, TracedRequest
  <2>2. Progress(r, Done(q, 500)) \/ Progress(r, Done(q, 504))
    BY <1>13, <2>1 DEF Disconnect
  <2>3. TracedRequest(r, Done(q, 500)) /\ TracedRequest(r, Done(q, 504))
    BY <1>1, <2>1, DoneTraced
  <2> QED BY <2>2, <2>3
<1>14. CASE Timeout(r)
  <2>1. q.pc \in {"admitted", "got", "storing"}
    BY <1>14 DEF Timeout, Waiting
  <2>2. IF q.pc = "storing" THEN Progress(r, [q EXCEPT !.status = 504]) ELSE Progress(r, Done(q, 504))
    BY <1>14 DEF Timeout
  <2>3. TracedRequest(r, Done(q, 504))
    BY <1>1, <2>1, DoneTraced
  <2>4. q.pc = "storing" => TracedRequest(r, [q EXCEPT !.status = 504])
    BY <1>1 DEF TracedRequest
  <2> QED BY <2>2, <2>3, <2>4
<1> QED
  BY <1>3, <1>4, <1>5, <1>6, <1>7, <1>8, <1>9, <1>10, <1>11, <1>12, <1>13, <1>14 DEF Asks

----------------------------------------------------------------------------
(* Counters                                                                *)

\* A request that has arrived and moves on is still the same.
Settled(q, next) ==
  /\ next.pc \notin {"unsent", "travelling"}
  /\ next.offer = q.offer /\ next.hop = q.hop /\ next.headers = q.headers

LEMMA Settles ==
  ASSUME Traced, NEW r \in Request, Asks(r), ~ Send(r), ~ Relay(r)
  PROVE  \E next : Progress(r, next) /\ Settled(req[r], next)
<1> DEFINE q == req[r]
<1>1. TracedRequest(r, q)
  BY DEF Traced
<1>2. ASSUME NEW status PROVE Settled(q, Done(q, status))
  BY <1>1, DoneFields DEF Settled
<1>3. ASSUME NEW time PROVE Settled(q, Told(q, time))
  BY <1>1, ToldFields DEF Settled
<1>4. ASSUME NEW status PROVE q.pc = "storing" => Settled(q, [q EXCEPT !.status = status])
  BY <1>1 DEF Settled, TracedRequest
<1>5. Settled(q, [q EXCEPT !.pc = "admitted", !.since = clock])
  BY <1>1 DEF Settled, TracedRequest
<1>6. ASSUME NEW seen PROVE Settled(q, [q EXCEPT !.pc = "got", !.seen = seen])
  BY <1>1 DEF Settled, TracedRequest
<1>7. Settled(q, [q EXCEPT !.pc = "storing", !.time = clock])
  BY <1>1 DEF Settled, TracedRequest
<1>8. \/ \E status : Progress(r, Done(q, status))
      \/ \E time : Progress(r, Told(q, time))
      \/ \E status : q.pc = "storing" /\ Progress(r, [q EXCEPT !.status = status])
      \/ Progress(r, [q EXCEPT !.pc = "admitted", !.since = clock])
      \/ \E seen : Progress(r, [q EXCEPT !.pc = "got", !.seen = seen])
      \/ Progress(r, [q EXCEPT !.pc = "storing", !.time = clock])
  <2>1. CASE Admit(r)
    BY <2>1 DEF Admit
  <2>2. CASE Hit(r)
    BY <2>2 DEF Hit
  <2>3. CASE Answer(r)
    BY <2>3 DEF Answer
  <2>4. CASE Authorize(r)
    BY <2>4 DEF Authorize
  <2>5. CASE LiveTime(r)
    BY <2>5 DEF LiveTime
  <2>6. CASE MemoryTime(r)
    BY <2>6 DEF MemoryTime
  <2>7. CASE Get(r)
    BY <2>7 DEF Get
  <2>8. CASE GetReplied(r)
    BY <2>8 DEF GetReplied
  <2>9. CASE SetEx(r)
    BY <2>9 DEF SetEx
  <2>10. CASE Disconnect(r)
    BY <2>10 DEF Disconnect
  <2>11. CASE Timeout(r)
    <3>1. \/ q.pc = "storing" /\ Progress(r, [q EXCEPT !.status = 504])
          \/ Progress(r, Done(q, 504))
      BY <2>11 DEF Timeout
    <3> QED BY <3>1
  <2>12. \/ Admit(r) \/ Hit(r) \/ Answer(r) \/ Authorize(r) \/ LiveTime(r) \/ MemoryTime(r)
         \/ Get(r) \/ GetReplied(r) \/ SetEx(r) \/ Disconnect(r) \/ Timeout(r)
    BY DEF Asks
  <2> QED
    BY <2>1, <2>2, <2>3, <2>4, <2>5, <2>6, <2>7, <2>8, <2>9, <2>10, <2>11, <2>12, Zenon
<1> QED BY <1>2, <1>3, <1>4, <1>5, <1>6, <1>7, <1>8

LEMMA NoHitsBefore ==
  ASSUME Traced, Counted, stage # "serving"
  PROVE  hits = {}
BY DEF Traced, TracedRequest, Counted

LEMMA CountedFrame ==
  ASSUME Counted, hits' \subseteq hits, UNCHANGED <<given, derived, req>>
  PROVE  Counted'
BY DEF Counted, KeyOf, RateLimitKey, LimitedClient

LEMMA AskCounted ==
  ASSUME Traced, Counted, NEW r \in Request, Asks(r)
  PROVE  Counted'
<1>1. UNCHANGED <<given, derived>> /\ DOMAIN req = Request
  BY AskServes DEF Progress, Traced
<1>2. \A x \in Request : x # r => req'[x] = req[x]
  BY AskServes, <1>1 DEF Progress
<1>3. CASE Send(r) \/ Relay(r)
  <2>1. req[r].pc \in {"unsent", "travelling"} /\ hits' = hits
    BY <1>3 DEF Send, Relay
  <2>2. \A h \in hits : h[3] # r
    BY <2>1 DEF Counted
  <2>3. ASSUME NEW h \in hits'
        PROVE  h \in hits /\ h[3] \in Request /\ req'[h[3]] = req[h[3]]
    BY <1>2, <2>1, <2>2 DEF Counted
  <2>4. ASSUME NEW h \in hits' PROVE (KeyOf(req[h[3]]))' = KeyOf(req[h[3]])
    BY <1>1, <2>3 DEF KeyOf, RateLimitKey, LimitedClient
  <2> QED BY <1>1, <2>3, <2>4 DEF Counted
<1>4. CASE ~ Send(r) /\ ~ Relay(r)
  <2>1. PICK next : Progress(r, next) /\ Settled(req[r], next)
    BY <1>4, Settles
  <2>2. req'[r] = next
    BY <1>1, <2>1 DEF Progress
  <2>3. \/ hits' = hits
        \/ /\ hits' = hits \cup {<<derived.rate_limit_storage_url, KeyOf(req[r]), r>>}
           /\ req[r].hop = Len(req[r].offer.via)
    BY <1>4 DEF Asks, Admit, Hit, Answer, Authorize, LiveTime, MemoryTime, Get, GetReplied,
       SetEx, Disconnect, Timeout, Arrived
  <2>4. ASSUME NEW h \in hits'
        PROVE  /\ h[3] \in Request /\ (req'[h[3]]).pc \notin {"unsent", "travelling"}
               /\ (req'[h[3]]).hop = Len((req'[h[3]]).offer.via)
               /\ h = <<derived.rate_limit_storage_url, KeyOf(req'[h[3]]), h[3]>>
    <3>1. ASSUME NEW q PROVE Settled(q, next) => KeyOf(q) = KeyOf(next)
      BY DEF Settled, KeyOf
    <3>2. CASE h \in hits
      <4>1. /\ h[3] \in Request /\ req[h[3]].pc \notin {"unsent", "travelling"}
            /\ req[h[3]].hop = Len(req[h[3]].offer.via)
            /\ h = <<derived.rate_limit_storage_url, KeyOf(req[h[3]]), h[3]>>
        BY <3>2 DEF Counted
      <4>2. CASE h[3] = r
        <5>1. KeyOf(req[r]) = KeyOf(next)
          BY <2>1, <3>1
        <5> QED BY <2>1, <2>2, <4>1, <4>2, <5>1 DEF Settled
      <4>3. CASE h[3] # r
        BY <1>2, <4>1, <4>3
      <4> QED BY <4>2, <4>3
    <3>3. CASE h \notin hits
      <4>1. h = <<derived.rate_limit_storage_url, KeyOf(req[r]), r>> /\ h[3] = r
        BY <2>3, <3>3
      <4>2. KeyOf(req[r]) = KeyOf(next)
        BY <2>1, <3>1
      <4>3. req[r].hop = Len(req[r].offer.via)
        BY <2>3, <3>3
      <4> QED BY <2>1, <2>2, <4>1, <4>2, <4>3 DEF Settled
    <3> QED BY <3>2, <3>3
  <2>5. ASSUME NEW h \in hits' PROVE (KeyOf(req[h[3]]))' = KeyOf(req'[h[3]])
    BY <1>1 DEF KeyOf, RateLimitKey, LimitedClient
  <2> QED BY <1>1, <2>4, <2>5 DEF Counted
<1> QED BY <1>3, <1>4

----------------------------------------------------------------------------
(* Times                                                                   *)

\* The lifetime and the delays are numbers.
LEMMA Numbers ==
  ASSUME Staged
  PROVE  /\ given.cache.default_ttl_seconds \in Nat \ {0}
         /\ Delay \in Nat /\ MaxAge \in Nat
         /\ RequestTimeout \in Nat \ {0} /\ Latency \in Nat
         /\ Redis => Delay = RequestTimeout + Latency /\ given.cache.enabled
         /\ given.cache.enabled => MaxAge >= given.cache.default_ttl_seconds - 1 + Delay
         /\ Redis => MaxAge = given.cache.default_ttl_seconds - 1 + Delay + RequestTimeout
BY TimeAssumption DEF Staged, Delay, MaxAge, Redis

LEMMA TimedProgress ==
  ASSUME Timed, DOMAIN req = Request, NEW r \in Request, NEW next, Progress(r, next),
         TimedRequest(next), Aged(held')
  PROVE  Timed'
<1>1. /\ UNCHANGED <<given, clock>> /\ req'[r] = next
      /\ \A x \in Request : x # r => req'[x] = req[x]
  BY DEF Progress
<1>2. (clock \in Nat)' /\ (Aged(held))'
  BY <1>1 DEF Timed, Aged, Delay, Redis
<1>3. ASSUME NEW x \in Request PROVE (TimedRequest(req[x]))'
  <2>1. CASE x = r
    BY <1>1, <2>1 DEF TimedRequest, Aged, Delay, MaxAge, Redis, Waiting
  <2>2. CASE x # r
    <3>1. req'[x] = req[x] /\ TimedRequest(req[x])
      BY <1>1, <2>2 DEF Timed
    <3> QED BY <1>1, <3>1 DEF TimedRequest, Aged, Delay, MaxAge, Redis, Waiting
  <2> QED BY <2>1, <2>2
<1> QED BY <1>2, <1>3 DEF Timed

LEMMA TimedFrame ==
  ASSUME Timed, UNCHANGED <<given, clock, held, req>>
  PROVE  Timed'
BY DEF Timed, TimedRequest, Aged, Delay, MaxAge, Redis, Waiting

LEMMA TickTimed ==
  ASSUME Staged, Traced, Timed, Tick
  PROVE  Timed'
<1>1. UNCHANGED <<given, held, req>> /\ clock' = clock + 1 /\ clock \in Nat
  BY DEF Tick, Timed
<1>2. (clock \in Nat)' /\ (Aged(held))'
  BY <1>1 DEF Timed, Aged, Delay, Redis
<1>3. ASSUME NEW r \in Request PROVE (TimedRequest(req[r]))'
  <2>1. TimedRequest(req[r])
    BY DEF Timed
  <2>2. /\ Waiting(req[r]) => clock + 1 <= req[r].since + RequestTimeout
        /\ req[r].pc = "storing" => clock + 1 <= req[r].since + RequestTimeout + Latency
    BY <1>1, <2>1, Numbers DEF Tick, TimedRequest
  <2>3. req[r].pc = "got" => Aged(req[r].seen) /\ (Aged(req[r].seen))'
    BY <1>1, <2>1 DEF TimedRequest, Aged, Delay, Redis
  <2> QED BY <1>1, <2>1, <2>2, <2>3 DEF TimedRequest, MaxAge, Redis, Waiting, Delay
<1> QED BY <1>2, <1>3 DEF Timed

LEMMA NoEntryAged ==
  ASSUME Staged, Timed
  PROVE  Aged(NoEntry)
BY Numbers DEF Aged, NoEntry, Timed

LEMMA ClearTimed ==
  ASSUME Staged, Timed, Clear
  PROVE  Timed'
<1>1. UNCHANGED <<given, clock, req>> /\ held' = NoEntry
  BY DEF Clear
<1>2. Aged(NoEntry)
  BY NoEntryAged
<1> QED BY <1>1, <1>2 DEF Timed, TimedRequest, Aged, Delay, MaxAge, Redis, Waiting

LEMMA DoneTimed ==
  ASSUME Timed, NEW r, NEW q, TracedRequest(r, q), TimedRequest(q), NEW status
  PROVE  TimedRequest(Done(q, status))
BY DoneFields DEF Timed, TimedRequest, Waiting

LEMMA ToldTimed ==
  ASSUME Timed, NEW r, NEW q, TracedRequest(r, q), TimedRequest(q), NEW time \in Nat,
         time <= clock, clock - time <= MaxAge
  PROVE  TimedRequest(Told(q, time))
BY ToldFields DEF Timed, TimedRequest, Waiting

\* An entry that is fresh is not older than an entry can be.
LEMMA FreshAge ==
  ASSUME Staged, NEW entry, Aged(entry), NEW t \in Nat, t < entry.until
  PROVE  t - entry.time <= given.cache.default_ttl_seconds - 1 + Delay
BY Numbers DEF Aged

LEMMA EntryAged ==
  ASSUME Staged, Timed, NEW t \in Nat, t <= clock, clock <= t + Delay
  PROVE  Aged(Entry(t))
BY Numbers DEF Aged, Entry, Timed

LEMMA AskTimed ==
  ASSUME Staged, Traced, Timed, NEW r \in Request, Asks(r)
  PROVE  Timed'
<1> DEFINE q == req[r]
           ttl == given.cache.default_ttl_seconds
<1>1. TracedRequest(r, q) /\ TimedRequest(q) /\ DOMAIN req = Request
  BY DEF Traced, Timed
<1>2. clock \in Nat /\ Aged(held) /\ q.since \in Nat /\ q.since <= clock
  BY <1>1 DEF Timed, TimedRequest
<1> SUFFICES Aged(held') /\ \E next : Progress(r, next) /\ TimedRequest(next)
  BY <1>1, TimedProgress
<1> HIDE DEF q
<1>3. CASE Send(r)
  <2>1. PICK o : Progress(r, [q EXCEPT !.pc = "travelling", !.offer = o, !.headers = o.headers])
    BY <1>3 DEF Send, q
  <2>2. TimedRequest([q EXCEPT !.pc = "travelling", !.offer = o, !.headers = o.headers])
    BY <1>1 DEF TimedRequest, TracedRequest, Waiting
  <2>3. held' = held
    BY <1>3 DEF Send
  <2> QED BY <1>2, <2>1, <2>2, <2>3
<1>4. CASE Relay(r)
  <2>1. PICK hop, headers : Progress(r, [q EXCEPT !.hop = hop, !.headers = headers])
    BY <1>4 DEF Relay, q
  <2>2. TimedRequest([q EXCEPT !.hop = hop, !.headers = headers])
    BY <1>1 DEF TimedRequest, TracedRequest, Waiting
  <2>3. held' = held
    BY <1>4 DEF Relay
  <2> QED BY <1>2, <2>1, <2>2, <2>3
<1>5. CASE Admit(r) \/ Hit(r)
  <2>1. TimedRequest([q EXCEPT !.pc = "admitted", !.since = clock])
    BY <1>1, <1>2, Numbers DEF TimedRequest, TracedRequest, Waiting
  <2>2. TimedRequest(Done(q, 429))
    BY <1>1, DoneTimed
  <2>3. /\ held' = held
        /\ \/ Progress(r, [q EXCEPT !.pc = "admitted", !.since = clock])
           \/ Progress(r, Done(q, 429))
    BY <1>5 DEF Admit, Hit, q
  <2> QED BY <1>2, <2>1, <2>2, <2>3
<1>6. CASE Answer(r) \/ Authorize(r)
  <2>1. held' = held /\ \E status : Progress(r, Done(q, status))
    BY <1>6 DEF Answer, Authorize, q
  <2>2. PICK status : Progress(r, Done(q, status))
    BY <2>1
  <2>3. TimedRequest(Done(q, status))
    BY <1>1, DoneTimed
  <2> QED BY <1>2, <2>1, <2>2, <2>3
<1>7. CASE LiveTime(r)
  <2>1. held' = held /\ Progress(r, Told(q, clock))
    BY <1>7 DEF LiveTime, q
  <2>2. TimedRequest(Told(q, clock))
    BY <1>1, <1>2, Numbers, ToldTimed
  <2> QED BY <1>2, <2>1, <2>2
<1>8. CASE MemoryTime(r)
  <2>1. /\ held' = IF Fresh(held) THEN held ELSE Entry(clock)
        /\ Progress(r, Told(q, (held').time)) /\ given.cache.enabled
    BY <1>8 DEF MemoryTime, q
  <2>2. Aged(held')
    BY <1>2, <2>1, EntryAged, Numbers
  <2>3. clock < (held').until
    BY <1>2, <2>1, Numbers DEF Fresh, Entry
  <2>4. (held').time \in Nat /\ (held').time <= clock /\ clock - (held').time <= MaxAge
    BY <1>2, <2>1, <2>2, <2>3, FreshAge, Numbers DEF Aged
  <2>5. TimedRequest(Told(q, (held').time))
    BY <1>1, <2>4, ToldTimed
  <2> QED BY <2>1, <2>2, <2>5
<1>9. CASE Get(r)
  <2> DEFINE seen == IF Fresh(held) THEN held ELSE NoEntry
  <2>1. q.pc = "admitted" /\ held' = held /\ Progress(r, [q EXCEPT !.pc = "got", !.seen = seen])
    BY <1>9 DEF Get, At, q
  <2>2. Aged(seen) /\ (seen # NoEntry => clock < seen.until)
    BY <1>2, NoEntryAged DEF Fresh
  <2> HIDE DEF seen
  <2>3. seen # NoEntry => q.since < seen.until
    BY <1>2, <2>2 DEF Aged
  <2>4. TimedRequest([q EXCEPT !.pc = "got", !.seen = seen])
    BY <1>1, <2>1, <2>2, <2>3 DEF TimedRequest, TracedRequest, Waiting
  <2> QED BY <1>2, <2>1, <2>4
<1>10. CASE GetReplied(r)
  <2>1. q.pc = "got" /\ held' = held /\ Redis /\ q.status = 0 /\ clock <= q.since + RequestTimeout
    BY <1>1, <1>10 DEF GetReplied, TracedRequest, TimedRequest, Waiting, q
  <2>2. CASE q.seen # NoEntry
    <3>1. Progress(r, Told(q, q.seen.time))
      BY <1>10, <2>2 DEF GetReplied, q
    <3>2. Aged(q.seen) /\ q.since < q.seen.until
      BY <1>1, <2>1, <2>2 DEF TimedRequest
    <3>3. q.since - q.seen.time <= ttl - 1 + Delay
      BY <1>2, <3>2, FreshAge
    <3>4. q.seen.time \in Nat /\ q.seen.time <= clock /\ clock - q.seen.time <= MaxAge
      BY <1>2, <2>1, <3>2, <3>3, Numbers DEF Aged
    <3>5. TimedRequest(Told(q, q.seen.time))
      BY <1>1, <3>4, ToldTimed
    <3> QED BY <1>2, <2>1, <3>1, <3>5
  <2>3. CASE q.seen = NoEntry
    <3>1. Progress(r, [q EXCEPT !.pc = "storing", !.time = clock])
      BY <1>10, <2>3 DEF GetReplied, q
    <3>2. TimedRequest([q EXCEPT !.pc = "storing", !.time = clock])
      BY <1>1, <1>2, <2>1, Numbers DEF TimedRequest, TracedRequest, Waiting
    <3> QED BY <1>2, <2>1, <3>1, <3>2
  <2> QED BY <2>2, <2>3
<1>11. CASE SetEx(r)
  <2>1. q.pc = "storing" /\ held' = Entry(q.time) /\ Redis
    BY <1>1, <1>11 DEF SetEx, TracedRequest, q
  <2>2. /\ q.time \in Nat /\ q.since <= q.time /\ q.time <= clock
        /\ clock <= q.since + RequestTimeout + Latency
    BY <1>1, <2>1 DEF TimedRequest
  <2>3. clock <= q.time + Delay /\ clock - q.time <= MaxAge
    BY <1>2, <2>1, <2>2, Numbers
  <2>4. Aged(held')
    BY <2>1, <2>2, <2>3, EntryAged
  <2>5. TimedRequest(Told(q, q.time)) /\ TimedRequest(Done(q, q.status))
    BY <1>1, <2>2, <2>3, ToldTimed, DoneTimed
  <2>6. Progress(r, Told(q, q.time)) \/ Progress(r, Done(q, q.status))
    BY <1>11 DEF SetEx, q
  <2> QED BY <2>4, <2>5, <2>6
<1>12. CASE Disconnect(r)
  <2>1. held' = held /\ \E status : Progress(r, Done(q, status))
    BY <1>12 DEF Disconnect, q
  <2>2. PICK status : Progress(r, Done(q, status))
    BY <2>1
  <2>3. TimedRequest(Done(q, status))
    BY <1>1, DoneTimed
  <2> QED BY <1>2, <2>1, <2>2, <2>3
<1>13. CASE Timeout(r)
  <2>1. held' = held
    BY <1>13 DEF Timeout
  <2>2. \/ q.pc = "storing" /\ Progress(r, [q EXCEPT !.status = 504])
        \/ Progress(r, Done(q, 504))
    BY <1>13 DEF Timeout, q
  <2>3. q.pc = "storing" => TimedRequest([q EXCEPT !.status = 504])
    BY <1>1 DEF TimedRequest, TracedRequest, Waiting
  <2>4. TimedRequest(Done(q, 504))
    BY <1>1, DoneTimed
  <2> QED BY <1>2, <2>1, <2>2, <2>3, <2>4
<1> QED
  BY <1>3, <1>4, <1>5, <1>6, <1>7, <1>8, <1>9, <1>10, <1>11, <1>12, <1>13 DEF Asks

----------------------------------------------------------------------------
(* The theorems                                                            *)

\* The inductive invariant, with what the settings are.
Kept == given \in Environment /\ IInv

LEMMA InitKept ==
  ASSUME Init
  PROVE  Kept
<1>1. given \in Environment /\ stage = "logging" /\ hits = {} /\ clock = 0 /\ held = NoEntry
  BY DEF Init, SettingsInit
<1>2. given.cache.default_ttl_seconds \in Nat \ {0}
  BY <1>1, EnvironmentAssumption
<1>3. Staged
  BY <1>1, <1>2 DEF Init, SettingsInit, Staged, Building
<1>4. Traced
  BY DEF Init, Traced, TracedRequest
<1>5. Counted
  BY <1>1 DEF Counted
<1>6. Timed
  <2>1. Aged(held)
    BY <1>1, <1>3, Numbers DEF Aged, NoEntry
  <2> QED BY <1>1, <1>3, <2>1, Numbers DEF Init, Timed, TimedRequest, Waiting
<1> QED BY <1>1, <1>3, <1>4, <1>5, <1>6 DEF Kept, IInv

LEMMA NextKept ==
  ASSUME Kept, [Next]_vars
  PROVE  Kept'
<1> USE DEF Kept, IInv
<1>1. CASE SettingsNext /\ UNCHANGED <<routes, clock, hits, held, req>>
  <2>1. Staged' /\ given' = given /\ stage # "serving" /\ hits' = {}
    BY <1>1, SettingsStep, NoHitsBefore
  <2>2. Traced' /\ Timed'
    BY <1>1, <2>1, TracedBefore, TimedFrame
  <2> QED BY <2>1, <2>2 DEF Counted
<1>2. CASE Creates
  <2>1. Staged' /\ given' = given /\ stage # "serving" /\ hits' = {}
    BY <1>2, CreateStep, NoHitsBefore
  <2>2. Traced' /\ Timed'
    BY <1>2, <2>1, CreateStep, TracedBefore, TimedFrame
  <2> QED BY <2>1, <2>2 DEF Counted
<1>3. CASE \E r \in Request : Asks(r)
  <2>1. PICK r \in Request : Asks(r)
    BY <1>3
  <2>2. Staged' /\ given' = given
    BY <2>1, AskServes, ServeStep DEF Serves
  <2> QED BY <2>1, <2>2, AskTraced, AskCounted, AskTimed
<1>4. CASE Clear
  <2>1. Staged' /\ UNCHANGED <<given, derived, stage, routes, req>> /\ hits' \subseteq hits
    BY <1>4, ServeStep DEF Serves, Clear
  <2> QED BY <1>4, <2>1, TracedFrame, CountedFrame, ClearTimed
<1>5. CASE Tick
  <2>1. Staged' /\ UNCHANGED <<given, derived, stage, routes, req, hits>>
    BY <1>5, ServeStep DEF Serves, Tick
  <2> QED BY <1>5, <2>1, TracedFrame, CountedFrame, TickTimed
<1>6. CASE UNCHANGED vars
  <2>1. UNCHANGED <<given, derived, stage, routes, clock, hits, held, req>>
    BY <1>6 DEF vars
  <2>2. Staged'
    BY <2>1 DEF Staged
  <2> QED BY <2>1, <2>2, TracedFrame, CountedFrame, TimedFrame
<1> QED BY <1>1, <1>2, <1>3, <1>4, <1>5, <1>6, NextCases

LEMMA SpecKept == Spec => []Kept
BY InitKept, NextKept, PTL DEF Spec

\* Settings are as the stage promises, requests as they were sent and relayed,
\* counters as the requests were, times as old as the timeout and the store
\* allow (Settings, create_app, get_cached_time and the rate limiter).
THEOREM Invariance == Spec => []IInv
<1>1. Kept => IInv
  BY DEF Kept
<1> QED BY <1>1, SpecKept, PTL

LEMMA KeyOfAddress ==
  ASSUME NEW q, KeyOf(q)[1] = "ip"
  PROVE  KeyOf(q) = <<"ip", LimitedClient(ScopeClient(Chain(q.offer)[Len(q.offer.via) + 1], q.headers,
                                                      given.forwarded_allow_ips), q.headers)>>
<1> DEFINE address == <<"ip", LimitedClient(ScopeClient(Chain(q.offer)[Len(q.offer.via) + 1], q.headers,
                                                       given.forwarded_allow_ips), q.headers)>>
           authorization == q.offer.authorization
<1>1. KeyOf(q) = address \/ KeyOf(q) = <<"authorization", authorization.token>>
      \/ KeyOf(q) = <<"authorization", authorization.scheme, authorization.token>>
  BY DEF KeyOf, RateLimitKey
<1> HIDE DEF address
<1>2. KeyOf(q) = address
  BY <1>1
<1> QED BY <1>2 DEF address

\* The client a request counts for is the last on its way that is not one of
\* the operator's proxies, whatever it writes into the headers, as long as those
\* proxies write what KeyIsReal asks of them (_build_rate_limit_key,
\* get_forwarded_client_ip).
THEOREM KeyIsRealHolds == Spec => []KeyIsReal
<1>1. ASSUME Kept PROVE KeyIsReal
  <2> DEFINE allowed == given.forwarded_allow_ips
             proxies == Proxies(given)
  <2> SUFFICES ASSUME NEW h \in hits, h[2][1] = "ip", allowed \subseteq proxies,
                      given.proxy.trust_proxy_headers =>
                        \E i \in 1..Len(given.proxy.proxy_headers) :
                            given.proxy.proxy_headers[i] = "x-forwarded-for",
                      NEW i \in 1..Len(Chain(req[h[3]].offer)),
                      Chain(req[h[3]].offer)[i] \notin proxies,
                      Vouched(given, Chain(req[h[3]].offer), i, Len(Chain(req[h[3]].offer)))
               PROVE  h[2] = <<"ip", Chain(req[h[3]].offer)[i]>>
    BY DEF KeyIsReal
  <2> DEFINE q == req[h[3]]
             o == q.offer
  <2>1. /\ h[3] \in Request /\ q.pc # "unsent" /\ q.hop = Len(o.via)
        /\ h = <<derived.rate_limit_storage_url, KeyOf(q), h[3]>>
    BY <1>1 DEF Kept, IInv, Counted
  <2> DEFINE c == Chain(o)
             n == Len(o.via)
             peer == c[n + 1]
  <2>2. /\ o \in Offered(h[3], given) /\ q.headers \in Headers
        /\ \A x \in 1..n : Vouched(given, c, x, n + 1) => Vouches(given, q.headers, c[x])
    BY <1>1, <2>1 DEF Kept, IInv, Traced, TracedRequest
  <2>3. o.client \in Address /\ o.via \in Seq(Address)
    BY <1>1, <2>1, <2>2, OfferAssumption DEF Kept
  <2>4. given.proxy.proxy_headers \in Seq(STRING)
    BY <1>1, EnvironmentAssumption DEF Kept
  <2>5. h[2] = KeyOf(q)
    BY <2>1
  <2>6. h[2] = <<"ip", LimitedClient(ScopeClient(Chain(o)[Len(o.via) + 1], q.headers, allowed), q.headers)>>
    BY <2>5, KeyOfAddress
  <2>7. LimitedClient(ScopeClient(peer, q.headers, allowed), q.headers) = c[i]
    <3>1. c \in Seq(Address) /\ Len(c) = n + 1 /\ n \in Nat
      BY <2>3, ChainType
    <3>2. i \in 1..(n + 1) /\ c[i] \notin proxies /\ Vouched(given, c, i, n + 1)
      BY <3>1
    <3> HIDE DEF c, n
    <3>3. peer \in Address /\ c[i] \in Address
      BY <3>1, <3>2
    <3>4. peer = c[i] \/ (peer \in proxies /\ Vouches(given, q.headers, c[i]))
      <4>1. CASE i = n + 1
        BY <4>1
      <4>2. CASE i # n + 1
        <5>1. i \in 1..n /\ n + 1 \in (i + 1)..(n + 1)
          BY <3>1, <3>2, <4>2
        <5>2. peer \in proxies
          BY <3>2, <5>1 DEF Vouched
        <5> QED BY <2>2, <3>2, <5>1, <5>2
      <4> QED BY <4>1, <4>2
    <3> HIDE DEF peer, q
    <3> QED BY <2>2, <2>4, <3>2, <3>3, <3>4, StrangerCounts
  <2> QED BY <2>6, <2>7
<1> QED BY <1>1, SpecKept, PTL

\* No answer tells a time older than the lifetime of the cache and the delays
\* of Redis allow (get_cached_time, RedisCacheStore, TimeoutMiddleware).
THEOREM CachedTimeFreshHolds == Spec => []CachedTimeFresh
<1>1. Kept => CachedTimeFresh
  BY DEF Kept, IInv, Timed, TimedRequest, CachedTimeFresh
<1> QED BY <1>1, SpecKept, PTL

\* A service that is up queries the database its migrations run against
\* (_resolve_database_defaults).
THEOREM MigrationsReachRuntimeHolds == Spec => []MigrationsReachRuntime
<1>1. Kept => MigrationsReachRuntime
  <2> SUFFICES ASSUME Staged, stage = "serving"
               PROVE  /\ given.database.alembic_url = NoUrl =>
                            derived.alembic_database_url.at = derived.database_url.at
                      /\ given.database.url # NoUrl => derived.database_url = given.database.url
    BY DEF Kept, IInv, MigrationsReachRuntime
  <2>1. /\ derived.database_url = DatabaseUrl(given.database)
        /\ derived.alembic_database_url = AlembicUrl(given.database)
        /\ derived.alembic_database_url # NoUrl
    BY DEF Staged
  <2>2. ASSUME NEW url, DerivedAlembicUrl(url) # NoUrl
        PROVE  DerivedAlembicUrl(url).at = url.at
    BY <2>2 DEF DerivedAlembicUrl
  <2> QED BY <2>1, <2>2 DEF AlembicUrl, DatabaseUrl
<1> QED BY <1>1, SpecKept, PTL

\* Clearing the cache takes rate-limit counters with it only if both are in one
\* database by what the operator named or left (RedisCacheStore.clear).
THEOREM CountersSurviveClearHolds == Spec => CountersSurviveClear
<1>1. Kept /\ [Next]_vars => [hits \subseteq hits' \/ SharesDatabase(given)]_vars
  <2> SUFFICES ASSUME Kept, [Next]_vars PROVE hits \subseteq hits' \/ SharesDatabase(given)
    OBVIOUS
  <2>1. CASE SettingsNext /\ UNCHANGED <<routes, clock, hits, held, req>>
    BY <2>1
  <2>2. CASE Creates
    BY <2>2, CreateStep DEF Kept, IInv
  <2>3. CASE \E r \in Request : Asks(r)
    BY <2>3 DEF Asks, Send, Relay, Admit, Hit, Answer, Authorize, LiveTime, MemoryTime, Get,
       GetReplied, SetEx, Disconnect, Timeout
  <2>4. CASE Clear
    <3>1. CASE ~ Redis \/ \A h \in hits : h[1] # derived.cache_storage_url
      BY <2>4, <3>1 DEF Clear
    <3>2. CASE Redis /\ \E h \in hits : h[1] = derived.cache_storage_url
      <4>1. stage = "serving"
        BY <2>4 DEF Clear
      <4>2. /\ derived.cache_storage_url = CacheUrl(given)
            /\ derived.rate_limit_storage_url = RateLimitUrl(given)
        BY <4>1 DEF Kept, IInv, Staged, Building
      <4>3. RateLimitUrl(given) = CacheUrl(given)
        BY <3>2, <4>2 DEF Kept, IInv, Counted
      <4>4. given.redis.host # ""
        BY EnvironmentAssumption DEF Kept
      <4> DEFINE e == given
                 cacheAt == IF e.cache.storage_url # NoRedis THEN e.cache.storage_url
                            ELSE [host |-> e.redis.host, db |-> e.cache.redis_db]
                 limiterAt == IF e.rate_limit.storage_url # NoRedis THEN e.rate_limit.storage_url
                              ELSE [host |-> e.redis.host, db |-> e.redis.db]
      <4>5. CacheUrl(e) = cacheAt
        BY <3>2 DEF CacheUrl, RedisUrl, Redis
      <4>6. CacheUrl(e) # NoRedis
        <5>1. CASE e.cache.storage_url # NoRedis
          BY <4>5, <5>1
        <5>2. CASE e.cache.storage_url = NoRedis
          <6>1. CacheUrl(e).host = e.redis.host
            BY <4>5, <5>2
          <6>2. NoRedis.host = ""
            BY DEF NoRedis
          <6> QED BY <4>4, <6>1, <6>2
        <5> QED BY <5>1, <5>2
      <4>7. RateLimitUrl(e) \in {limiterAt, NoRedis}
        BY DEF RateLimitUrl, RedisUrl
      <4>8. limiterAt = cacheAt
        BY <4>3, <4>5, <4>6, <4>7
      <4> QED BY <4>8 DEF SharesDatabase
    <3> QED BY <3>1, <3>2
  <2>5. CASE Tick
    BY <2>5 DEF Tick
  <2>6. CASE UNCHANGED vars
    BY <2>6 DEF vars
  <2> QED BY <2>1, <2>2, <2>3, <2>4, <2>5, <2>6, NextCases
<1> QED BY <1>1, SpecKept, PTL DEF Spec, CountersSurviveClear

\* Nobody gets a 200 from a protected endpoint but with a token signed, meant
\* and granted as the settings demand (_validate_auth_settings, JWTAuthService).
THEOREM TokenDulyHolds == Spec => []TokenDuly
<1>1. ASSUME Kept, NEW r \in Request,
             req[r].status = 200, EndpointAt(req[r].offer.path) \in DOMAIN Required
      PROVE  LET a == given.auth
                 o == req[r].offer
                 c == Claims[o.authorization.token]
             IN /\ a.enabled
                /\ CASE c.signer = "secret" -> a.jwt_secret >= 32
                     [] c.signer = "public_key" -> a.jwt_public_key # ""
                     [] c.signer = "provider" -> a.jwks_url = "https"
                     [] OTHER -> FALSE
                /\ c.signer = "secret" <=> Family[c.alg] = "HS"
                /\ c.exp # "past" /\ (a.require_exp => c.exp = "ahead")
                /\ a.require_issuer => c.iss = a.jwt_issuer /\ c.iss # ""
                /\ a.require_audience => a.jwt_audience \in c.aud /\ a.jwt_audience # ""
                /\ EndpointAt(o.path) = "reports" =>
                    "reports:read" \in c.scope.names \cup c.scp.names
                /\ EndpointAt(o.path) = "admin" => "admin" \in c.roles.names
  <2> DEFINE a == given.auth
             o == req[r].offer
             c == Claims[o.authorization.token]
             e == EndpointAt(o.path)
  <2>1. TracedRequest(r, req[r])
    BY <1>1 DEF Kept, IInv, Traced
  <2>2. stage = "serving"
    BY <1>1, <2>1 DEF TracedRequest
  <2>3. AuthAccepted(a)
    BY <1>1, <2>2 DEF Kept, IInv, Staged, Building
  <2>4. PICK listed \in BOOLEAN : Verdict(a, e, o.authorization, listed) = 200
    BY <1>1, <2>1 DEF TracedRequest
  <2>5. a.enabled /\ Decoded(a, c) /\ Allowed(e, c)
    BY <2>4 DEF Verdict
  <2> HIDE DEF a, c, e
  <2>6. c.alg \in a.jwt_algorithms /\ c.signer = ResolvedKey(a)
    BY <2>5 DEF Decoded
  <2>7. PICK f : /\ \A alg \in a.jwt_algorithms : Family[alg] = f
                 /\ KeyMaterialAccepted(a, f = "HS")
    BY <2>3, <2>5 DEF AuthAccepted
  <2>8. a.jwks_url \in {"", "https"} /\ c.alg \in DOMAIN Family /\ Family[c.alg] = f
    BY <2>3, <2>5, <2>6, <2>7 DEF AuthAccepted
  <2>9. /\ CASE c.signer = "secret" -> a.jwt_secret >= 32
             [] c.signer = "public_key" -> a.jwt_public_key # ""
             [] c.signer = "provider" -> a.jwks_url = "https"
             [] OTHER -> FALSE
        /\ c.signer = "secret" <=> Family[c.alg] = "HS"
    <3>1. CASE f = "HS"
      <4>1. a.jwt_secret >= 32 /\ a.jwt_public_key = "" /\ a.jwks_url = ""
        BY <2>7, <3>1 DEF KeyMaterialAccepted
      <4>2. c.signer = "secret"
        BY <2>6, <2>8, <3>1, <4>1 DEF ResolvedKey
      <4> QED BY <2>8, <3>1, <4>1, <4>2
    <3>2. CASE f # "HS"
      <4>1. a.jwks_url # "" \/ a.jwt_public_key # ""
        BY <2>7, <3>2 DEF KeyMaterialAccepted
      <4>2. \/ c.signer = "provider" /\ a.jwks_url = "https"
            \/ c.signer = "public_key" /\ a.jwt_public_key # ""
        BY <2>6, <2>8, <4>1 DEF ResolvedKey
      <4> QED BY <2>8, <3>2, <4>2
    <3> QED BY <3>1, <3>2
  <2>10. c.exp # "past" /\ (a.require_exp => c.exp = "ahead")
    BY <2>5 DEF Decoded
  <2>11. /\ a.require_issuer => c.iss = a.jwt_issuer /\ c.iss # ""
         /\ a.require_audience => a.jwt_audience \in c.aud /\ a.jwt_audience # ""
    BY <2>3, <2>5 DEF Decoded, AuthAccepted, ClaimRequirementsAccepted
  <2>12. e = "reports" => "reports:read" \in c.scope.names \cup c.scp.names
    <3>1. Opaque # "reports:read"
      BY OpaqueAssumption DEF Required
    <3> QED BY <2>5, <3>1 DEF Allowed, Required, Scopes, NormalizedScopes
  <2>13. e = "admin" => "admin" \in c.roles.names
    BY <2>5 DEF Allowed, Required, Roles, NormalizedRoles
  <2> QED BY <2>5, <2>9, <2>10, <2>11, <2>12, <2>13 DEF a, c, e
<1>2. Kept => TokenDuly
  BY <1>1 DEF TokenDuly
<1> QED BY <1>2, SpecKept, PTL

----------------------------------------------------------------------------
(* Routes and probes                                                       *)

\* What the first route that matches says, if its place is known.
LEMMA FirstMatchAt ==
  ASSUME NEW S, NEW rs \in Seq(S), NEW path, NEW n \in 1..Len(rs),
         rs[n].path = path, \A i \in 1..(n - 1) : rs[i].path # path
  PROVE  FirstMatch(rs, path) = rs[n].endpoint
<1> DEFINE matches == {i \in 1..Len(rs) : rs[i].path = path}
<1>1. Len(rs) \in Nat
  OBVIOUS
<1>2. n \in matches
  OBVIOUS
<1>3. \A i \in matches : n <= i
  <2> SUFFICES ASSUME NEW i \in matches, ~ n <= i PROVE FALSE
    OBVIOUS
  <2>1. i \in 1..Len(rs) /\ rs[i].path = path
    OBVIOUS
  <2>2. i \in 1..(n - 1)
    BY <1>1, <2>1
  <2> QED BY <2>1, <2>2
<1>4. FirstMatch(rs, path) =
        IF matches = {} THEN "none" ELSE rs[CHOOSE i \in matches : \A j \in matches : i <= j].endpoint
  BY DEF FirstMatch
<1>5. matches \subseteq Nat
  BY <1>1
<1> HIDE DEF matches
<1>6. (CHOOSE i \in matches : \A j \in matches : i <= j) = n
  <2> DEFINE c == CHOOSE i \in matches : \A j \in matches : i <= j
  <2>1. c \in matches /\ \A j \in matches : c <= j
    BY <1>2, <1>3
  <2> HIDE DEF c
  <2>2. c = n
    BY <1>2, <1>3, <1>5, <2>1
  <2> QED BY <2>2 DEF c
<1> QED BY <1>2, <1>4, <1>6

\* What comes in front keeps its place.
LEMMA Leading ==
  ASSUME NEW S, NEW a \in Seq(S), NEW b \in Seq(S)
  PROVE  /\ a \o b \in Seq(S)
         /\ Len(a \o b) >= Len(a)
         /\ \A i \in 1..Len(a) : (a \o b)[i] = a[i]
<1>1. Len(a) \in Nat /\ Len(b) \in Nat
  OBVIOUS
<1>2. \A i \in 1..Len(a) : i \in 1..(Len(a) + Len(b)) /\ i <= Len(a)
  BY <1>1
<1> QED BY <1>1, <1>2, ConcatProperties

\* What comes behind is moved by what is in front of it.
LEMMA Following ==
  ASSUME NEW S, NEW a \in Seq(S), NEW b \in Seq(S), NEW i \in 1..Len(b)
  PROVE  /\ Len(a) + i \in 1..Len(a \o b)
         /\ (a \o b)[Len(a) + i] = b[i]
<1>1. Len(a) \in Nat /\ Len(b) \in Nat
  OBVIOUS
<1>2. Len(a) + i \in 1..(Len(a) + Len(b)) /\ ~ Len(a) + i <= Len(a) /\ (Len(a) + i) - Len(a) = i
  BY <1>1
<1>3. Len(a \o b) = Len(a) + Len(b)
  BY ConcatProperties
<1>4. (a \o b)[Len(a) + i] = b[(Len(a) + i) - Len(a)]
  BY <1>2, ConcatProperties
<1> QED BY <1>2, <1>3, <1>4

FrontPaths == {"/openapi.json", "/docs", "/docs/oauth2-redirect", "/redoc", "/metrics"}

Endpoints == {"openapi", "docs", "oauth2", "redoc", "metrics", "root", "health", "ready", "favicon", "info",
              "endpoints", "me", "reports", "admin", "cached_time"}

RoutesOver(paths) == [path : paths, endpoint : Endpoints]

\* All that the application serves.
Served(p) ==
  RoutesOver(FrontPaths
    \cup {"/", "/favicon.ico", "/info", "/endpoints", "/api/v1/me", "/api/v1/reports",
          "/api/v1/admin", "/api/v1/cached-time"}
    \cup {p.health_check_path, p.readiness_check_path})

LEMMA RouteType ==
  ASSUME NEW P, NEW path \in P, NEW endpoint \in Endpoints, NEW enabled
  PROVE  /\ Route(path, endpoint) \in Seq(RoutesOver(P))
         /\ When(enabled, Route(path, endpoint)) \in Seq(RoutesOver(P))
<1> DEFINE e == [path |-> path, endpoint |-> endpoint]
           S == RoutesOver(P)
<1>1. e \in S
  BY DEF RoutesOver
<1>2. Route(path, endpoint) = <<e>>
  BY DEF Route
<1>3. When(enabled, Route(path, endpoint)) \in {Route(path, endpoint), <<>>}
  BY DEF When
<1> HIDE DEF e, S
<1>4. <<e>> \in Seq(S) /\ <<>> \in Seq(S)
  BY <1>1
<1> QED BY <1>2, <1>3, <1>4 DEF S

\* The routes that are there before those of the probes.
LEMMA FrontRoutes == DocRoutes \o MetricRoutes \in Seq(RoutesOver(FrontPaths))
<1> DEFINE T == RoutesOver(FrontPaths)
           w1 == Route("/openapi.json", "openapi")
           w2 == When(given.app.docs_enabled, Route("/docs", "docs"))
           w3 == When(given.app.docs_enabled, Route("/docs/oauth2-redirect", "oauth2"))
           w4 == When(given.app.redoc_enabled, Route("/redoc", "redoc"))
<1>1. /\ w1 \in Seq(T) /\ w2 \in Seq(T) /\ w3 \in Seq(T) /\ w4 \in Seq(T)
      /\ MetricRoutes \in Seq(T)
  BY RouteType DEF FrontPaths, Endpoints, MetricRoutes
<1>2. w1 \o w2 \o w3 \o w4 \in Seq(T)
  <2> HIDE DEF w1, w2, w3, w4, T
  <2> QED BY <1>1, ConcatProperties
<1>3. DocRoutes = IF given.app.openapi_enabled THEN w1 \o w2 \o w3 \o w4 ELSE <<>>
  BY DEF DocRoutes, When
<1> HIDE DEF w1, w2, w3, w4, T
<1>4. DocRoutes \in Seq(T)
  BY <1>2, <1>3
<1>5. DocRoutes \o MetricRoutes \in Seq(T)
  BY <1>1, <1>4, ConcatProperties
<1> QED BY <1>5 DEF T

\* The root comes first among the health router's routes, then the two probes.
LEMMA HealthRoutesLead ==
  ASSUME NEW p
  PROVE  LET h == HealthRoutes(p)
         IN /\ h \in Seq(Served(p)) /\ Len(h) >= 3
            /\ h[1] = [path |-> "/", endpoint |-> "root"]
            /\ h[2] = [path |-> p.health_check_path, endpoint |-> "health"]
            /\ h[3] = [path |-> p.readiness_check_path, endpoint |-> "ready"]
<1> DEFINE S == Served(p)
           r1 == [path |-> "/", endpoint |-> "root"]
           r2 == [path |-> p.health_check_path, endpoint |-> "health"]
           r3 == [path |-> p.readiness_check_path, endpoint |-> "ready"]
           a == Route("/", "root") \o Route(p.health_check_path, "health")
                \o Route(p.readiness_check_path, "ready")
           w1 == Route("/favicon.ico", "favicon")
           w2 == When(p.info_endpoint_enabled, Route("/info", "info"))
           w3 == When(p.endpoints_listing_enabled, Route("/endpoints", "endpoints"))
<1>1. a = <<r1>> \o <<r2>> \o <<r3>>
  BY DEF Route
<1>2. w1 \in Seq(S) /\ w2 \in Seq(S) /\ w3 \in Seq(S)
  BY RouteType DEF Served, Endpoints
<1>3. /\ a \in Seq(S) /\ Len(a) = 3
      /\ a[1] = r1 /\ a[2] = r2 /\ a[3] = r3
  <2>1. r1 \in S /\ r2 \in S /\ r3 \in S
    BY DEF Served, RoutesOver, Endpoints
  <2> HIDE DEF a, r1, r2, r3, S
  <2> DEFINE b == <<r1>> \o <<r2>>
  <2>2. /\ <<r1>> \in Seq(S) /\ <<r2>> \in Seq(S) /\ <<r3>> \in Seq(S)
        /\ Len(<<r1>>) = 1 /\ Len(<<r2>>) = 1 /\ Len(<<r3>>) = 1
    BY <2>1
  <2>3. b \in Seq(S) /\ Len(b) = 2 /\ b[1] = r1 /\ b[2] = r2
    BY <2>2, ConcatProperties
  <2>4. a = b \o <<r3>>
    BY <1>1
  <2> HIDE DEF b
  <2>5. a \in Seq(S) /\ Len(a) = 3 /\ a[1] = b[1] /\ a[2] = b[2] /\ a[3] = r3
    BY <2>2, <2>3, <2>4, ConcatProperties
  <2> QED BY <2>3, <2>5
<1>4. HealthRoutes(p) = a \o w1 \o w2 \o w3
  BY DEF HealthRoutes
<1> HIDE DEF a, w1, w2, w3, S, r1, r2, r3
<1>5. /\ a \o w1 \in Seq(S) /\ Len(a \o w1) >= 3
      /\ \A i \in 1..3 : (a \o w1)[i] = a[i]
  <2>1. /\ a \o w1 \in Seq(S) /\ Len(a \o w1) >= Len(a)
        /\ \A i \in 1..Len(a) : (a \o w1)[i] = a[i]
    BY <1>2, <1>3, Leading
  <2> QED BY <1>3, <2>1
<1> DEFINE b == a \o w1
<1>6. b \in Seq(S) /\ Len(b) \in Nat /\ Len(b) >= 3 /\ \A i \in 1..3 : b[i] = a[i]
  BY <1>5
<1> HIDE DEF b
<1>7. /\ b \o w2 \in Seq(S) /\ Len(b \o w2) >= 3
      /\ \A i \in 1..3 : (b \o w2)[i] = b[i]
  BY <1>2, <1>6, Leading
<1> DEFINE d == b \o w2
<1>8. d \in Seq(S) /\ Len(d) \in Nat /\ Len(d) >= 3 /\ \A i \in 1..3 : d[i] = a[i]
  BY <1>6, <1>7
<1> HIDE DEF d
<1>9. /\ d \o w3 \in Seq(S) /\ Len(d \o w3) >= 3
      /\ \A i \in 1..3 : (d \o w3)[i] = d[i]
  BY <1>2, <1>8, Leading
<1>10. HealthRoutes(p) = d \o w3
  BY <1>4 DEF b, d
<1>11. 1 \in 1..3 /\ 2 \in 1..3 /\ 3 \in 1..3
  OBVIOUS
<1>12. HealthRoutes(p)[1] = r1 /\ HealthRoutes(p)[2] = r2 /\ HealthRoutes(p)[3] = r3
  BY <1>3, <1>8, <1>9, <1>10, <1>11
<1> QED BY <1>9, <1>10, <1>12 DEF S, r1, r2, r3

\* The probe at its path finds its endpoint, unless the path is taken before it.
LEMMA ProbesFound ==
  ASSUME PathsAccepted(given.paths),
         routes = DocRoutes \o MetricRoutes \o HealthRoutes(given.paths) \o ApiRoutes,
         NEW path, path \notin FrontPaths \cup {"/"}
  PROVE  /\ path = given.paths.health_check_path => EndpointAt(path) = "health"
         /\ path = given.paths.readiness_check_path => EndpointAt(path) = "ready"
<1> DEFINE p == given.paths
           S == Served(p)
           T == RoutesOver(FrontPaths)
           f == DocRoutes \o MetricRoutes
           h == HealthRoutes(p)
           z == ApiRoutes
           n == Len(f)
<1>1. f \in Seq(T) /\ T \subseteq S /\ n \in Nat
  <2>1. f \in Seq(T)
    BY FrontRoutes
  <2>2. T \subseteq S
    BY DEF RoutesOver, Served
  <2> QED BY <2>1, <2>2
<1>2. f \in Seq(S) /\ \A i \in 1..n : f[i].path # path
  <2>1. \A i \in 1..n : f[i] \in T
    <3> HIDE DEF f, T
    <3> QED BY <1>1
  <2>2. f \in Seq(S)
    <3> HIDE DEF f, T, S
    <3> QED BY <1>1
  <2> QED BY <2>1, <2>2 DEF RoutesOver
<1>3. /\ h \in Seq(S) /\ Len(h) >= 3
      /\ h[1] = [path |-> "/", endpoint |-> "root"]
      /\ h[2] = [path |-> p.health_check_path, endpoint |-> "health"]
      /\ h[3] = [path |-> p.readiness_check_path, endpoint |-> "ready"]
  BY HealthRoutesLead
<1>4. z \in Seq(S)
  <2> DEFINE a == Route("/api/v1/me", "me")
             b == Route("/api/v1/reports", "reports")
             c == Route("/api/v1/admin", "admin")
             d == Route("/api/v1/cached-time", "cached_time")
  <2>1. a \in Seq(S) /\ b \in Seq(S) /\ c \in Seq(S) /\ d \in Seq(S)
    BY RouteType DEF Served, Endpoints
  <2>2. z = a \o b \o c \o d
    BY DEF ApiRoutes
  <2> HIDE DEF a, b, c, d, S, z
  <2> QED BY <2>1, <2>2, ConcatProperties
<1>5. p.health_check_path # p.readiness_check_path
  BY DEF PathsAccepted
<1>6. routes = (f \o h) \o z
  OBVIOUS
<1> HIDE DEF f, h, z, n, S
<1> DEFINE g == f \o h
<1>7. /\ g \in Seq(S) /\ Len(g) \in Nat /\ Len(g) >= n + 3
      /\ \A i \in 1..n : g[i] = f[i]
      /\ g[n + 1] = h[1] /\ g[n + 2] = h[2] /\ g[n + 3] = h[3]
  <2>1. Len(h) \in Nat /\ 1 \in 1..Len(h) /\ 2 \in 1..Len(h) /\ 3 \in 1..Len(h)
    BY <1>3
  <2>2. /\ g \in Seq(S) /\ \A i \in 1..n : g[i] = f[i]
    BY <1>2, <1>3, Leading DEF n
  <2>3. n + 1 \in 1..Len(g) /\ g[n + 1] = h[1]
    BY <1>2, <1>3, <2>1, Following DEF n
  <2>4. n + 2 \in 1..Len(g) /\ g[n + 2] = h[2]
    BY <1>2, <1>3, <2>1, Following DEF n
  <2>5. n + 3 \in 1..Len(g) /\ g[n + 3] = h[3]
    BY <1>2, <1>3, <2>1, Following DEF n
  <2>6. Len(g) \in Nat
    BY <2>2
  <2> HIDE DEF g
  <2> QED BY <1>1, <2>2, <2>3, <2>4, <2>5, <2>6
<1> HIDE DEF g
<1>8. /\ routes \in Seq(S) /\ Len(routes) \in Nat /\ Len(routes) >= Len(g)
      /\ \A i \in 1..Len(g) : routes[i] = g[i]
  <2>1. /\ g \o z \in Seq(S) /\ Len(g \o z) >= Len(g)
        /\ \A i \in 1..Len(g) : (g \o z)[i] = g[i]
    BY <1>4, <1>7, Leading
  <2>2. routes = g \o z
    BY <1>6 DEF g
  <2>3. Len(g \o z) \in Nat
    BY <2>1
  <2> QED BY <2>1, <2>2, <2>3
<1>9. /\ \A i \in 1..n : routes[i].path # path
      /\ routes[n + 1] = h[1] /\ routes[n + 2] = h[2] /\ routes[n + 3] = h[3]
      /\ n + 2 \in 1..Len(routes) /\ n + 3 \in 1..Len(routes)
  <2>1. /\ \A i \in 1..n : i \in 1..Len(g)
        /\ n + 1 \in 1..Len(g) /\ n + 2 \in 1..Len(g) /\ n + 3 \in 1..Len(g)
        /\ n + 2 \in 1..Len(routes) /\ n + 3 \in 1..Len(routes)
    BY <1>1, <1>7, <1>8
  <2> QED BY <1>2, <1>7, <1>8, <2>1
<1>10. routes[n + 1].path # path
  BY <1>3, <1>9
<1>11. \A i \in 1..((n + 2) - 1) : routes[i].path # path
  <2>1. \A i \in 1..((n + 2) - 1) : i \in 1..n \/ i = n + 1
    BY <1>1
  <2> QED BY <1>9, <1>10, <2>1
<1>12. ASSUME path = p.health_check_path PROVE EndpointAt(path) = "health"
  <2>1. routes[n + 2].path = path /\ routes[n + 2].endpoint = "health"
    BY <1>3, <1>9, <1>12
  <2>2. FirstMatch(routes, path) = routes[n + 2].endpoint
    <3> DEFINE k == n + 2
    <3>1. k \in 1..Len(routes) /\ routes[k].path = path /\ \A i \in 1..(k - 1) : routes[i].path # path
      BY <1>9, <1>11, <2>1
    <3> HIDE DEF k, p
    <3>2. FirstMatch(routes, path) = routes[k].endpoint
      BY <1>8, <3>1, FirstMatchAt
    <3> QED BY <3>2 DEF k
  <2> QED BY <2>1, <2>2 DEF EndpointAt
<1>13. ASSUME path = p.readiness_check_path PROVE EndpointAt(path) = "ready"
  <2>1. routes[n + 3].path = path /\ routes[n + 3].endpoint = "ready"
    BY <1>3, <1>9, <1>13
  <2>2. routes[n + 2].path # path
    BY <1>3, <1>5, <1>9, <1>13
  <2>3. \A i \in 1..((n + 3) - 1) : routes[i].path # path
    <3>1. \A i \in 1..((n + 3) - 1) : i \in 1..((n + 2) - 1) \/ i = n + 2
      BY <1>1
    <3> QED BY <1>11, <2>2, <3>1
  <2>4. FirstMatch(routes, path) = routes[n + 3].endpoint
    <3> DEFINE k == n + 3
    <3>1. k \in 1..Len(routes) /\ routes[k].path = path /\ \A i \in 1..(k - 1) : routes[i].path # path
      BY <1>9, <2>1, <2>3
    <3> HIDE DEF k, p
    <3>2. FirstMatch(routes, path) = routes[k].endpoint
      BY <1>8, <3>1, FirstMatchAt
    <3> QED BY <3>2 DEF k
  <2> QED BY <2>1, <2>4 DEF EndpointAt
<1> QED BY <1>12, <1>13

\* What answers a request whose path is not counted: its endpoint or its timeout.
LEMMA ProbeAsk ==
  ASSUME Traced, NEW r \in Request, ProbeRequest(req[r]), Asks(r)
  PROVE  \E next : Progress(r, next) /\ ProbeRequest(next)
<1> DEFINE q == req[r]
           e == EndpointAt(q.offer.path)
<1>1. TracedRequest(r, q)
  BY DEF Traced
<1>2. ASSUME NEW next, next.pc # "done" PROVE ProbeRequest(next)
  BY <1>2 DEF ProbeRequest
<1>3. ASSUME NEW status, e \notin {"health", "ready"} PROVE ProbeRequest(Done(q, status))
  BY <1>1, <1>3, DoneFields DEF ProbeRequest
<1>4. ASSUME NEW time, e \notin {"health", "ready"} PROVE ProbeRequest(Told(q, time))
  BY <1>1, <1>4, ToldFields DEF ProbeRequest
<1>5. ProbeRequest(Done(q, 504))
  BY <1>1, DoneFields DEF ProbeRequest
<1>6. ASSUME NEW o PROVE [q EXCEPT !.pc = "travelling", !.offer = o, !.headers = o.headers].pc # "done"
  BY <1>1 DEF TracedRequest
<1>7. CASE Send(r)
  BY <1>2, <1>6, <1>7 DEF Send
<1>8. CASE Relay(r)
  <2>1. PICK headers : Progress(r, [q EXCEPT !.hop = q.hop + 1, !.headers = headers])
    BY <1>8 DEF Relay
  <2>2. [q EXCEPT !.hop = q.hop + 1, !.headers = headers].pc # "done"
    BY <1>1, <1>8 DEF TracedRequest, Relay
  <2> QED BY <1>2, <2>1, <2>2
<1>9. [q EXCEPT !.pc = "admitted", !.since = clock].pc # "done"
  BY <1>1 DEF TracedRequest
<1>10. CASE Admit(r)
  BY <1>2, <1>9, <1>10 DEF Admit
<1>11. CASE Hit(r)
  <2>1. Progress(r, [q EXCEPT !.pc = "admitted", !.since = clock]) \/ Progress(r, Done(q, 429))
    BY <1>11 DEF Hit
  <2>2. ProbeRequest(Done(q, 429))
    BY <1>1, <1>11, DoneFields DEF Hit, Limited, ProbeRequest
  <2> QED BY <1>2, <1>9, <2>1, <2>2
<1>12. CASE Answer(r)
  <2>1. PICK a \in {"none", "openapi", "docs", "oauth2", "redoc", "metrics", "root", "health", "ready",
                 "favicon", "info", "endpoints"} :
            At(r, a) /\ \E status \in Statuses(a) : Progress(r, Done(q, status))
    BY <1>12 DEF Answer
  <2>2. PICK status \in Statuses(a) : Progress(r, Done(q, status))
    BY <2>1
  <2>3. e = a
    BY <2>1 DEF At
  <2>4. (a = "health" => status = 200) /\ (a = "ready" => status \in {200, 503})
    BY DEF Statuses
  <2>5. ProbeRequest(Done(q, status))
    BY <1>1, <2>3, <2>4, DoneFields DEF ProbeRequest
  <2> QED BY <2>2, <2>5
<1>13. CASE Authorize(r)
  <2>1. PICK a \in DOMAIN Required : At(r, a) /\ \E status : Progress(r, Done(q, status))
    BY <1>13 DEF Authorize
  <2>2. e = a /\ a \notin {"health", "ready"}
    BY <2>1 DEF At, Required
  <2>3. PICK status : Progress(r, Done(q, status))
    BY <2>1
  <2> QED BY <1>3, <2>2, <2>3
<1>14. CASE LiveTime(r) \/ MemoryTime(r)
  <2>1. e = "cached_time"
    BY <1>14 DEF LiveTime, MemoryTime, At
  <2>2. PICK time : Progress(r, Told(q, time))
    BY <1>14 DEF LiveTime, MemoryTime
  <2> QED BY <1>4, <2>1, <2>2
<1>15. CASE Get(r)
  <2>1. PICK seen : Progress(r, [q EXCEPT !.pc = "got", !.seen = seen])
    BY <1>15 DEF Get
  <2>2. [q EXCEPT !.pc = "got", !.seen = seen].pc # "done"
    BY <1>1 DEF TracedRequest
  <2> QED BY <1>2, <2>1, <2>2
<1>16. CASE GetReplied(r)
  <2>1. e = "cached_time"
    BY <1>1, <1>16 DEF GetReplied, TracedRequest
  <2>2. Progress(r, Told(q, q.seen.time)) \/ Progress(r, [q EXCEPT !.pc = "storing", !.time = clock])
    BY <1>16 DEF GetReplied
  <2>3. [q EXCEPT !.pc = "storing", !.time = clock].pc # "done"
    BY <1>1 DEF TracedRequest
  <2> QED BY <1>2, <1>4, <2>1, <2>2, <2>3
<1>17. CASE SetEx(r)
  <2>1. e = "cached_time"
    BY <1>1, <1>17 DEF SetEx, TracedRequest
  <2>2. Progress(r, Told(q, q.time)) \/ Progress(r, Done(q, q.status))
    BY <1>17 DEF SetEx
  <2> QED BY <1>3, <1>4, <2>1, <2>2
<1>18. CASE Disconnect(r)
  <2>1. e = "cached_time"
    BY <1>1, <1>18 DEF Disconnect, At, TracedRequest
  <2>2. PICK status : Progress(r, Done(q, status))
    BY <1>18 DEF Disconnect
  <2> QED BY <1>3, <2>1, <2>2
<1>19. CASE Timeout(r)
  <2>1. \/ q.pc = "storing" /\ Progress(r, [q EXCEPT !.status = 504])
        \/ Progress(r, Done(q, 504))
    BY <1>19 DEF Timeout
  <2>2. q.pc = "storing" => [q EXCEPT !.status = 504].pc # "done"
    BY <1>1 DEF TracedRequest
  <2> QED BY <1>2, <1>5, <2>1, <2>2
<1> HIDE DEF q, e
<1> QED
  BY <1>7, <1>8, <1>10, <1>11, <1>12, <1>13, <1>14, <1>15, <1>16, <1>17, <1>18, <1>19 DEF Asks

LEMMA InitProbed ==
  ASSUME Init
  PROVE  ProbeInv
BY DEF Init, SettingsInit, ProbeInv, Routed, ProbeRequest

LEMMA NextProbed ==
  ASSUME Kept, ProbeInv, [Next]_vars
  PROVE  ProbeInv'
<1> USE DEF Kept, IInv
<1>1. ASSUME UNCHANGED <<given, routes, req>> PROVE (\A r \in Request : ProbeRequest(req[r]))'
  BY <1>1 DEF ProbeInv, ProbeRequest, Exempt, EndpointAt
<1>2. ASSUME UNCHANGED <<given, routes, stage>> PROVE Routed'
  BY <1>2 DEF ProbeInv, Routed, DocRoutes, MetricRoutes
<1>3. ASSUME stage # "serving", req' = req PROVE (\A r \in Request : ProbeRequest(req[r]))'
  BY <1>3 DEF Traced, TracedRequest, ProbeRequest
<1>4. CASE SettingsNext /\ UNCHANGED <<routes, clock, hits, held, req>>
  <2>1. given' = given /\ stage # "serving"
    BY <1>4, SettingsStep
  <2>2. stage' \notin {"constructed", "logged", "measured", "serving"}
    BY <1>4 DEF SettingsNext, Call, ResolveLoggingDefaults, ResolveDatabaseDefaults, ResolveOtelDefaults,
       ResolveRateLimitStorageDefaults, ResolveCacheStorageDefaults, ResolveCspForDocs,
       ValidateAuthSettings, ValidateProxySettings, ValidateCorsCredentials, ValidateHealthPaths
  <2>3. Routed'
    BY <2>2 DEF Routed
  <2> QED BY <1>3, <1>4, <2>1, <2>3 DEF ProbeInv
<1>5. CASE Creates
  <2>1. given' = given /\ req' = req /\ stage # "serving"
    BY <1>5, CreateStep
  <2>2. DocRoutes' = DocRoutes /\ MetricRoutes' = MetricRoutes
    BY <2>1 DEF DocRoutes, MetricRoutes
  <2>3. Routed'
    BY <1>5, <2>1, <2>2 DEF ProbeInv, Routed, Creates, Construct, SetupLogging, SetupMetrics,
       SetupRoutes, Build
  <2> QED BY <1>3, <2>1, <2>3 DEF ProbeInv
<1>6. CASE \E r \in Request : Asks(r)
  <2>1. PICK r \in Request : Asks(r)
    BY <1>6
  <2>2. ProbeRequest(req[r])
    BY DEF ProbeInv
  <2>3. PICK next : Progress(r, next) /\ ProbeRequest(next)
    BY <2>1, <2>2, ProbeAsk
  <2>4. /\ UNCHANGED <<given, routes, stage>> /\ req'[r] = next
        /\ \A x \in Request : x # r => req'[x] = req[x]
    BY <2>3 DEF Progress, Traced
  <2>5. ASSUME NEW x \in Request PROVE ProbeRequest(req[x])'
    <3>1. CASE x = r
      BY <2>3, <2>4, <3>1 DEF ProbeRequest, Exempt, EndpointAt
    <3>2. CASE x # r
      <4>1. req'[x] = req[x] /\ ProbeRequest(req[x])
        BY <2>4, <3>2 DEF ProbeInv
      <4> QED BY <2>4, <4>1 DEF ProbeRequest, Exempt, EndpointAt
    <3> QED BY <3>1, <3>2
  <2> QED BY <1>2, <2>4, <2>5 DEF ProbeInv
<1>7. CASE Clear \/ Tick
  <2>1. UNCHANGED <<given, routes, stage, req>>
    BY <1>7 DEF Clear, Tick
  <2> QED BY <1>1, <1>2, <2>1 DEF ProbeInv
<1>8. CASE UNCHANGED vars
  <2>1. UNCHANGED <<given, routes, stage, req>>
    BY <1>8 DEF vars
  <2> QED BY <1>1, <1>2, <2>1 DEF ProbeInv
<1> QED BY <1>4, <1>5, <1>6, <1>7, <1>8, NextCases

\* A probe at its path finds its endpoint and is told what that answers, or that
\* it took too long, and never that it came too often (setup_routes,
\* setup_middleware, _validate_health_paths).
THEOREM ProbesAnswerHolds == Spec => []ProbesAnswer
<1>1. ASSUME Kept, ProbeInv PROVE ProbesAnswer
  <2> SUFFICES ASSUME NEW r \in Request, req[r].pc = "done",
                      req[r].offer.path \notin FrontPaths \cup {"/"}
               PROVE  LET path == req[r].offer.path
                      IN /\ path = given.paths.health_check_path =>
                            EndpointAt(path) = "health" /\ req[r].status \in {200, 504}
                         /\ path = given.paths.readiness_check_path =>
                            EndpointAt(path) = "ready" /\ req[r].status \in {200, 503, 504}
    BY DEF ProbesAnswer, FrontPaths
  <2> DEFINE path == req[r].offer.path
  <2>1. stage = "serving"
    BY <1>1 DEF Kept, IInv, Traced, TracedRequest
  <2>2. /\ PathsAccepted(given.paths)
        /\ routes = DocRoutes \o MetricRoutes \o HealthRoutes(given.paths) \o ApiRoutes
    BY <1>1, <2>1 DEF Kept, IInv, Staged, Building, ProbeInv, Routed
  <2>3. /\ path = given.paths.health_check_path => EndpointAt(path) = "health"
        /\ path = given.paths.readiness_check_path => EndpointAt(path) = "ready"
    BY <2>2, ProbesFound
  <2>4. ProbeRequest(req[r])
    BY <1>1 DEF ProbeInv
  <2> QED BY <2>3, <2>4 DEF ProbeRequest, Exempt
<1>2. Init => ProbeInv
  BY InitProbed
<1>3. Kept /\ ProbeInv /\ [Next]_vars => ProbeInv'
  BY NextProbed
<1>4. Kept /\ ProbeInv => ProbesAnswer
  BY <1>1
<1> QED BY <1>2, <1>3, <1>4, SpecKept, PTL DEF Spec
================================================================================
