-------------------------------- MODULE ClientKey --------------------------------
(***************************************************************************)
(* Whose rate-limit counter a request counts in: _build_rate_limit_key     *)
(* (src/src/app/middleware/rate_limit.py) over the helpers of              *)
(* src/src/app/utils/proxy.py, behind uvicorn's --proxy-headers            *)
(* (ops/docker-entrypoint.sh).                                             *)
(*                                                                         *)
(* The headers of a request are a record: the entries of X-Forwarded-For,  *)
(* left to right, and the value of X-Real-IP.  An entry is an address or   *)
(* Garbled, what ip_address() does not parse; Absent is no header.         *)
(* X-Forwarded-For may come in several lines: the first ends with entry    *)
(* first, the last begins behind entry last.                               *)
(***************************************************************************)
EXTENDS Settings

CONSTANTS Garbled, Absent

ASSUME EntryAssumption == Garbled \notin Address /\ Absent \notin Address

Headers ==
    {h \in [forwarded : Seq(Address \cup {Garbled}), first : Nat, last : Nat,
            real_ip : Address \cup {Garbled, Absent}] :
        \/ h.first = Len(h.forwarded) /\ h.last = 0
        \/ 1 <= h.first /\ h.first <= h.last /\ h.last < Len(h.forwarded)}

\* What headers.get returns, and what is left of repeated lines in dict(headers).
FirstLine(h) == SubSeq(h.forwarded, 1, h.first)
LastLine(h) == SubSeq(h.forwarded, h.last + 1, Len(h.forwarded))

\* Where s has an entry of the set, and the rightmost of them.
Places(s, set) == {i \in 1..Len(s) : s[i] \in set}
Rightmost(s, set) == s[CHOOSE i \in Places(s, set) : \A j \in Places(s, set) : j <= i]

\* A bug: the chain is read from the client's end.
LeftmostUntrusted(s, trusted) ==
    LET strange == Places(s, Address \ trusted)
    IN IF strange = {} THEN Absent ELSE s[CHOOSE i \in strange : \A j \in strange : i <= j]

\* X-Forwarded-For: entries that are no addresses are dropped, and what is left
\* is walked from the right past the trusted proxies.
RightmostUntrusted(s, trusted) ==
    IF Places(s, Address \ trusted) = {} THEN Absent ELSE Rightmost(s, Address \ trusted)

\* What one header says of the client; Absent when it says nothing.
FromHeader(name, h, trusted) ==
    IF name = "x-forwarded-for" THEN RightmostUntrusted(FirstLine(h), trusted)
    ELSE IF h.real_ip \in Address /\ h.real_ip \notin trusted THEN h.real_ip
         ELSE Absent

\* get_forwarded_client_ip: the first header, as configured, that says something.
ForwardedClientIp(h, names, trusted) ==
    LET telling == {i \in 1..Len(names) : FromHeader(names[i], h, trusted) # Absent}
    IN IF telling = {} THEN Absent
       ELSE FromHeader(names[CHOOSE i \in telling : \A j \in telling : i <= j], h, trusted)

\* uvicorn's ProxyHeadersMiddleware: scope["client"] is the peer, or what
\* the last line of X-Forwarded-For says when the peer may say it.
ScopeClient(peer, h, allowed) ==
    LET strange == (Address \cup {Garbled}) \ allowed
        line == LastLine(h)
    IN IF peer \notin allowed \/ line = <<>> THEN peer
       ELSE IF Places(line, strange) = {} THEN line[1]
            ELSE Rightmost(line, strange)

\* The client the limiter sees: scope["client"] again, or what the configured
\* headers say when that is a trusted proxy.
LimitedClient(client, h) ==
    LET said == ForwardedClientIp(h, given.proxy.proxy_headers, given.proxy.trusted_proxies)
    IN IF /\ given.proxy.trust_proxy_headers
          /\ client \in Address /\ client \in given.proxy.trusted_proxies
          /\ said # Absent
       THEN said ELSE client

\* The Bearer scheme, in either case.
Bearer(authorization) == authorization.scheme \in {"Bearer", "bearer"}

\* _build_rate_limit_key.  A bearer token counts as the token, however its
\* scheme is spelled.
RateLimitKey(peer, h, authorization) ==
    IF given.rate_limit.key_strategy = "authorization" /\ authorization.scheme # ""
    THEN IF Bearer(authorization) THEN <<"authorization", authorization.token>>
         ELSE <<"authorization", authorization.scheme, authorization.token>>
    ELSE <<"ip", LimitedClient(ScopeClient(peer, h, given.forwarded_allow_ips), h)>>
================================================================================
