-------------------------------- MODULE Principal --------------------------------
(***************************************************************************)
(* From a bearer token to a verdict: the key JWTAuthService picks, what    *)
(* jwt.decode makes of the token with it, the Principal its claims become  *)
(* (src/src/app/auth/service.py) and what the dependencies of a protected  *)
(* endpoint make of that (src/src/app/auth/dependencies.py).  The cache of *)
(* the provider's keys is JwksCache's subject; here a kid is listed or not.*)
(*                                                                         *)
(* A claim that carries names is a record of its JSON shape and the names: *)
(* a "text" of words, a "json" array inside a text, a "list", or "none".   *)
(***************************************************************************)
EXTENDS Settings

CONSTANTS
    Claims,  \* of each token: alg, signer, sub, exp, aud, iss, scope, scp, roles
    Opaque   \* the name a JSON array is, to who does not parse it

\* _resolve_key: the first material configured; "" where it raises.
ResolvedKey(a) ==
    CASE a.jwks_url # "" -> "provider"
      [] a.jwks_url = "" /\ a.jwt_public_key # "" -> "public_key"
      [] a.jwks_url = "" /\ a.jwt_public_key = "" /\ (\E alg \in a.jwt_algorithms \cap DOMAIN Family : Family[alg] = "HS")
            -> "secret"
      [] OTHER -> ""

\* jwt.decode, with the options authenticate_token gives it: an expiry that is
\* there is looked at whether or not it is required.
Decoded(a, c) ==
    /\ c.alg \in a.jwt_algorithms
    /\ c.signer = ResolvedKey(a)
    /\ c.sub
    /\ IF a.require_exp THEN c.exp = "ahead" ELSE c.exp # "past"
    /\ a.jwt_issuer # "" => c.iss = a.jwt_issuer
    /\ a.jwt_audience # "" => a.jwt_audience \in c.aud

\* _normalize_scopes and _normalize_roles; only roles look inside a JSON text.
NormalizedScopes(claim) == IF claim.shape = "json" THEN {Opaque} ELSE claim.names
NormalizedRoles(claim) == claim.names

\* claims.get("scope") or claims.get("scp")
Scopes(c) == NormalizedScopes(IF c.scope.names = {} THEN c.scp ELSE c.scope)
Roles(c) == NormalizedRoles(c.roles)

\* require_scopes and require_roles, as the routes of routes/api.py use them.
Required == [me |-> {}, reports |-> {"reports:read"}, admin |-> {"admin"}]

\* A JSON text is no name that an endpoint asks for.
ASSUME OpaqueAssumption == \A endpoint \in DOMAIN Required : Opaque \notin Required[endpoint]

Allowed(endpoint, c) ==
    Required[endpoint] \subseteq (IF endpoint = "admin" THEN Roles(c) ELSE Scopes(c))

\* get_optional_principal, get_current_principal and the guard of the endpoint.
Verdict(a, endpoint, authorization, listed) ==
    LET c == Claims[authorization.token]
    IN IF \/ authorization.scheme \notin {"Bearer", "bearer"}
          \/ ~a.enabled
          \/ ResolvedKey(a) = "provider" /\ ~listed
          \/ ~Decoded(a, c)
       THEN 401
       ELSE IF Allowed(endpoint, c) THEN 200 ELSE 403
================================================================================
