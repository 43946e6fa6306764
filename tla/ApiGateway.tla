----------------------------- MODULE ApiGateway -----------------------------
(***************************************************************************)
(* What the Envoy listener does with a request: the HTTP filters of        *)
(* envoyLDS in their order.  A request is known by its route, its apikey   *)
(* header, the apikey parameters of its query in their order, and the      *)
(* credential of its authorization header; keys are the values the         *)
(* entrypoint has rendered into the filters.                               *)
(***************************************************************************)
EXTENDS ProjectCredentials

ProtectedRoutes == {"auth-v1-protected", "rest-v1-openapi-protected", "rest-v1-protected",
                    "pg-protected"}

\* The ones that are for the service role alone.
ServiceRoutes == {"rest-v1-openapi-protected", "pg-protected"}

\* "public" stands for the open routes of Auth: verify, callback, authorize,
\* JWKS, OAuth metadata, SAML.
OpenRoutes == {"internal-health", "public", "studio"}

\* No header, an authorization that is not a Bearer one, a session token that
\* Auth has signed with the key of a run, and one that nobody has signed.
Absent == Value("absent", 0)
Basic == Value("basic", 0)
UserToken(r) == Value("userJwt", r)
Unsigned == Value("unsigned", 0)

Credentials == Values \cup {Basic, Unsigned} \cup {UserToken(r) : r \in Runs}

\* What the filters look at in a request; a header may be absent.
HttpRequests == [route : ProtectedRoutes \cup OpenRoutes, preflight : BOOLEAN,
                 apikey : Credentials \cup {Absent}, query : Seq(Credentials),
                 authorization : Credentials \cup {Absent}]

\* The keys a client has put into a request.
Presented(q) == {q.apikey} \cup {q.query[i] : i \in DOMAIN q.query}

\* The first Lua filter: a key of the query becomes the header.
CopyQueryKey(q) ==
    LET given == {i \in DOMAIN q.query : q.query[i] # Empty}
    IN  IF q.route \in ProtectedRoutes /\ q.apikey = Absent /\ given # {}
          THEN [q EXCEPT !.apikey = q.query[CHOOSE i \in given : \A j \in given : i <= j]]
          ELSE q

\* The second: only the two opaque keys pass.
Admitted(q, keys) ==
    q.route \in ProtectedRoutes => q.apikey \in {keys.publishableKey, keys.secretKey}

Translate(key, keys) ==
    IF key = keys.publishableKey THEN keys.anonRoleJwt ELSE keys.serviceRoleJwt

\* The third: the first key of the query, if it is one of the two, replaces the
\* header and every key of the query.
TranslateQuery(q, keys) ==
    IF /\ q.route \in ProtectedRoutes /\ q.query # <<>>
       /\ q.query[1] \in {keys.publishableKey, keys.secretKey}
      THEN LET token == Translate(q.query[1], keys)
           IN  [q EXCEPT !.apikey = token, !.query = [i \in DOMAIN q.query |-> token]]
      ELSE q

\* The fourth: the header, on every route.
TranslateHeader(q, keys) ==
    IF q.apikey \in {keys.publishableKey, keys.secretKey}
      THEN [q EXCEPT !.apikey = Translate(q.apikey, keys)]
      ELSE q

\* genuine_bearer: three segments that do not start like an opaque key, whoever
\* has signed them.
GenuineBearer(v) == v.field \in {"userJwt", "anonRoleJwt", "serviceRoleJwt", "unsigned"}

\* The fifth: the role token becomes the bearer token unless there is one.
SynthesizeBearer(q) ==
    IF q.route \in ProtectedRoutes /\ ~GenuineBearer(q.authorization)
                                   /\ q.apikey \notin {Absent, Empty}
      THEN [q EXCEPT !.authorization = q.apikey]
      ELSE q

\* Mutant: the OpenAPI route has no policy of its own.
MutantAllowed(q, keys) ==
    CASE q.route = "pg-protected" -> q.apikey = keys.serviceRoleJwt
      [] q.route \in ProtectedRoutes \ {"pg-protected"} ->
            q.apikey \in {keys.anonRoleJwt, keys.serviceRoleJwt}
      [] q.route \in OpenRoutes -> TRUE

\* The RBAC filter and the policies of the routes.
Allowed(q, keys) ==
    CASE q.route \in {"pg-protected", "rest-v1-openapi-protected"} ->
            q.apikey = keys.serviceRoleJwt
      [] q.route \in {"auth-v1-protected", "rest-v1-protected"} ->
            q.apikey \in {keys.anonRoleJwt, keys.serviceRoleJwt}
      [] q.route \in OpenRoutes -> TRUE

\* request_headers_to_remove of the catch-all route.
RemoveHeaders(q) == IF q.route = "studio" THEN [q EXCEPT !.authorization = Absent] ELSE q

Reply(status, q) == [status |-> status, request |-> q]

\* The whole chain: a preflight is answered by the CORS filter, the health
\* route by the listener, and what is left is refused or forwarded.
Handle(q, keys) ==
    LET copied == CopyQueryKey(q)
        sent == SynthesizeBearer(TranslateHeader(TranslateQuery(copied, keys), keys))
    IN  CASE q.preflight -> Reply("preflight", q)
          [] ~q.preflight /\ ~Admitted(copied, keys) -> Reply("unauthorized", copied)
          [] ~q.preflight /\ Admitted(copied, keys) /\ ~Allowed(sent, keys) -> Reply("forbidden", sent)
          [] OTHER -> Reply(IF q.route = "internal-health" THEN "ok" ELSE "forwarded",
                            RemoveHeaders(sent))
=============================================================================
