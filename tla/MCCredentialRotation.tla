------------------------ MODULE MCCredentialRotation ------------------------
(* A small instance of CredentialRotation for TLC. *)
EXTENDS CredentialRotation

Ask(route, apikey, query, authorization) ==
    [route |-> route, preflight |-> FALSE, apikey |-> apikey, query |-> query,
     authorization |-> authorization]

Publishable(r) == Value("publishableKey", r)
Secret(r) == Value("secretKey", r)

\* Keys in the header, in the query and in both, of a run that may be retired or
\* not yet in use, bearers of each kind, and the routes for the service role.
MCRequests ==
    {Ask("rest-v1-protected", k, <<>>, Absent) :
        k \in {Absent, Empty, Publishable(0), Secret(0), Publishable(1), Value("anonRoleJwt", 0)}}
    \cup {Ask("rest-v1-protected", Absent, query, UserToken(0)) :
             query \in {<<Publishable(0)>>, <<Secret(1)>>, <<Empty, Secret(0)>>}}
    \cup {Ask("rest-v1-protected", Publishable(0), <<Secret(0)>>, a) : a \in {Basic, Publishable(0), Unsigned}}
    \cup {Ask("rest-v1-openapi-protected", Publishable(0), query, Absent) : query \in {<<>>, <<Secret(0)>>}}
    \cup {Ask("pg-protected", Publishable(1), <<>>, Absent), Ask("pg-protected", Secret(1), <<>>, Publishable(1)),
          Ask("studio", Secret(0), <<>>, Basic), Ask("public", Publishable(0), <<>>, Absent),
          Ask("internal-health", Absent, <<>>, Absent),
          [Ask("rest-v1-protected", Absent, <<>>, Absent) EXCEPT !.preflight = TRUE]}
=============================================================================
