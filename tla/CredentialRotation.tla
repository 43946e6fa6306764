------------------------- MODULE CredentialRotation -------------------------
(***************************************************************************)
(* The life of a credential bundle from the wizard to the clients' calls:  *)
(* CredentialWizard fills the Secret, the operator validates it, the       *)
(* gateway renders its keys and REST reads the JWKS when their containers  *)
(* start, and the gateway (ApiGateway) handles requests all the while.     *)
(* The order in which the operator brings the bundle to the pods is the    *)
(* subject of ServiceRollout; here they may start at any time.             *)
(***************************************************************************)
EXTENDS CredentialWizard, ApiGateway

CONSTANT Requests         \* the requests the properties are about

ASSUME RequestsAssumption == Requests \subseteq HttpRequests

VARIABLES
    accepted,             \* the bundle the operator has validated last
    gateway,              \* the values the gateway has rendered
    rest                  \* the JWKS REST has read

platform == <<accepted, gateway, rest>>
vars == <<wizardVars, platform>>

Bundles == [FieldNames -> Values]

TypeOK ==
    /\ WizardTypeOK
    /\ accepted \in Bundles /\ gateway \in Bundles /\ rest \in Runs

Init ==
    /\ WizardInit
    /\ accepted = stored /\ gateway = stored /\ rest = 0

\* reconcileSecrets and the JWKS ConfigMap.
Reconcile ==
    /\ accepted # stored /\ ValidateProjectCredentials(stored)
    /\ accepted' = stored
    /\ UNCHANGED <<wizardVars, gateway, rest>>

\* The entrypoint renders the listener from the container's environment, which
\* is the Secret as it is now.
StartGateway ==
    /\ gateway # stored
    /\ gateway' = stored
    /\ UNCHANGED <<wizardVars, accepted, rest>>

StartRest ==
    /\ rest # PublicJWKS(accepted.signingKeys)
    /\ rest' = PublicJWKS(accepted.signingKeys)
    /\ UNCHANGED <<wizardVars, accepted, gateway>>

Next ==
    \/ WizardNext /\ UNCHANGED platform
    \/ Reconcile \/ StartGateway \/ StartRest

Spec == Init /\ [][Next]_vars

-----------------------------------------------------------------------------
(* Properties.                                                             *)

\* The gateway renders what is in the Secret, also when the fields are of
\* several runs because it starts in the middle of a rotation.  Still, it
\* forwards none of its opaque keys in the headers, and a protected route is
\* only called with one of its role tokens: the service token, and the routes
\* that need it, for a caller who has presented the secret key.
ForwardedAsRole ==
    (\A f \in FieldNames : WellFormed(gateway[f], f)) =>
    \A q \in Requests :
       LET reply == Handle(q, gateway)
           sent == reply.request
       IN  reply.status = "forwarded" =>
             /\ sent.apikey \notin {gateway.publishableKey, gateway.secretKey}
             /\ q.route \in ProtectedRoutes =>
                  /\ \/ sent.apikey = gateway.anonRoleJwt /\ q.route \notin ServiceRoutes
                     \/ sent.apikey = gateway.serviceRoleJwt /\ gateway.secretKey \in Presented(q)
                  /\ sent.authorization.field \notin {"publishableKey", "secretKey"}

\* Everything that uses the bundle has it.
Settled ==
    /\ accepted = stored /\ gateway = stored /\ ValidateProjectCredentials(stored)
    /\ rest = PublicJWKS(stored.signingKeys)

\* What PostgREST makes of a bearer token.
RestVerifies(token) ==
    token.field \in {"userJwt", "anonRoleJwt", "serviceRoleJwt"} /\ token.run = rest

\* Once a validated bundle is everywhere, also one whose opaque keys come from
\* another run than its signing key, REST is called with the role of the key
\* the client has, in the header or in the query, or with the client's own
\* bearer token, genuine by its looks only, for REST to verify; retired keys are
\* refused.
ServedEndToEnd ==
    Settled =>
       \A q \in Requests :
          LET reply == Handle(q, gateway)
              bearer == reply.request.authorization
          IN  q.route = "rest-v1-protected" /\ ~q.preflight =>
                /\ \A key \in {"publishableKey", "secretKey"} :
                      Presented(q) \ {Absent} = {stored[key]} =>
                         /\ reply.status = "forwarded"
                         /\ IF GenuineBearer(q.authorization)
                              THEN bearer = q.authorization
                              ELSE /\ RestVerifies(bearer)
                                   /\ bearer.field = IF key = "secretKey" THEN "serviceRoleJwt"
                                                                          ELSE "anonRoleJwt"
                /\ Presented(q) \cap {stored.publishableKey, stored.secretKey} = {} =>
                      reply.status = "unauthorized"
=============================================================================
