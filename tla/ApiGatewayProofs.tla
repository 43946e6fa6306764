-------------------------- MODULE ApiGatewayProofs --------------------------
(***************************************************************************)
(* What the filter chain of the gateway does with any request, whatever    *)
(* keys were rendered into it.                                             *)
(***************************************************************************)
EXTENDS ApiGateway, TLAPS, WellFoundedInduction

\* The values in the filters are each of the kind its field is for.
Rendered(keys) == \A f \in FieldNames : WellFormed(keys[f], f)

\* The request as it leaves the filters in front of RBAC.
Sent(q, keys) ==
    SynthesizeBearer(TranslateHeader(TranslateQuery(CopyQueryKey(q), keys), keys))

\* A request of these parts.
Req(r, p, a, s, b) ==
    [route |-> r, preflight |-> p, apikey |-> a, query |-> s, authorization |-> b]

-----------------------------------------------------------------------------
(* The filters, one by one.                                                *)

LEMMA Parts ==
    ASSUME NEW q \in HttpRequests
    PROVE  /\ q = Req(q.route, q.preflight, q.apikey, q.query, q.authorization)
           /\ q.route \in ProtectedRoutes \cup OpenRoutes /\ q.preflight \in BOOLEAN
           /\ q.query \in Seq(Credentials)
  BY DEF HttpRequests, Req

LEMMA Smallest ==
    ASSUME NEW T, T \subseteq Nat, T # {}
    PROVE  \E i \in T : \A j \in T : i <= j
  <1>1. PICK i \in T : \A j \in T : ~(<<j, i>> \in OpToRel(<, Nat))
    BY NatLessThanWellFounded, WFMin, Zenon
  <1>2. \A j \in T : ~(j < i)
    BY <1>1 DEF OpToRel
  <1> QED
    BY <1>2

LEMMA NotAbsent == Absent \notin Credentials
  <1>1. ASSUME NEW v \in Values PROVE v.field # "absent"
    BY DEF Values, Empty, Garbled, Value, FieldNames
  <1>2. Absent.field = "absent" /\ Basic.field = "basic" /\ Unsigned.field = "unsigned"
        /\ \A r : UserToken(r).field = "userJwt"
    BY DEF Absent, Basic, Unsigned, UserToken, Value
  <1> QED
    BY <1>1, <1>2 DEF Credentials

\* A header that is there stays; otherwise a key of the query takes its place.
LEMMA CopyIs ==
    ASSUME NEW q \in HttpRequests
    PROVE  \E a \in Presented(q) :
              /\ CopyQueryKey(q) = Req(q.route, q.preflight, a, q.query, q.authorization)
              /\ a = q.apikey \/ q.apikey = Absent
              /\ (q.route \in ProtectedRoutes /\ \E i \in DOMAIN q.query : q.query[i] # Empty)
                     => a # Absent
  <1> DEFINE given == {i \in DOMAIN q.query : q.query[i] # Empty}
  <1>1. CASE q.route \in ProtectedRoutes /\ q.apikey = Absent /\ given # {}
    <2>1. given \subseteq Nat
      BY Parts
    <2>2. \E i \in given : \A j \in given : i <= j
      BY <1>1, <2>1, Smallest
    <2> DEFINE first == CHOOSE i \in given : \A j \in given : i <= j
    <2>3. first \in given
      BY <2>2, Zenon
    <2>4. CopyQueryKey(q) = [q EXCEPT !.apikey = q.query[first]]
      BY <1>1 DEF CopyQueryKey
    <2>5. CopyQueryKey(q) = Req(q.route, q.preflight, q.query[first], q.query, q.authorization)
      BY <2>4, Parts DEF Req
    <2> HIDE DEF first
    <2>6. first \in DOMAIN q.query
      BY <2>3
    <2>7. q.query[first] \in Presented(q)
      BY <2>6 DEF Presented
    <2>8. q.query[first] # Absent
      BY <2>6, Parts, NotAbsent
    <2> QED
      BY <1>1, <2>5, <2>7, <2>8
  <1>2. CASE ~(q.route \in ProtectedRoutes /\ q.apikey = Absent /\ given # {})
    <2>1. CopyQueryKey(q) = q
      BY <1>2 DEF CopyQueryKey
    <2>2. q.apikey \in Presented(q)
      BY DEF Presented
    <2>3. (q.route \in ProtectedRoutes /\ \E i \in DOMAIN q.query : q.query[i] # Empty)
             => q.apikey # Absent
      BY <1>2
    <2> QED
      BY <2>1, <2>2, <2>3, Parts
  <1> QED
    BY <1>1, <1>2

\* The query starts with one of the two keys.
KeyFirst(s, keys) == s # <<>> /\ s[1] \in {keys.publishableKey, keys.secretKey}

LEMMA TranslateQueryIs ==
    ASSUME NEW r, NEW p, NEW a, NEW s, NEW b, NEW keys
    PROVE  TranslateQuery(Req(r, p, a, s, b), keys)
              = IF r \in ProtectedRoutes /\ KeyFirst(s, keys)
                  THEN Req(r, p, Translate(s[1], keys),
                           [i \in DOMAIN s |-> Translate(s[1], keys)], b)
                  ELSE Req(r, p, a, s, b)
  <1> DEFINE token == Translate(s[1], keys)
             t == [i \in DOMAIN s |-> token]
             q == Req(r, p, a, s, b)
  <1>1. q.route = r /\ q.query = s
    BY DEF Req
  <1>2. \A x, y : [q EXCEPT !.apikey = x, !.query = y] = Req(r, p, x, y, b)
    <2>1. \A x : [q EXCEPT !.apikey = x] = Req(r, p, x, s, b)
      BY DEF Req
    <2>2. \A x, y : [Req(r, p, x, s, b) EXCEPT !.query = y] = Req(r, p, x, y, b)
      BY DEF Req
    <2>3. \A x, y : [q EXCEPT !.apikey = x, !.query = y] = [[q EXCEPT !.apikey = x] EXCEPT !.query = y]
      OBVIOUS
    <2> QED
      BY <2>1, <2>2, <2>3
  <1> HIDE DEF q
  <1>3. CASE r \in ProtectedRoutes /\ KeyFirst(s, keys)
    <2>1. TranslateQuery(q, keys) = [q EXCEPT !.apikey = token, !.query = t]
      BY <1>1, <1>3 DEF TranslateQuery, KeyFirst
    <2>2. [q EXCEPT !.apikey = token, !.query = t] = Req(r, p, token, t, b)
      BY <1>2
    <2> QED
      BY <1>3, <2>1, <2>2 DEF q
  <1>4. CASE ~(r \in ProtectedRoutes /\ KeyFirst(s, keys))
    <2>1. TranslateQuery(q, keys) = q
      BY <1>1, <1>4 DEF TranslateQuery, KeyFirst
    <2> QED
      BY <1>4, <2>1 DEF q
  <1> QED
    BY <1>3, <1>4

LEMMA TranslateHeaderIs ==
    ASSUME NEW r, NEW p, NEW a, NEW s, NEW b, NEW keys
    PROVE  TranslateHeader(Req(r, p, a, s, b), keys)
              = Req(r, p, IF a \in {keys.publishableKey, keys.secretKey}
                            THEN Translate(a, keys) ELSE a, s, b)
  BY DEF TranslateHeader, Req

LEMMA SynthesizeIs ==
    ASSUME NEW r, NEW p, NEW a, NEW s, NEW b
    PROVE  SynthesizeBearer(Req(r, p, a, s, b))
              = Req(r, p, a, s, IF r \in ProtectedRoutes /\ ~GenuineBearer(b)
                                                         /\ a \notin {Absent, Empty}
                                  THEN a ELSE b)
  BY DEF SynthesizeBearer, Req

LEMMA TokensDiffer ==
    ASSUME NEW keys, Rendered(keys)
    PROVE  /\ keys.anonRoleJwt # keys.serviceRoleJwt /\ keys.publishableKey # keys.secretKey
           /\ \A t \in {keys.anonRoleJwt, keys.serviceRoleJwt} :
                 /\ t \notin {keys.publishableKey, keys.secretKey}
                 /\ t \notin {Absent, Empty} /\ GenuineBearer(t)
                 /\ t.field \notin {"publishableKey", "secretKey"}
           /\ \A k \in {keys.publishableKey, keys.secretKey} : k \notin {Absent, Empty}
           /\ keys.publishableKey.field = "publishableKey" /\ keys.secretKey.field = "secretKey"
           /\ keys.anonRoleJwt.field = "anonRoleJwt" /\ keys.serviceRoleJwt.field = "serviceRoleJwt"
  <1>1. /\ keys.publishableKey.field = "publishableKey" /\ keys.secretKey.field = "secretKey"
        /\ keys.anonRoleJwt.field = "anonRoleJwt" /\ keys.serviceRoleJwt.field = "serviceRoleJwt"
    BY DEF Rendered, WellFormed, FieldNames
  <1>2. Absent.field = "absent" /\ Empty.field = "empty"
    BY DEF Absent, Empty, Value
  <1> QED
    BY <1>1, <1>2 DEF GenuineBearer

LEMMA TranslateIs ==
    ASSUME NEW k, NEW keys, Rendered(keys), k \in {keys.publishableKey, keys.secretKey}
    PROVE  /\ Translate(k, keys) \in {keys.anonRoleJwt, keys.serviceRoleJwt}
           /\ k = keys.publishableKey => Translate(k, keys) = keys.anonRoleJwt
           /\ k = keys.secretKey => Translate(k, keys) = keys.serviceRoleJwt
           /\ Translate(k, keys) = keys.serviceRoleJwt => k = keys.secretKey
  BY TokensDiffer DEF Translate

-----------------------------------------------------------------------------
(* The chain in front of RBAC.                                             *)

\* A request on a protected route that is admitted carries the token of a key
\* the client has presented, and a bearer token that is no key.
LEMMA SentProtected ==
    ASSUME NEW q \in HttpRequests, NEW keys, Rendered(keys),
           q.route \in ProtectedRoutes, Admitted(CopyQueryKey(q), keys)
    PROVE  \E k \in Presented(q) \cap {keys.publishableKey, keys.secretKey} : \E s :
              Sent(q, keys) = Req(q.route, q.preflight, Translate(k, keys), s,
                                  IF GenuineBearer(q.authorization) THEN q.authorization
                                                                    ELSE Translate(k, keys))
  <1> DEFINE Keys == {keys.publishableKey, keys.secretKey}
             After(k, s) == Req(q.route, q.preflight, Translate(k, keys), s, q.authorization)
  <1>1. PICK a \in Presented(q) :
           CopyQueryKey(q) = Req(q.route, q.preflight, a, q.query, q.authorization)
    BY CopyIs
  <1>2. a \in Keys
    BY <1>1 DEF Admitted, Req
  <1>3. \E k \in Presented(q) \cap Keys : \E s :
           TranslateHeader(TranslateQuery(CopyQueryKey(q), keys), keys) = After(k, s)
    <2>1. CASE KeyFirst(q.query, keys)
      <3> DEFINE k == q.query[1]
                 s == [i \in DOMAIN q.query |-> Translate(q.query[1], keys)]
      <3>1. TranslateQuery(CopyQueryKey(q), keys) = After(k, s)
        <4>1. TranslateQuery(Req(q.route, q.preflight, a, q.query, q.authorization), keys)
                 = IF q.route \in ProtectedRoutes /\ KeyFirst(q.query, keys)
                     THEN After(k, s)
                     ELSE Req(q.route, q.preflight, a, q.query, q.authorization)
          BY TranslateQueryIs, Zenon
        <4> QED
          BY <1>1, <2>1, <4>1
      <3>2. k \in Keys
        BY <2>1 DEF KeyFirst
      <3>3. Translate(k, keys) \notin Keys
        BY <3>2, TranslateIs, TokensDiffer
      <3>4. k \in Presented(q)
        BY <2>1, Parts DEF Presented, KeyFirst
      <3> HIDE DEF k, s
      <3>5. TranslateHeader(After(k, s), keys) = After(k, s)
        BY <3>3, TranslateHeaderIs
      <3> QED
        BY <3>1, <3>2, <3>4, <3>5
    <2>2. CASE ~KeyFirst(q.query, keys)
      <3>1. TranslateQuery(CopyQueryKey(q), keys)
               = Req(q.route, q.preflight, a, q.query, q.authorization)
        BY <1>1, <2>2, TranslateQueryIs
      <3>2. TranslateHeader(Req(q.route, q.preflight, a, q.query, q.authorization), keys)
               = After(a, q.query)
        BY <1>2, TranslateHeaderIs
      <3> QED
        BY <1>1, <1>2, <3>1, <3>2
    <2> QED
      BY <2>1, <2>2
  <1>4. PICK k \in Presented(q) \cap Keys : \E s :
           TranslateHeader(TranslateQuery(CopyQueryKey(q), keys), keys) = After(k, s)
    BY <1>3
  <1>5. Translate(k, keys) \notin {Absent, Empty}
    BY TranslateIs, TokensDiffer
  <1> QED
    BY <1>4, <1>5, SynthesizeIs DEF Sent

\* On the other routes only the header is translated.
LEMMA SentOpen ==
    ASSUME NEW q \in HttpRequests, NEW keys, Rendered(keys), q.route \notin ProtectedRoutes
    PROVE  \E a : /\ a \notin {keys.publishableKey, keys.secretKey}
                  /\ Sent(q, keys) = Req(q.route, q.preflight, a, q.query, q.authorization)
  <1>1. PICK c : CopyQueryKey(q) = Req(q.route, q.preflight, c, q.query, q.authorization)
    BY CopyIs
  <1>2. TranslateQuery(CopyQueryKey(q), keys)
           = Req(q.route, q.preflight, c, q.query, q.authorization)
    BY <1>1, TranslateQueryIs
  <1>3. PICK a : /\ a \notin {keys.publishableKey, keys.secretKey}
                 /\ TranslateHeader(TranslateQuery(CopyQueryKey(q), keys), keys)
                       = Req(q.route, q.preflight, a, q.query, q.authorization)
    BY <1>2, TranslateHeaderIs, TranslateIs, TokensDiffer
  <1> QED
    BY <1>3, SynthesizeIs DEF Sent

-----------------------------------------------------------------------------
(* The answer.                                                             *)

LEMMA HandleIs ==
    ASSUME NEW q \in HttpRequests, NEW keys
    PROVE  /\ Handle(q, keys).status = "forwarded" =>
                 /\ ~q.preflight /\ Admitted(CopyQueryKey(q), keys) /\ Allowed(Sent(q, keys), keys)
                 /\ Handle(q, keys).request = RemoveHeaders(Sent(q, keys))
           /\ (/\ ~q.preflight /\ Admitted(CopyQueryKey(q), keys) /\ Allowed(Sent(q, keys), keys)
               /\ q.route # "internal-health")
                 => Handle(q, keys) = Reply("forwarded", RemoveHeaders(Sent(q, keys)))
           /\ ~q.preflight /\ ~Admitted(CopyQueryKey(q), keys)
                 => Handle(q, keys).status = "unauthorized"
  <1>1. CASE q.preflight
    BY <1>1 DEF Handle, Reply
  <1>2. CASE ~q.preflight /\ ~Admitted(CopyQueryKey(q), keys)
    BY <1>2 DEF Handle, Reply
  <1>3. CASE ~q.preflight /\ Admitted(CopyQueryKey(q), keys) /\ ~Allowed(Sent(q, keys), keys)
    BY <1>3 DEF Handle, Reply, Sent
  <1>4. CASE ~q.preflight /\ Admitted(CopyQueryKey(q), keys) /\ Allowed(Sent(q, keys), keys)
    BY <1>4 DEF Handle, Reply, Sent
  <1> QED
    BY <1>1, <1>2, <1>3, <1>4

-----------------------------------------------------------------------------
(* What the chain promises.                                                *)

\* Whatever a client sends, a forwarded request carries no opaque key in its
\* headers, and on a protected route it carries a role token: that of the
\* service role, and the routes that need it, only for the secret key.
LEMMA ForwardedRole ==
    ASSUME NEW q \in HttpRequests, NEW keys, Rendered(keys),
           Handle(q, keys).status = "forwarded"
    PROVE  LET sent == Handle(q, keys).request
           IN  /\ sent.apikey \notin {keys.publishableKey, keys.secretKey}
               /\ q.route \in ProtectedRoutes =>
                    /\ \/ sent.apikey = keys.anonRoleJwt /\ q.route \notin ServiceRoutes
                       \/ sent.apikey = keys.serviceRoleJwt /\ keys.secretKey \in Presented(q)
                    /\ sent.authorization.field \notin {"publishableKey", "secretKey"}
  <1> DEFINE reply == Handle(q, keys).request
  <1>1. /\ Admitted(CopyQueryKey(q), keys) /\ Allowed(Sent(q, keys), keys)
        /\ reply = RemoveHeaders(Sent(q, keys))
    BY HandleIs
  <1> HIDE DEF reply
  <1>2. CASE q.route \in ProtectedRoutes
    <2>1. PICK k \in Presented(q) \cap {keys.publishableKey, keys.secretKey} : \E s :
             Sent(q, keys) = Req(q.route, q.preflight, Translate(k, keys), s,
                                 IF GenuineBearer(q.authorization) THEN q.authorization
                                                                   ELSE Translate(k, keys))
      BY <1>1, <1>2, SentProtected
    <2>2. Sent(q, keys).route = q.route /\ q.route # "studio"
      BY <1>2, <2>1 DEF Req, ProtectedRoutes
    <2>3. reply = Sent(q, keys)
      BY <1>1, <2>2 DEF RemoveHeaders
    <2>4. /\ reply.apikey = Translate(k, keys)
          /\ reply.authorization = IF GenuineBearer(q.authorization) THEN q.authorization
                                                                     ELSE Translate(k, keys)
      BY <2>1, <2>3 DEF Req
    <2>5. /\ Translate(k, keys) \in {keys.anonRoleJwt, keys.serviceRoleJwt}
          /\ Translate(k, keys) = keys.serviceRoleJwt => k = keys.secretKey
      BY TranslateIs
    <2>6. q.route \in ServiceRoutes => reply.apikey = keys.serviceRoleJwt
      BY <1>1, <2>2, <2>3 DEF Allowed, ServiceRoutes, OpenRoutes
    <2>7. GenuineBearer(q.authorization)
             => q.authorization.field \notin {"publishableKey", "secretKey"}
      BY DEF GenuineBearer
    <2> QED
      BY <2>1, <2>4, <2>5, <2>6, <2>7, TokensDiffer DEF reply
  <1>3. CASE q.route \notin ProtectedRoutes
    <2>1. PICK a : /\ a \notin {keys.publishableKey, keys.secretKey}
                   /\ Sent(q, keys) = Req(q.route, q.preflight, a, q.query, q.authorization)
      BY <1>3, SentOpen
    <2>2. reply.apikey = a
      BY <1>1, <2>1 DEF RemoveHeaders, Req
    <2> QED
      BY <1>3, <2>1, <2>2 DEF reply
  <1> QED
    BY <1>2, <1>3

\* A request to REST with one key, wherever it is, arrives with the role of that
\* key, and with the bearer token of the client if it has a genuine one.
LEMMA ServedRole ==
    ASSUME NEW q \in HttpRequests, NEW keys, Rendered(keys),
           q.route = "rest-v1-protected", ~q.preflight,
           NEW k \in {keys.publishableKey, keys.secretKey}, Presented(q) \ {Absent} = {k}
    PROVE  /\ Handle(q, keys).status = "forwarded"
           /\ Handle(q, keys).request.authorization
                 = IF GenuineBearer(q.authorization) THEN q.authorization ELSE Translate(k, keys)
  <1>1. q.route \in ProtectedRoutes /\ k \notin {Absent, Empty}
    BY TokensDiffer DEF ProtectedRoutes
  <1>2. PICK a \in Presented(q) :
              /\ CopyQueryKey(q) = Req(q.route, q.preflight, a, q.query, q.authorization)
              /\ a = q.apikey \/ q.apikey = Absent
              /\ (q.route \in ProtectedRoutes /\ \E i \in DOMAIN q.query : q.query[i] # Empty)
                     => a # Absent
    BY CopyIs
  <1>3. a = k
    <2>1. CASE q.apikey = k
      BY <1>1, <1>2, <2>1
    <2>2. CASE q.apikey # k
      <3>1. PICK i \in DOMAIN q.query : q.query[i] = k
        BY <2>2 DEF Presented
      <3> QED
        BY <1>1, <1>2, <3>1
    <2> QED
      BY <2>1, <2>2
  <1>4. Admitted(CopyQueryKey(q), keys)
    BY <1>2, <1>3 DEF Admitted, Req
  <1>5. PICK c \in Presented(q) \cap {keys.publishableKey, keys.secretKey} : \E s :
             Sent(q, keys) = Req(q.route, q.preflight, Translate(c, keys), s,
                                 IF GenuineBearer(q.authorization) THEN q.authorization
                                                                   ELSE Translate(c, keys))
    BY <1>1, <1>4, SentProtected
  <1>6. c = k
    BY <1>5, TokensDiffer
  <1>7. /\ Sent(q, keys).route = "rest-v1-protected" /\ Sent(q, keys).apikey = Translate(k, keys)
        /\ Sent(q, keys).authorization
              = IF GenuineBearer(q.authorization) THEN q.authorization ELSE Translate(k, keys)
    BY <1>5, <1>6 DEF Req
  <1>8. Allowed(Sent(q, keys), keys)
    BY <1>7, TranslateIs DEF Allowed, OpenRoutes
  <1>9. Handle(q, keys) = Reply("forwarded", RemoveHeaders(Sent(q, keys)))
    BY <1>4, <1>8, HandleIs
  <1>10. RemoveHeaders(Sent(q, keys)) = Sent(q, keys)
    BY <1>7 DEF RemoveHeaders
  <1> QED
    BY <1>7, <1>9, <1>10 DEF Reply

\* Without one of the two keys a protected route is refused.
LEMMA RefusedWithout ==
    ASSUME NEW q \in HttpRequests, NEW keys, q.route \in ProtectedRoutes, ~q.preflight,
           Presented(q) \cap {keys.publishableKey, keys.secretKey} = {}
    PROVE  Handle(q, keys).status = "unauthorized"
  <1>1. PICK a \in Presented(q) :
           CopyQueryKey(q) = Req(q.route, q.preflight, a, q.query, q.authorization)
    BY CopyIs
  <1>2. ~Admitted(CopyQueryKey(q), keys)
    BY <1>1 DEF Admitted, Req
  <1> QED
    BY <1>2, HandleIs
=============================================================================
