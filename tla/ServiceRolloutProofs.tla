------------------------ MODULE ServiceRolloutProofs ------------------------
(***************************************************************************)
(* What ServiceRollout keeps for any number of services, credential        *)
(* Secrets, bundles, changes and restarts.                                 *)
(*                                                                         *)
(* That the operator rests only when all is rolled out is an invariant of  *)
(* the pass: as long as no event arrives, what it has read is still in the *)
(* cache, and what it has not found there is late.  It needs no order of   *)
(* bundles, so contents may come back.                                     *)
(*                                                                         *)
(* What the pods run does need one.  As long as nothing comes back bundles *)
(* are ordered by the Secret and their place in it, and everything follows *)
(* the order: what a cache has is never newer than what is stored, a       *)
(* template never newer than the JWKS, the JWKS never newer than the       *)
(* bundle of the pass.  So a cached JWKS that equals what the pass wants   *)
(* proves that the stored one does, and pods started from a template find  *)
(* at least the bundle of its hash.                                        *)
(***************************************************************************)
EXTENDS ServiceRollout, TLAPS

\* What the caches hold for the project, and the template that calls for.
Wanted == knownSecret[knownRef]
WantedTemplate(s) == [secret |-> IF s = Rest THEN 0 ELSE knownRef, hash |-> Wanted]

Working == pc \in {"jwks", "deployment", "status", "end"}
Configured == pc \in {"deployment", "status", "end"}

\* The services whose template the pass has looked at.
Templated ==
    CASE pc = "deployment" -> {s \in Services : s < next}
      [] pc = "status" -> {s \in Services : s <= next}
      [] pc = "end" -> Services
      [] OTHER -> {}

\* A cache that is not late has what is stored.
Current ==
    /\ lateRef = FALSE => knownRef = ref
    /\ \A r \in Refs : r \notin lateSecrets => knownSecret[r] = secret[r]
    /\ lateJwks = FALSE => knownJwks = jwks
    /\ \A s \in Services : s \notin lateDeps => knownDep[s] = dep[s]

Genuine ==
    /\ jwks \notin Invalid
    /\ \A s \in Services :
          /\ dep[s].template.hash \notin Invalid
          /\ dep[s].template = NoTemplate \/ s = Rest \/ dep[s].template.secret \in Refs
    /\ Working => Valid(credentials)

Rolled == \A s \in Services : dep[s].rolled => pod[s].template = dep[s].template

Progress == pc \in {"idle", "validate", "jwks"} => next = 1 /\ ready = {}

HasJwks == lateJwks = TRUE \/ knownJwks = Wanted
HasTemplate(s) == s \in lateDeps \/ knownDep[s].template = WantedTemplate(s)

\* What the pass has read is still so unless an event has arrived.
Undisturbed ==
    queued = FALSE =>
       /\ pc # "idle" => passRef = knownRef
       /\ Working => credentials = Wanted
       /\ Configured => HasJwks
       /\ \A s \in Templated : HasTemplate(s)
       /\ \A s \in ready : knownDep[s].rolled
       /\ pc = "idle" => /\ running = TRUE /\ Valid(Wanted) /\ HasJwks
                         /\ \A s \in Services : knownDep[s].rolled /\ HasTemplate(s)

Base == TypeOK /\ Current /\ Genuine /\ Rolled /\ Progress /\ Undisturbed

-----------------------------------------------------------------------------
(* The order of bundles.                                                   *)

Bundles == [home : Nat, number : Nat]

\* The bundle a pass reads, or has read, at least.
Reader == IF pc = "idle" THEN knownRef ELSE passRef
Read == Bundle(Reader, knownSecret[Reader].number)

\* Each Secret holds bundles of its own, and what is cached is not newer.
OwnSecrets ==
    /\ knownRef <= ref /\ (pc # "idle" => passRef <= knownRef)
    /\ \A r \in Refs : /\ secret[r] = None \/ secret[r].home = r
                       /\ knownSecret[r] = None \/ knownSecret[r].home = r
                       /\ knownSecret[r].number <= secret[r].number

\* The bundles in use, from the newest to the oldest.
InOrder ==
    /\ NotOlder(Read, jwks) /\ NotOlder(jwks, knownJwks)
    /\ \A s \in Services : /\ NotOlder(jwks, dep[s].template.hash)
                           /\ NotOlder(dep[s].template.hash, knownDep[s].template.hash)
    /\ Working => /\ credentials.home = passRef /\ NotOlder(Read, credentials)
                  /\ NotOlder(credentials, jwks)
    /\ Configured => jwks = credentials

\* The bundle is one that Secret r has or had.
Had(r, b) == r \in Refs /\ b.home = r /\ b.number <= secret[r].number

\* Templates and pods that read a Secret are of bundles it has or had.
FromSecrets ==
    \A s \in Services :
       /\ dep[s].template = NoTemplate \/ s = Rest
             \/ Had(dep[s].template.secret, dep[s].template.hash)
       /\ pod[s].template = NoTemplate \/ s = Rest
             \/ Had(pod[s].template.secret, pod[s].runs)

PodsOrder ==
    /\ \A s \in Services : NotOlder(pod[s].runs, pod[s].template.hash)
    /\ NotOlder(jwks, pod[Rest].runs)

Ordered == OwnSecrets /\ InOrder /\ FromSecrets /\ PodsOrder

IInv == Base /\ (fresh = TRUE => Ordered)

LEMMA OrderLaws ==
    ASSUME NEW a \in Bundles, NEW b \in Bundles, NEW c \in Bundles
    PROVE  /\ NotOlder(a, a)
           /\ NotOlder(a, None)
           /\ NotOlder(a, b) /\ NotOlder(b, c) => NotOlder(a, c)
           /\ NotOlder(a, b) /\ NotOlder(b, a) => a = b
  <1>1. /\ a.home \in Nat /\ a.number \in Nat /\ b.home \in Nat /\ b.number \in Nat
        /\ c.home \in Nat /\ c.number \in Nat
    BY DEF Bundles
  <1>2. None.home = 0 /\ None.number = 0
    BY DEF None, Bundle
  <1>3. NotOlder(a, a) /\ NotOlder(a, None)
    BY <1>1, <1>2 DEF NotOlder
  <1>4. NotOlder(a, b) /\ NotOlder(b, c) => NotOlder(a, c)
    BY <1>1 DEF NotOlder
  <1>5. NotOlder(a, b) /\ NotOlder(b, a) => a.home = b.home /\ a.number = b.number
    BY <1>1 DEF NotOlder
  <1>6. a.home = b.home /\ a.number = b.number => a = b
    BY DEF Bundles
  <1> QED
    BY <1>3, <1>4, <1>5, <1>6

LEMMA ConstantTypes ==
    /\ None \in Bundles /\ None \in MaybeContents /\ None.home = 0 /\ None.number = 0
    /\ None \notin Contents /\ None \notin Invalid /\ MaybeContents \subseteq Bundles
    /\ Rest \in Services /\ 1 \in Refs /\ 1 \in Services
    /\ Refs \subseteq 0..NumRefs /\ Refs \subseteq Nat /\ 0 \in 0..NumRefs
    /\ NoTemplate \in Templates /\ NoTemplate.hash = None /\ NoTemplate.secret = 0
  <1>1. 0 \in 0..NumRefs /\ 1 \in Refs /\ 1 \in Services /\ Refs \subseteq 0..NumRefs
        /\ Refs \subseteq Nat /\ 0 \notin Refs /\ Rest \in Services
    BY ConstantsAssumption DEF Refs, Services
  <1>2. None \in Bundles /\ None \in MaybeContents /\ None.home = 0 /\ None.number = 0
    BY DEF None, Bundle, Bundles, MaybeContents
  <1>3. None \notin Contents
    BY <1>1, <1>2 DEF Contents
  <1>4. None \notin Invalid
    BY <1>3, ConstantsAssumption
  <1>5. Contents \subseteq Bundles
    <2>1. 1..NumBundles \subseteq Nat
      BY ConstantsAssumption
    <2> QED
      BY <1>1, <2>1 DEF Contents, Bundles
  <1>6. MaybeContents \subseteq Bundles
    BY <1>2, <1>5 DEF MaybeContents
  <1>7. NoTemplate \in Templates /\ NoTemplate.hash = None /\ NoTemplate.secret = 0
    BY <1>1, <1>2 DEF NoTemplate, Templates
  <1> QED
    BY <1>1, <1>2, <1>3, <1>4, <1>6, <1>7

\* The parts of the state, with their types.
LEMMA ServiceTypes ==
    ASSUME TypeOK, NEW s \in Services
    PROVE  /\ dep[s] \in Deployments /\ knownDep[s] \in Deployments
           /\ dep[s].template \in Templates /\ knownDep[s].template \in Templates
           /\ pod[s].template \in Templates
           /\ dep[s].template.hash \in MaybeContents /\ knownDep[s].template.hash \in MaybeContents
           /\ pod[s].template.hash \in MaybeContents /\ pod[s].runs \in MaybeContents
           /\ Template(s) \in Templates /\ Template(s).hash = credentials
  <1>1. dep[s] \in Deployments /\ knownDep[s] \in Deployments /\ pod[s] \in Pods
    BY DEF TypeOK
  <1>2. /\ dep[s].template \in Templates /\ knownDep[s].template \in Templates
        /\ pod[s].template \in Templates /\ pod[s].runs \in MaybeContents
    BY <1>1 DEF Deployments, Pods
  <1>3. /\ dep[s].template.hash \in MaybeContents /\ knownDep[s].template.hash \in MaybeContents
        /\ pod[s].template.hash \in MaybeContents
    BY <1>2 DEF Templates
  <1>4. credentials \in MaybeContents /\ passRef \in 0..NumRefs /\ 0 \in 0..NumRefs
    BY ConstantTypes DEF TypeOK
  <1>5. Template(s) \in Templates /\ Template(s).hash = credentials
    BY <1>4 DEF Template, Templates
  <1> QED
    BY <1>1, <1>2, <1>3, <1>5

LEMMA ReadTypes ==
    ASSUME TypeOK
    PROVE  /\ Reader \in Refs /\ Read \in Bundles
           /\ Read.home = Reader /\ Read.number = knownSecret[Reader].number
           /\ jwks \in Bundles /\ knownJwks \in Bundles /\ credentials \in Bundles
           /\ \A r \in Refs : /\ secret[r] \in Bundles /\ knownSecret[r] \in Bundles
                              /\ secret[r].number \in Nat /\ knownSecret[r].number \in Nat
  <1>1. Reader \in Refs /\ Reader \in Nat
    BY ConstantTypes DEF TypeOK, Reader
  <1>2. \A r \in Refs : /\ secret[r] \in Bundles /\ knownSecret[r] \in Bundles
    BY ConstantTypes DEF TypeOK
  <1>3. \A r \in Refs : secret[r].number \in Nat /\ knownSecret[r].number \in Nat
    BY <1>2 DEF Bundles
  <1>4. jwks \in Bundles /\ knownJwks \in Bundles /\ credentials \in Bundles
    BY ConstantTypes DEF TypeOK
  <1>5. Read \in Bundles /\ Read.home = Reader /\ Read.number = knownSecret[Reader].number
    BY <1>1, <1>3 DEF Read, Bundle, Bundles
  <1> QED
    BY <1>1, <1>2, <1>3, <1>4, <1>5

-----------------------------------------------------------------------------
(* The steps of the pass.                                                  *)

\* What the order says of a state, but for the pass, carries over when only the
\* pass moves on.
LEMMA PassOrders ==
    ASSUME Ordered, UNCHANGED <<ref, knownRef, secret, knownSecret, jwks, knownJwks, dep, knownDep, pod>>,
           pc' # "idle" => passRef' <= knownRef,
           NotOlder(Read, jwks)',
           Working' => (credentials.home = passRef /\ NotOlder(Read, credentials)
                          /\ NotOlder(credentials, jwks))',
           Configured' => (jwks = credentials)'
    PROVE  Ordered'
  <1>1. OwnSecrets'
    BY DEF Ordered, OwnSecrets
  <1>2. InOrder'
    BY DEF Ordered, InOrder, NotOlder
  <1>3. FromSecrets' /\ PodsOrder'
    BY DEF Ordered, FromSecrets, PodsOrder, Had, NotOlder
  <1> QED
    BY <1>1, <1>2, <1>3 DEF Ordered

\* A pass that ends with its key in the queue.
LEMMA EndKeeps ==
    ASSUME IInv, End(TRUE), UNCHANGED <<spec, config, workloads, bounds>>, running' \in BOOLEAN
    PROVE  IInv'
  <1>1. /\ UNCHANGED <<ref, knownRef, lateRef, secret, knownSecret, lateSecrets, fresh, jwks, knownJwks,
                       lateJwks, dep, knownDep, lateDeps, pod, changes, restarts>>
        /\ pc' = "idle" /\ next' = 1 /\ passRef' = 1 /\ credentials' = None /\ ready' = {}
        /\ queued' = TRUE
    BY DEF End, spec, config, workloads, bounds
  <1>2. TypeOK'
    BY <1>1, ConstantTypes DEF IInv, Base, TypeOK
  <1>3. Current' /\ Genuine' /\ Rolled' /\ Progress' /\ Undisturbed'
    BY <1>1 DEF IInv, Base, Current, Genuine, Rolled, Progress, Undisturbed, Working
  <1>4. ASSUME fresh = TRUE
        PROVE  Ordered'
    <2>1. Ordered /\ TypeOK
      BY <1>4 DEF IInv, Base
    <2>2. Reader' = knownRef /\ Read' = Bundle(knownRef, knownSecret[knownRef].number)
      BY <1>1 DEF Reader, Read
    <2>3. NotOlder(Read', Read)
      <3>1. Reader <= knownRef /\ Reader \in Nat /\ knownRef \in Nat /\ knownRef \in Refs
        BY <2>1, ReadTypes, ConstantTypes DEF Ordered, OwnSecrets, Reader, TypeOK
      <3>2. Read'.home = knownRef /\ Read'.number = knownSecret[knownRef].number
        BY <2>2 DEF Bundle
      <3>3. Read.home = Reader /\ Read.number = knownSecret[Reader].number
            /\ knownSecret[knownRef].number \in Nat
        BY <2>1, <3>1, ReadTypes
      <3> QED
        BY <3>1, <3>2, <3>3 DEF NotOlder
    <2>4. Read' \in Bundles
      BY <2>1, <2>2, ReadTypes, ConstantTypes DEF TypeOK, Bundle, Bundles
    <2>5. NotOlder(Read', jwks)
      BY <2>1, <2>3, <2>4, ReadTypes, OrderLaws DEF Ordered, InOrder
    <2> QED
      BY <2>1, <2>5, <1>1, PassOrders DEF Working, Configured
  <1> QED
    BY <1>1, <1>2, <1>3, <1>4 DEF IInv, Base

LEMMA StartKeeps ==
    ASSUME IInv, Start PROVE IInv'
  <1>1. /\ UNCHANGED <<ref, knownRef, lateRef, secret, knownSecret, lateSecrets, fresh, jwks, knownJwks,
                       lateJwks, dep, knownDep, lateDeps, pod, next, credentials, ready, running,
                       changes, restarts>>
        /\ pc' = "validate" /\ pc = "idle" /\ queued' = FALSE /\ passRef' = knownRef
    BY DEF Start, spec, config, workloads, bounds
  <1>2. TypeOK'
    BY <1>1 DEF IInv, Base, TypeOK
  <1>3. Current' /\ Genuine' /\ Rolled' /\ Progress'
    BY <1>1 DEF IInv, Base, Current, Genuine, Rolled, Progress, Working
  <1>4. Undisturbed'
    <2>1. ready = {} /\ Templated' = {}
      BY <1>1 DEF IInv, Base, Progress, Templated
    <2> QED
      BY <1>1, <2>1 DEF Undisturbed, Working, Configured
  <1>5. ASSUME fresh = TRUE
        PROVE  Ordered'
    <2>1. Ordered /\ TypeOK /\ knownRef <= knownRef
      BY <1>5, ConstantTypes DEF IInv, Base, TypeOK
    <2>2. Read' = Read
      BY <1>1 DEF Reader, Read
    <2>3. NotOlder(Read, jwks)'
      BY <1>1, <2>1, <2>2 DEF Ordered, InOrder, NotOlder
    <2> QED
      BY <2>1, <2>3, <1>1, PassOrders DEF Working, Configured
  <1> QED
    BY <1>1, <1>2, <1>3, <1>4, <1>5 DEF IInv, Base

LEMMA ReconcileSecretsKeeps ==
    ASSUME IInv, ReconcileSecrets PROVE IInv'
  <1> DEFINE b == knownSecret[passRef]
  <1>1. CASE Valid(b)
    <2>1. /\ UNCHANGED <<ref, knownRef, lateRef, secret, knownSecret, lateSecrets, fresh, jwks, knownJwks,
                         lateJwks, dep, knownDep, lateDeps, pod, next, passRef, ready, running, queued,
                         changes, restarts>>
          /\ pc' = "jwks" /\ pc = "validate" /\ credentials' = b
      BY <1>1 DEF ReconcileSecrets, spec, config, workloads, bounds
    <2>2. TypeOK'
      BY <2>1 DEF IInv, Base, TypeOK
    <2>3. Current' /\ Genuine' /\ Rolled' /\ Progress'
      BY <1>1, <2>1 DEF IInv, Base, Current, Genuine, Rolled, Progress, Valid
    <2>4. Undisturbed'
      <3>1. Templated' = {} /\ ready = {} /\ Wanted' = Wanted
        BY <2>1 DEF IInv, Base, Progress, Templated, Wanted
      <3>2. queued = FALSE => b = Wanted /\ passRef = knownRef
        BY <2>1 DEF IInv, Base, Undisturbed, Wanted
      <3> QED
        BY <2>1, <3>1, <3>2 DEF Undisturbed, Configured
    <2>5. ASSUME fresh = TRUE
          PROVE  Ordered'
      <3>1. Ordered /\ TypeOK /\ passRef \in Refs /\ passRef <= knownRef
        BY <2>1, <2>5 DEF IInv, Base, Ordered, OwnSecrets, TypeOK
      <3>2. b.home = passRef /\ b \in Bundles
        BY <1>1, <3>1, ReadTypes DEF Ordered, OwnSecrets, Valid
      <3>3. Read = Bundle(passRef, b.number) /\ Read' = Read
        BY <2>1 DEF Reader, Read
      <3>4. Read = b
        BY <3>2, <3>3 DEF Bundle, Bundles
      <3>5. NotOlder(Read, jwks)' /\ NotOlder(b, jwks)
        BY <2>1, <3>1, <3>3, <3>4 DEF Ordered, InOrder, NotOlder
      <3>6. NotOlder(Read', b)
        BY <3>2, <3>3, <3>4, OrderLaws
      <3>7. (credentials.home = passRef /\ NotOlder(Read, credentials) /\ NotOlder(credentials, jwks))'
        BY <2>1, <3>2, <3>5, <3>6
      <3> QED
        BY <2>1, <3>1, <3>5, <3>7, PassOrders DEF Configured
    <2> QED
      BY <2>1, <2>2, <2>3, <2>4, <2>5 DEF IInv, Base
  <1>2. CASE ~Valid(b)
    <2>1. End(TRUE) /\ UNCHANGED <<spec, config, workloads, bounds>> /\ running' \in BOOLEAN
      BY <1>2 DEF ReconcileSecrets
    <2> QED
      BY <2>1, EndKeeps
  <1> QED
    BY <1>1, <1>2

LEMMA ReconcileJWKSConfigMapKeeps ==
    ASSUME IInv, ReconcileJWKSConfigMap PROVE IInv'
  <1>0. pc = "jwks" /\ TypeOK /\ Working
    BY DEF ReconcileJWKSConfigMap, IInv, Base, Working
  <1>1. CASE knownJwks = credentials
    <2>1. /\ UNCHANGED <<ref, knownRef, lateRef, secret, knownSecret, lateSecrets, fresh, jwks, knownJwks,
                         dep, knownDep, lateDeps, pod, next, passRef, credentials, ready,
                         running, queued, changes, restarts>>
          /\ lateJwks' = (lateJwks \/ knownJwks # credentials)
          /\ pc' = "deployment"
      BY <1>1 DEF ReconcileJWKSConfigMap, spec, workloads, bounds
    <2>a. lateJwks' = lateJwks
      BY <1>0, <1>1, <2>1 DEF TypeOK
    <2>2. TypeOK'
      BY <2>1, <2>a, <1>0 DEF TypeOK
    <2>3. Current' /\ Genuine' /\ Rolled' /\ Progress'
      BY <2>1, <2>a, <1>0 DEF IInv, Base, Current, Genuine, Rolled, Progress, Working, Valid
    <2>4. Undisturbed'
      <3>1. next = 1 /\ ready = {} /\ {s \in Services : s < 1} = {}
        BY <1>0, ConstantsAssumption DEF IInv, Base, Progress, Services
      <3>2. Templated' = {} /\ Wanted' = Wanted
        BY <2>1, <3>1 DEF Templated, Wanted
      <3>3. queued = FALSE => passRef = knownRef /\ credentials = Wanted
        BY <1>0 DEF IInv, Base, Undisturbed
      <3> QED
        BY <1>1, <2>1, <3>1, <3>2, <3>3 DEF Undisturbed, HasJwks
    <2>5. ASSUME fresh = TRUE
          PROVE  Ordered'
      <3>1. Ordered
        BY <2>5 DEF IInv
      <3>2. /\ NotOlder(credentials, jwks) /\ NotOlder(jwks, credentials) /\ passRef <= knownRef
            /\ credentials.home = passRef /\ NotOlder(Read, credentials) /\ NotOlder(Read, jwks)
        BY <3>1, <1>0, <1>1 DEF Ordered, InOrder, OwnSecrets
      <3>3. jwks = credentials
        BY <3>2, <1>0, ReadTypes, OrderLaws
      <3>4. Read' = Read
        BY <2>1, <1>0 DEF Read, Reader
      <3> QED
        BY <2>1, <3>1, <3>2, <3>3, <3>4, PassOrders
    <2> QED
      BY <2>1, <2>2, <2>3, <2>4, <2>5 DEF IInv, Base
  <1>2. CASE knownJwks # credentials /\ lateJwks = FALSE
    <2>1. /\ UNCHANGED <<ref, knownRef, lateRef, secret, knownSecret, lateSecrets, fresh, knownJwks,
                         dep, knownDep, lateDeps, pod, next, passRef, credentials, ready,
                         running, queued, changes, restarts>>
          /\ lateJwks' = TRUE /\ jwks' = credentials /\ pc' = "deployment"
      BY <1>2 DEF ReconcileJWKSConfigMap, spec, workloads, bounds
    <2>2. TypeOK'
      BY <2>1, <1>0 DEF TypeOK
    <2>3. Current' /\ Genuine' /\ Rolled' /\ Progress'
      BY <2>1, <1>0 DEF IInv, Base, Current, Genuine, Rolled, Progress, Working, Valid
    <2>4. Undisturbed'
      <3>1. next = 1 /\ ready = {} /\ {s \in Services : s < 1} = {}
        BY <1>0, ConstantsAssumption DEF IInv, Base, Progress, Services
      <3>2. Templated' = {} /\ Wanted' = Wanted
        BY <2>1, <3>1 DEF Templated, Wanted
      <3>3. queued = FALSE => passRef = knownRef /\ credentials = Wanted
        BY <1>0 DEF IInv, Base, Undisturbed
      <3> QED
        BY <2>1, <3>1, <3>2, <3>3 DEF Undisturbed, HasJwks
    <2>5. ASSUME fresh = TRUE
          PROVE  Ordered'
      <3>1. Ordered
        BY <2>5 DEF IInv
      <3>2. /\ NotOlder(credentials, jwks) /\ NotOlder(jwks, knownJwks)
            /\ credentials.home = passRef /\ NotOlder(Read, credentials)
        BY <3>1, <1>0 DEF Ordered, InOrder
      <3>3. \A c \in Bundles : NotOlder(jwks, c) => NotOlder(credentials, c)
        BY <3>2, <1>0, ReadTypes, OrderLaws
      <3>4. Read' = Read /\ NotOlder(credentials, credentials)
        BY <2>1, <1>0, ReadTypes, OrderLaws DEF Read, Reader
      <3>5. OwnSecrets'
        BY <2>1, <3>1, <1>0 DEF Ordered, OwnSecrets
      <3>6. InOrder'
        <4>1. NotOlder(credentials, knownJwks)
          BY <3>2, <3>3, <1>0, ReadTypes
        <4>2. ASSUME NEW s \in Services
              PROVE  /\ NotOlder(credentials, dep[s].template.hash)
                     /\ NotOlder(dep[s].template.hash, knownDep[s].template.hash)
          <5>1. dep[s].template.hash \in Bundles /\ NotOlder(jwks, dep[s].template.hash)
                /\ NotOlder(dep[s].template.hash, knownDep[s].template.hash)
            BY <3>1, <1>0, ServiceTypes, ConstantTypes DEF Ordered, InOrder
          <5> QED
            BY <5>1, <3>3
        <4>3. (NotOlder(Read, jwks) /\ NotOlder(jwks, knownJwks))'
          BY <2>1, <3>2, <3>4, <4>1
        <4>4. (credentials.home = passRef /\ NotOlder(Read, credentials) /\ NotOlder(credentials, jwks))'
          BY <2>1, <3>2, <3>4
        <4> QED
          BY <2>1, <4>2, <4>3, <4>4 DEF InOrder
      <3>7. FromSecrets' /\ PodsOrder'
        <4>1. NotOlder(credentials, pod[Rest].runs)
          BY <3>1, <3>3, <1>0, ServiceTypes, ConstantTypes DEF Ordered, PodsOrder
        <4> QED
          BY <2>1, <3>1, <4>1 DEF Ordered, FromSecrets, Had, PodsOrder
      <3> QED
        BY <3>5, <3>6, <3>7 DEF Ordered
    <2> QED
      BY <2>1, <2>2, <2>3, <2>4, <2>5 DEF IInv, Base
  <1>3. CASE knownJwks # credentials /\ lateJwks = TRUE
    <2>1. End(TRUE) /\ UNCHANGED <<spec, config, workloads, bounds>> /\ running' = running
      BY <1>3 DEF ReconcileJWKSConfigMap, config
    <2>2. running' \in BOOLEAN
      BY <2>1, <1>0 DEF TypeOK
    <2> QED
      BY <2>1, <2>2, EndKeeps
  <1> QED
    BY <1>0, <1>1, <1>2, <1>3 DEF TypeOK

\* The pass has dealt with the template of the next service.
LEMMA TemplateNext ==
    ASSUME TypeOK, pc = "deployment", pc' = "status", next' = next
    PROVE  /\ Templated' \subseteq Services
           /\ \A s \in Templated' : s \in Templated \/ s = next
  <1>1. Templated = {s \in Services : s < next} /\ Templated' = {s \in Services : s <= next}
    BY DEF Templated
  <1>2. \A s \in Services : s <= next => s < next \/ s = next
    BY DEF TypeOK, Services
  <1> QED
    BY <1>1, <1>2

LEMMA CreateOrUpdateDeploymentKeeps ==
    ASSUME IInv, CreateOrUpdateDeployment PROVE IInv'
  <1> DEFINE T == Template(next)
  <1>0. next \in Services /\ pc = "deployment" /\ TypeOK /\ Working /\ Configured
    BY DEF IInv, Base, TypeOK, CreateOrUpdateDeployment, Working, Configured
  <1>a. T \in Templates /\ T.hash = credentials /\ credentials \in MaybeContents
        /\ (queued = FALSE => T = WantedTemplate(next))
    BY <1>0, ServiceTypes DEF IInv, Base, TypeOK, Undisturbed, Template, WantedTemplate
  <1>b. T = [secret |-> IF next = Rest THEN 0 ELSE passRef, hash |-> credentials]
    BY DEF Template
  <1> HIDE DEF T
  <1>1. CASE knownDep[next].template = T
    <2>1. /\ UNCHANGED <<ref, knownRef, lateRef, secret, knownSecret, lateSecrets, fresh, jwks, knownJwks,
                         lateJwks, dep, knownDep, lateDeps, pod, next, passRef, credentials, ready,
                         running, queued, changes, restarts>>
          /\ pc' = "status"
      BY <1>1 DEF CreateOrUpdateDeployment, T, spec, config, bounds
    <2>2. TypeOK'
      BY <2>1, <1>0 DEF TypeOK
    <2>3. Current' /\ Genuine' /\ Rolled' /\ Progress'
      BY <2>1, <1>0 DEF IInv, Base, Current, Genuine, Rolled, Progress, Working, Valid
    <2>4. Undisturbed'
      <3>1. Wanted' = Wanted /\ \A s \in Services : WantedTemplate(s)' = WantedTemplate(s)
        BY <2>1 DEF Wanted, WantedTemplate
      <3>2. ASSUME queued = FALSE, NEW s \in Templated'
            PROVE  HasTemplate(s)
        <4>1. s \in Templated \/ s = next
          BY <3>2, <1>0, <2>1, TemplateNext
        <4>2. HasTemplate(next)
          BY <1>1, <1>a, <3>2 DEF HasTemplate
        <4> QED
          BY <4>1, <4>2, <3>2 DEF IInv, Base, Undisturbed
      <3>3. \A s \in Templated' : s \in Services
        BY <1>0, <2>1, TemplateNext
      <3>4. \A s \in Services : HasTemplate(s)' <=> HasTemplate(s)
        BY <2>1, <3>1 DEF HasTemplate
      <3>5. HasJwks' <=> HasJwks
        BY <2>1, <3>1 DEF HasJwks
      <3> QED
        BY <1>0, <2>1, <3>1, <3>2, <3>3, <3>4, <3>5 DEF IInv, Base, Undisturbed, Working, Configured
    <2>5. ASSUME fresh = TRUE
          PROVE  Ordered'
      <3>1. Ordered /\ Read' = Read
        BY <2>5, <2>1, <1>0 DEF IInv, Read, Reader
      <3>2. /\ NotOlder(credentials, jwks) /\ passRef <= knownRef /\ jwks = credentials
            /\ credentials.home = passRef /\ NotOlder(Read, credentials) /\ NotOlder(Read, jwks)
        BY <3>1, <1>0 DEF Ordered, InOrder, OwnSecrets
      <3> QED
        BY <2>1, <3>1, <3>2, PassOrders
    <2> QED
      BY <2>1, <2>2, <2>3, <2>4, <2>5 DEF IInv, Base
  <1>2. CASE knownDep[next].template # T /\ next \notin lateDeps
    <2>1. /\ UNCHANGED <<ref, knownRef, lateRef, secret, knownSecret, lateSecrets, fresh, jwks, knownJwks,
                         lateJwks, knownDep, pod, next, passRef, credentials, ready,
                         running, queued, changes, restarts>>
          /\ dep' = [dep EXCEPT ![next] = [template |-> T, rolled |-> FALSE]]
          /\ lateDeps' = lateDeps \cup {next}
          /\ pc' = "status"
      BY <1>2 DEF CreateOrUpdateDeployment, T, spec, config, bounds
    <2>2. dep \in [Services -> Deployments] /\ [template |-> T, rolled |-> FALSE] \in Deployments
      BY <1>0, <1>a DEF TypeOK, Deployments
    <2>3. /\ dep' \in [Services -> Deployments] /\ dep'[next].template = T /\ ~dep'[next].rolled
          /\ \A s \in Services \ {next} : dep'[s] = dep[s]
      BY <1>0, <2>1, <2>2
    <2>4. TypeOK'
      BY <2>1, <2>3, <1>0 DEF TypeOK
    <2>5. Current'
      BY <2>1, <2>3 DEF IInv, Base, Current
    <2>6. Genuine' /\ Rolled' /\ Progress'
      <3>1. Valid(credentials)
        BY <1>0 DEF IInv, Base, Genuine
      <3>a. T.hash \notin Invalid /\ (next = Rest \/ T.secret \in Refs)
        BY <1>0, <1>a, <1>b, <3>1 DEF TypeOK, Valid
      <3>2. \A s \in Services :
               /\ dep'[s].template.hash \notin Invalid
               /\ dep'[s].template = NoTemplate \/ s = Rest \/ dep'[s].template.secret \in Refs
        BY <2>3, <3>a DEF IInv, Base, Genuine
      <3>3. \A s \in Services : dep'[s].rolled => pod[s].template = dep'[s].template
        BY <2>3 DEF IInv, Base, Rolled
      <3> QED
        BY <2>1, <3>1, <3>2, <3>3 DEF IInv, Base, Genuine, Rolled, Progress, Working, Valid
    <2>7. Undisturbed'
      <3>1. Wanted' = Wanted /\ \A s \in Services : WantedTemplate(s)' = WantedTemplate(s)
        BY <2>1 DEF Wanted, WantedTemplate
      <3>2. ASSUME queued = FALSE, NEW s \in Templated'
            PROVE  HasTemplate(s)'
        <4>1. s \in Services /\ (s \in Templated \/ s = next)
          BY <3>2, <1>0, <2>1, TemplateNext
        <4>2. CASE s = next
          BY <4>2, <2>1 DEF HasTemplate
        <4>3. CASE s # next
          <5>1. HasTemplate(s)
            BY <4>1, <4>3, <3>2 DEF IInv, Base, Undisturbed
          <5> QED
            BY <5>1, <4>1, <2>1, <3>1 DEF HasTemplate
        <4> QED
          BY <4>2, <4>3
      <3>3. HasJwks' <=> HasJwks
        BY <2>1, <3>1 DEF HasJwks
      <3> QED
        BY <1>0, <2>1, <3>1, <3>2, <3>3 DEF IInv, Base, Undisturbed, Working, Configured
    <2>8. ASSUME fresh = TRUE
          PROVE  Ordered'
      <3>1. Ordered /\ Read' = Read
        BY <2>8, <2>1, <1>0 DEF IInv, Read, Reader
      <3>2. /\ passRef <= knownRef /\ jwks = credentials
            /\ credentials.home = passRef /\ NotOlder(Read, credentials) /\ NotOlder(Read, jwks)
        BY <3>1, <1>0 DEF Ordered, InOrder, OwnSecrets
      <3>3. NotOlder(credentials, credentials) /\ credentials \in Bundles
        BY <1>0, ReadTypes, OrderLaws
      <3>4. OwnSecrets'
        BY <2>1, <3>1, <1>0 DEF Ordered, OwnSecrets
      <3>5. ASSUME NEW s \in Services
            PROVE  /\ NotOlder(jwks, dep'[s].template.hash)
                   /\ NotOlder(dep'[s].template.hash, knownDep[s].template.hash)
        <4>1. /\ NotOlder(jwks, dep[s].template.hash)
              /\ NotOlder(dep[s].template.hash, knownDep[s].template.hash)
          BY <3>1 DEF Ordered, InOrder
        <4>2. CASE s = next
          <5>1. dep'[s].template.hash = credentials
            BY <4>2, <2>3, <1>a
          <5>2. NotOlder(credentials, knownDep[s].template.hash)
            <6>1. /\ dep[s].template.hash \in Bundles /\ knownDep[s].template.hash \in Bundles
              BY <1>0, ServiceTypes, ConstantTypes
            <6> QED
              BY <6>1, <4>1, <3>2, <3>3, OrderLaws
          <5> QED
            BY <5>1, <5>2, <3>2, <3>3
        <4>3. CASE s # next
          BY <4>1, <4>3, <2>3
        <4> QED
          BY <4>2, <4>3
      <3>6. InOrder'
        BY <2>1, <3>1, <3>2, <3>3, <3>5 DEF Ordered, InOrder, Working, Configured
      <3>7. credentials.number <= secret[passRef].number /\ passRef \in Refs
        <4>1. passRef \in Refs /\ Reader = passRef /\ Read.home = passRef
              /\ Read.number = knownSecret[passRef].number
          BY <1>0, ReadTypes DEF TypeOK, Reader
        <4>2. /\ knownSecret[passRef].number \in Nat /\ secret[passRef].number \in Nat
              /\ credentials.number \in Nat /\ passRef \in Nat
          BY <1>0, <4>1, ReadTypes, ConstantTypes DEF Bundles
        <4>3. credentials.number <= knownSecret[passRef].number
          BY <3>2, <4>1, <4>2 DEF NotOlder
        <4>4. knownSecret[passRef].number <= secret[passRef].number
          BY <3>1, <4>1 DEF Ordered, OwnSecrets
        <4> QED
          BY <4>1, <4>2, <4>3, <4>4
      <3>8. FromSecrets'
        <4>1. ASSUME NEW s \in Services
              PROVE  dep'[s].template = NoTemplate \/ s = Rest
                        \/ Had(dep'[s].template.secret, dep'[s].template.hash)
          <5>1. CASE s = next
            <6>1. s # Rest => dep'[s].template.secret = passRef /\ dep'[s].template.hash = credentials
              BY <5>1, <2>3, <1>b
            <6> QED
              BY <6>1, <3>2, <3>7 DEF Had
          <5>2. CASE s # next
            BY <5>2, <2>3, <3>1 DEF Ordered, FromSecrets
          <5> QED
            BY <5>1, <5>2
        <4> QED
          BY <2>1, <3>1, <4>1 DEF Ordered, FromSecrets, Had
      <3>9. PodsOrder'
        BY <2>1, <3>1 DEF Ordered, PodsOrder
      <3> QED
        BY <3>4, <3>6, <3>8, <3>9 DEF Ordered
    <2> QED
      BY <2>1, <2>4, <2>5, <2>6, <2>7, <2>8 DEF IInv, Base
  <1>3. CASE knownDep[next].template # T /\ next \in lateDeps
    <2>1. End(TRUE) /\ UNCHANGED <<spec, config, workloads, bounds>> /\ running' \in BOOLEAN
      BY <1>3 DEF CreateOrUpdateDeployment, T, workloads
    <2> QED
      BY <2>1, EndKeeps
  <1> QED
    BY <1>1, <1>2, <1>3

LEMMA DeploymentStatusKeeps ==
    ASSUME IInv, DeploymentStatus PROVE IInv'
  <1>1. /\ UNCHANGED <<ref, knownRef, lateRef, secret, knownSecret, lateSecrets, fresh, jwks, knownJwks,
                       lateJwks, dep, knownDep, lateDeps, pod, passRef, credentials,
                       running, queued, changes, restarts>>
        /\ pc = "status" /\ next \in Services /\ Wanted' = Wanted /\ TypeOK
        /\ \A s \in Services : WantedTemplate(s)' = WantedTemplate(s)
    BY DEF DeploymentStatus, IInv, Base, TypeOK, Wanted, WantedTemplate, spec, config, workloads, bounds
  <1>2. /\ ready' = IF knownDep[next].rolled THEN ready \cup {next} ELSE ready
        /\ \/ next = NumServices /\ pc' = "end" /\ next' = 1
           \/ next # NumServices /\ pc' = "deployment" /\ next' = next + 1
    BY DEF DeploymentStatus
  <1>3. pc' \in {"deployment", "end"} /\ ready' \subseteq Services
        /\ \A s \in ready' : s \in ready \/ knownDep[s].rolled
    BY <1>1, <1>2 DEF TypeOK
  <1>4. next' \in Services
    BY <1>1, <1>2, ConstantsAssumption DEF Services
  <1>5. TypeOK'
    BY <1>1, <1>3, <1>4 DEF TypeOK
  <1>6. Current' /\ Genuine' /\ Rolled' /\ Progress'
    BY <1>1, <1>3 DEF IInv, Base, Current, Genuine, Rolled, Progress, Working, Valid
  <1>7. Templated = {s \in Services : s <= next}
    BY <1>1 DEF Templated
  <1>8. Templated' = Templated
    <2>1. CASE pc' = "end"
      <3>1. next = NumServices /\ Templated' = Services
        BY <1>2, <2>1 DEF Templated
      <3>2. \A s \in Services : s <= NumServices
        BY ConstantsAssumption DEF Services
      <3> QED
        BY <3>1, <3>2, <1>7
    <2>2. CASE pc' = "deployment"
      <3>1. next' = next + 1 /\ Templated' = {s \in Services : s < next'}
        BY <1>2, <2>2 DEF Templated
      <3>2. \A s \in Services : s < next + 1 <=> s <= next
        BY <1>1, ConstantsAssumption DEF Services
      <3> QED
        BY <3>1, <3>2, <1>7
    <2> QED
      BY <1>3, <2>1, <2>2
  <1>9. Undisturbed'
    <2>1. \A s \in Services : HasTemplate(s)' <=> HasTemplate(s)
      BY <1>1 DEF HasTemplate
    <2>2. (HasJwks' <=> HasJwks) /\ Templated \subseteq Services
      BY <1>1, <1>7 DEF HasJwks
    <2> QED
      BY <1>1, <1>3, <1>8, <2>1, <2>2 DEF IInv, Base, Undisturbed, Working, Configured
  <1>10. ASSUME fresh = TRUE
         PROVE  Ordered'
    <2>1. Ordered /\ Read' = Read /\ Working /\ Configured
      BY <1>10, <1>1, <1>3 DEF IInv, Read, Reader, Working, Configured
    <2>2. /\ NotOlder(credentials, jwks) /\ passRef <= knownRef /\ jwks = credentials
          /\ credentials.home = passRef /\ NotOlder(Read, credentials) /\ NotOlder(Read, jwks)
      BY <2>1, <1>1 DEF Ordered, InOrder, OwnSecrets
    <2> QED
      BY <1>1, <2>1, <2>2, PassOrders
  <1> QED
    BY <1>1, <1>5, <1>6, <1>9, <1>10 DEF IInv, Base

LEMMA ReportReadinessKeeps ==
    ASSUME IInv, ReportReadiness PROVE IInv'
  <1> PICK metaReady \in BOOLEAN : /\ running' = (ready = Services /\ metaReady)
                                   /\ End(queued \/ ready # Services \/ ~metaReady)
    BY DEF ReportReadiness
  <1>1. pc = "end" /\ UNCHANGED <<spec, config, workloads, bounds>> /\ TypeOK
    BY DEF ReportReadiness, IInv, Base
  <1>2. running' \in BOOLEAN
    OBVIOUS
  <1>3. CASE queued \/ ready # Services \/ ~metaReady
    <2>1. End(TRUE)
      BY <1>3 DEF End
    <2> QED
      BY <2>1, <1>1, <1>2, EndKeeps
  <1>4. CASE ~queued /\ ready = Services /\ metaReady
    <2>1. queued = FALSE /\ queued' = FALSE /\ running' = TRUE
      BY <1>1, <1>4 DEF End, TypeOK
    <2>2. /\ UNCHANGED <<ref, knownRef, lateRef, secret, knownSecret, lateSecrets, fresh, jwks, knownJwks,
                         lateJwks, dep, knownDep, lateDeps, pod, changes, restarts>>
          /\ pc' = "idle" /\ next' = 1 /\ passRef' = 1 /\ credentials' = None /\ ready' = {}
      BY <1>1 DEF End, spec, config, workloads, bounds
    <2>3. TypeOK'
      BY <2>1, <2>2, <1>1, ConstantTypes DEF TypeOK
    <2>4. Current' /\ Genuine' /\ Rolled' /\ Progress'
      BY <2>2 DEF IInv, Base, Current, Genuine, Rolled, Progress, Working
    <2>5. Undisturbed'
      <3>1. Wanted' = Wanted /\ \A s \in Services : WantedTemplate(s)' = WantedTemplate(s)
        BY <2>2 DEF Wanted, WantedTemplate
      <3>2. /\ credentials = Wanted /\ HasJwks /\ Valid(credentials)
            /\ \A s \in Services : knownDep[s].rolled /\ HasTemplate(s)
        BY <1>1, <1>4, <2>1 DEF IInv, Base, Undisturbed, Genuine, Working, Configured, Templated
      <3>3. HasJwks' /\ \A s \in Services : HasTemplate(s)'
        BY <2>2, <3>1, <3>2 DEF HasJwks, HasTemplate
      <3>4. Valid(Wanted)'
        BY <3>1, <3>2 DEF Valid
      <3>5. Templated' = {}
        BY <2>2 DEF Templated
      <3> QED
        BY <2>1, <2>2, <3>2, <3>3, <3>4, <3>5 DEF Undisturbed, Working, Configured
    <2>6. ASSUME fresh = TRUE
          PROVE  Ordered'
      <3>1. Ordered /\ passRef = knownRef
        BY <2>6, <2>1, <1>1 DEF IInv, Base, Undisturbed
      <3>2. Read' = Read
        BY <2>2, <3>1, <1>1 DEF Read, Reader
      <3>3. NotOlder(Read, jwks)'
        BY <2>2, <3>1, <3>2 DEF Ordered, InOrder
      <3> QED
        BY <2>2, <3>1, <3>3, PassOrders DEF Working, Configured
    <2> QED
      BY <2>2, <2>3, <2>4, <2>5, <2>6 DEF IInv, Base
  <1> QED
    BY <1>3, <1>4

LEMMA AbortKeeps ==
    ASSUME IInv, Abort PROVE IInv'
  <1>1. End(TRUE) /\ UNCHANGED <<spec, config, workloads, bounds>> /\ running' \in {running, FALSE}
    BY DEF Abort
  <1>2. running' \in BOOLEAN
    BY <1>1 DEF IInv, Base, TypeOK
  <1> QED
    BY <1>1, <1>2, EndKeeps

-----------------------------------------------------------------------------
(* The watches.                                                            *)

\* The order carries over when the caches of the project and its Secrets catch
\* up.
LEMMA CachesOrder ==
    ASSUME TypeOK, Ordered,
           UNCHANGED <<ref, secret, jwks, knownJwks, dep, knownDep, pod, pc, passRef, credentials>>,
           knownRef' \in Refs, knownSecret' \in [Refs -> MaybeContents],
           knownRef <= knownRef', knownRef' <= ref,
           \A r \in Refs : /\ knownSecret'[r] = None \/ knownSecret'[r].home = r
                           /\ knownSecret[r].number <= knownSecret'[r].number
                           /\ knownSecret'[r].number <= secret[r].number
    PROVE  Ordered'
  <1>1. /\ passRef \in Refs /\ passRef \in Nat /\ knownRef \in Nat /\ knownRef' \in Nat
        /\ Reader \in Refs /\ Reader \in Nat /\ Reader' \in Refs /\ Reader' \in Nat
    BY ConstantTypes DEF TypeOK, Reader
  <1>2. \A r \in Refs : knownSecret'[r].number \in Nat
    <2>1. \A r \in Refs : knownSecret'[r] \in Bundles
      BY ConstantTypes
    <2> QED
      BY <2>1 DEF Bundles
  <1>3. OwnSecrets'
    BY <1>1 DEF Ordered, OwnSecrets
  <1>4. Read' \in Bundles /\ Read'.home = Reader' /\ Read'.number = knownSecret'[Reader'].number
    BY <1>1, <1>2 DEF Read, Bundle, Bundles
  <1>5. NotOlder(Read', Read)
    <2>1. Reader <= Reader'
      BY <1>1 DEF Reader
    <2>2. Read.home = Reader /\ Read.number = knownSecret[Reader].number
          /\ knownSecret[Reader].number \in Nat
      BY <1>1, ReadTypes
    <2>3. Reader' = Reader => Read'.number >= Read.number
      BY <1>1, <1>2, <1>4, <2>2
    <2> QED
      BY <1>1, <1>4, <2>1, <2>2, <2>3 DEF NotOlder
  <1>6. \A c \in Bundles : NotOlder(Read, c) => NotOlder(Read', c)
    BY <1>4, <1>5, ReadTypes, OrderLaws
  <1>7. NotOlder(Read', jwks) /\ (Working => NotOlder(Read', credentials))
    BY <1>6, ReadTypes DEF Ordered, InOrder
  <1>8. InOrder'
    BY <1>7 DEF Ordered, InOrder, Working, Configured
  <1>9. FromSecrets' /\ PodsOrder'
    BY DEF Ordered, FromSecrets, PodsOrder, Had
  <1> QED
    BY <1>3, <1>8, <1>9 DEF Ordered

LEMMA DeliverProjectKeeps ==
    ASSUME IInv, DeliverProject PROVE IInv'
  <1>1. /\ UNCHANGED <<ref, secret, knownSecret, lateSecrets, fresh, jwks, knownJwks, lateJwks,
                       dep, knownDep, lateDeps, pod, pc, next, passRef, credentials, ready, running,
                       changes, restarts>>
        /\ knownRef' = ref /\ lateRef' = FALSE /\ queued' = TRUE /\ TypeOK
    BY DEF DeliverProject, IInv, Base, config, workloads, pass, bounds
  <1>2. TypeOK'
    BY <1>1 DEF TypeOK
  <1>3. Current' /\ Genuine' /\ Rolled' /\ Progress' /\ Undisturbed'
    BY <1>1 DEF IInv, Base, Current, Genuine, Rolled, Progress, Undisturbed, Working, Valid
  <1>4. ASSUME fresh = TRUE
        PROVE  Ordered'
    <2>1. Ordered /\ knownRef <= ref /\ ref \in Refs /\ ref <= ref /\ knownSecret \in [Refs -> MaybeContents]
      BY <1>1, <1>4, ConstantTypes DEF IInv, Ordered, OwnSecrets, TypeOK
    <2>2. \A r \in Refs : /\ knownSecret[r] = None \/ knownSecret[r].home = r
                          /\ knownSecret[r].number <= knownSecret[r].number
                          /\ knownSecret[r].number <= secret[r].number
      BY <1>1, <2>1, ReadTypes DEF Ordered, OwnSecrets
    <2> QED
      BY <1>1, <2>1, <2>2, CachesOrder
  <1> QED
    BY <1>1, <1>2, <1>3, <1>4 DEF IInv, Base

LEMMA DeliverSecretKeeps ==
    ASSUME IInv, NEW r \in Refs, DeliverSecret(r) PROVE IInv'
  <1>1. /\ UNCHANGED <<ref, knownRef, lateRef, secret, fresh, jwks, knownJwks, lateJwks,
                       dep, knownDep, lateDeps, pod, pc, next, passRef, credentials, ready, running,
                       changes, restarts>>
        /\ knownSecret' = [knownSecret EXCEPT ![r] = secret[r]]
        /\ lateSecrets' = lateSecrets \ {r} /\ queued' = (queued \/ r = knownRef) /\ TypeOK
    BY DEF DeliverSecret, ReferencesSecret, IInv, Base, config, workloads, pass, bounds
  <1>2. /\ knownSecret' \in [Refs -> MaybeContents] /\ knownSecret'[r] = secret[r]
        /\ \A q \in Refs \ {r} : knownSecret'[q] = knownSecret[q]
    BY <1>1 DEF TypeOK
  <1>3. queued' \in BOOLEAN
    BY <1>1 DEF TypeOK
  <1>4. TypeOK'
    BY <1>1, <1>2, <1>3 DEF TypeOK
  <1>5. Current' /\ Genuine' /\ Rolled' /\ Progress'
    BY <1>1, <1>2 DEF IInv, Base, Current, Genuine, Rolled, Progress, Working, Valid
  <1>6. Undisturbed'
    <2>1. CASE r = knownRef
      BY <1>1, <2>1 DEF Undisturbed
    <2>2. CASE r # knownRef
      <3>1. Wanted' = Wanted /\ \A s \in Services : WantedTemplate(s)' = WantedTemplate(s)
        BY <1>1, <1>2, <2>2 DEF Wanted, WantedTemplate, TypeOK
      <3>2. queued' = queued
        BY <1>1, <2>2 DEF TypeOK
      <3>3. (HasJwks' <=> HasJwks) /\ \A s \in Services : HasTemplate(s)' <=> HasTemplate(s)
        BY <1>1, <3>1 DEF HasJwks, HasTemplate
      <3>4. Templated' = Templated /\ Templated \subseteq Services
        BY <1>1 DEF Templated
      <3> QED
        BY <1>1, <3>1, <3>2, <3>3, <3>4 DEF IInv, Base, Undisturbed, Working, Configured, Valid
    <2> QED
      BY <2>1, <2>2
  <1>7. ASSUME fresh = TRUE
        PROVE  Ordered'
    <2>1. Ordered /\ knownRef <= ref /\ knownRef \in Refs /\ knownRef <= knownRef
      BY <1>1, <1>7, ConstantTypes DEF IInv, Ordered, OwnSecrets, TypeOK
    <2>2. \A q \in Refs : /\ secret[q].number \in Nat /\ knownSecret[q].number \in Nat
      BY <1>1, ReadTypes
    <2>3. \A q \in Refs : /\ knownSecret'[q] = None \/ knownSecret'[q].home = q
                          /\ knownSecret[q].number <= knownSecret'[q].number
                          /\ knownSecret'[q].number <= secret[q].number
      BY <1>2, <2>1, <2>2 DEF Ordered, OwnSecrets
    <2> QED
      BY <1>1, <1>2, <2>1, <2>3, CachesOrder
  <1> QED
    BY <1>1, <1>4, <1>5, <1>6, <1>7 DEF IInv, Base

LEMMA DeliverConfigMapKeeps ==
    ASSUME IInv, DeliverConfigMap PROVE IInv'
  <1>1. /\ UNCHANGED <<ref, knownRef, lateRef, secret, knownSecret, lateSecrets, fresh, jwks,
                       dep, knownDep, lateDeps, pod, pc, next, passRef, credentials, ready, running,
                       changes, restarts>>
        /\ knownJwks' = jwks /\ lateJwks' = FALSE /\ queued' = TRUE /\ TypeOK
    BY DEF DeliverConfigMap, IInv, Base, spec, workloads, pass, bounds
  <1>2. TypeOK'
    BY <1>1 DEF TypeOK
  <1>3. Current' /\ Genuine' /\ Rolled' /\ Progress' /\ Undisturbed'
    BY <1>1 DEF IInv, Base, Current, Genuine, Rolled, Progress, Undisturbed, Working, Valid
  <1>4. ASSUME fresh = TRUE
        PROVE  Ordered'
    <2>1. Ordered /\ NotOlder(jwks, jwks) /\ Read' = Read
      BY <1>1, <1>4, ReadTypes, OrderLaws DEF IInv, Read, Reader
    <2>2. OwnSecrets' /\ FromSecrets' /\ PodsOrder'
      BY <1>1, <2>1 DEF Ordered, OwnSecrets, FromSecrets, Had, PodsOrder
    <2>3. InOrder'
      BY <1>1, <2>1 DEF Ordered, InOrder, Working, Configured
    <2> QED
      BY <2>2, <2>3 DEF Ordered
  <1> QED
    BY <1>1, <1>2, <1>3, <1>4 DEF IInv, Base

LEMMA DeliverDeploymentKeeps ==
    ASSUME IInv, NEW s \in Services, DeliverDeployment(s) PROVE IInv'
  <1>1. /\ UNCHANGED <<ref, knownRef, lateRef, secret, knownSecret, lateSecrets, fresh, jwks, knownJwks,
                       lateJwks, dep, pod, pc, next, passRef, credentials, ready, running,
                       changes, restarts>>
        /\ knownDep' = [knownDep EXCEPT ![s] = dep[s]] /\ lateDeps' = lateDeps \ {s}
        /\ queued' = TRUE /\ TypeOK
    BY DEF DeliverDeployment, IInv, Base, spec, config, pass, bounds
  <1>2. /\ knownDep' \in [Services -> Deployments] /\ knownDep'[s] = dep[s]
        /\ \A q \in Services \ {s} : knownDep'[q] = knownDep[q]
    BY <1>1 DEF TypeOK
  <1>3. TypeOK'
    BY <1>1, <1>2 DEF TypeOK
  <1>4. Current' /\ Genuine' /\ Rolled' /\ Progress' /\ Undisturbed'
    BY <1>1, <1>2 DEF IInv, Base, Current, Genuine, Rolled, Progress, Undisturbed, Working, Valid
  <1>5. ASSUME fresh = TRUE
        PROVE  Ordered'
    <2>1. Ordered /\ Read' = Read
      BY <1>1, <1>5 DEF IInv, Read, Reader
    <2>2. ASSUME NEW q \in Services
          PROVE  NotOlder(dep[q].template.hash, knownDep'[q].template.hash)
      <3>1. dep[q].template.hash \in Bundles
        BY <1>1, ServiceTypes, ConstantTypes
      <3>2. CASE q = s
        BY <3>1, <3>2, <1>2, OrderLaws
      <3>3. CASE q # s
        BY <3>3, <1>2, <2>1 DEF Ordered, InOrder
      <3> QED
        BY <3>2, <3>3
    <2>3. OwnSecrets' /\ FromSecrets' /\ PodsOrder'
      BY <1>1, <2>1 DEF Ordered, OwnSecrets, FromSecrets, Had, PodsOrder
    <2>4. InOrder'
      BY <1>1, <2>1, <2>2 DEF Ordered, InOrder, Working, Configured
    <2> QED
      BY <2>3, <2>4 DEF Ordered
  <1> QED
    BY <1>1, <1>3, <1>4, <1>5 DEF IInv, Base

-----------------------------------------------------------------------------
(* The workloads and the user.                                             *)

\* The pods of a service change, and what the Deployment says of them.
LEMMA WorkloadKeeps ==
    ASSUME IInv, NEW s \in Services, NEW p \in Pods, NEW up \in BOOLEAN,
           UNCHANGED <<ref, knownRef, lateRef, secret, knownSecret, lateSecrets, fresh, jwks, knownJwks,
                       lateJwks, knownDep, pc, next, passRef, credentials, ready, running, queued, changes>>,
           restarts' \in 0..MaxRestarts,
           pod' = [pod EXCEPT ![s] = p], dep' = [dep EXCEPT ![s].rolled = up],
           lateDeps' = lateDeps \cup {s},
           up => p.template = dep[s].template,
           fresh = TRUE => /\ NotOlder(p.runs, p.template.hash)
                           /\ s = Rest => NotOlder(jwks, p.runs)
                           /\ p.template = NoTemplate \/ s = Rest \/ Had(p.template.secret, p.runs)
    PROVE  IInv'
  <1>1. TypeOK
    BY DEF IInv, Base
  <1>2. /\ dep' \in [Services -> Deployments] /\ dep'[s].rolled = up
        /\ \A q \in Services : dep'[q].template = dep[q].template
        /\ \A q \in Services \ {s} : dep'[q] = dep[q]
    BY <1>1 DEF TypeOK, Deployments
  <1>3. /\ pod' \in [Services -> Pods] /\ pod'[s] = p
        /\ \A q \in Services \ {s} : pod'[q] = pod[q]
    BY <1>1 DEF TypeOK
  <1>4. TypeOK'
    BY <1>1, <1>2, <1>3 DEF TypeOK
  <1>5. Current' /\ Genuine' /\ Progress'
    BY <1>2 DEF IInv, Base, Current, Genuine, Progress, Working, Valid
  <1>6. Rolled'
    BY <1>2, <1>3 DEF IInv, Base, Rolled
  <1>7. Undisturbed'
    <2>1. Wanted' = Wanted /\ \A q \in Services : WantedTemplate(q)' = WantedTemplate(q)
      BY DEF Wanted, WantedTemplate
    <2>2. (HasJwks' <=> HasJwks) /\ \A q \in Services : HasTemplate(q) => HasTemplate(q)'
      BY <2>1 DEF HasJwks, HasTemplate
    <2>3. Templated' = Templated /\ Templated \subseteq Services
      BY DEF Templated
    <2> QED
      BY <2>1, <2>2, <2>3 DEF IInv, Base, Undisturbed, Working, Configured, Valid
  <1>8. ASSUME fresh = TRUE
        PROVE  Ordered'
    <2>1. Ordered /\ Read' = Read
      BY <1>8 DEF IInv, Read, Reader
    <2>2. OwnSecrets' /\ InOrder'
      BY <1>2, <2>1 DEF Ordered, OwnSecrets, InOrder, Working, Configured
    <2>3. ASSUME NEW q \in Services
          PROVE  /\ NotOlder(pod'[q].runs, pod'[q].template.hash)
                 /\ pod'[q].template = NoTemplate \/ q = Rest \/ Had(pod'[q].template.secret, pod'[q].runs)
      <3>1. CASE q = s
        BY <3>1, <1>3, <1>8
      <3>2. CASE q # s
        BY <3>2, <1>3, <2>1 DEF Ordered, PodsOrder, FromSecrets
      <3> QED
        BY <3>1, <3>2
    <2>4. NotOlder(jwks, pod'[Rest].runs)
      BY <1>3, <1>8, <2>1, ConstantTypes DEF Ordered, PodsOrder
    <2>5. FromSecrets' /\ PodsOrder'
      BY <1>2, <2>1, <2>3, <2>4 DEF Ordered, FromSecrets, PodsOrder, Had
    <2> QED
      BY <2>2, <2>5 DEF Ordered
  <1> QED
    BY <1>4, <1>5, <1>6, <1>7, <1>8 DEF IInv, Base

LEMMA RollOutKeeps ==
    ASSUME IInv, NEW s \in Services, RollOut(s) PROVE IInv'
  <1>1. /\ UNCHANGED <<ref, knownRef, lateRef, secret, knownSecret, lateSecrets, fresh, jwks, knownJwks,
                       lateJwks, knownDep, pc, next, passRef, credentials, ready, running, queued,
                       changes, restarts>>
        /\ dep' = [dep EXCEPT ![s].rolled = TRUE] /\ lateDeps' = lateDeps \cup {s}
        /\ dep[s].template # NoTemplate /\ TypeOK
    BY DEF RollOut, IInv, Base, spec, config, pass, bounds
  <1>2. restarts' \in 0..MaxRestarts /\ TRUE \in BOOLEAN
    BY <1>1 DEF TypeOK
  <1>3. CASE pod[s].template = dep[s].template /\ UNCHANGED pod
    <2>1. pod' = [pod EXCEPT ![s] = pod[s]] /\ pod[s] \in Pods
      BY <1>1, <1>3 DEF TypeOK
    <2>2. fresh = TRUE => /\ NotOlder(pod[s].runs, pod[s].template.hash)
                          /\ s = Rest => NotOlder(jwks, pod[s].runs)
                          /\ pod[s].template = NoTemplate \/ s = Rest
                                \/ Had(pod[s].template.secret, pod[s].runs)
      BY DEF IInv, Ordered, PodsOrder, FromSecrets
    <2> QED
      BY <1>1, <1>2, <1>3, <2>1, <2>2, WorkloadKeeps
  <1>4. CASE /\ Source(s) # None
             /\ pod' = [pod EXCEPT ![s] = [template |-> dep[s].template, runs |-> Source(s)]]
    <2> DEFINE p == [template |-> dep[s].template, runs |-> Source(s)]
    \* A Secret a template names is one of the project's, so a pod reads its contents.
    <2>1. ASSUME fresh = TRUE
          PROVE  /\ Source(s) \in MaybeContents /\ NotOlder(Source(s), dep[s].template.hash)
                 /\ s = Rest => NotOlder(jwks, Source(s))
                 /\ s # Rest => Had(dep[s].template.secret, Source(s))
      <3>1. Ordered
        BY <2>1 DEF IInv
      <3>2. CASE s = Rest
        <4>1. Source(s) = jwks
          BY <3>2 DEF Source
        <4>2. jwks \in Bundles /\ jwks \in MaybeContents /\ NotOlder(jwks, dep[s].template.hash)
          BY <3>1, <1>1, ReadTypes DEF Ordered, InOrder, TypeOK
        <4>3. NotOlder(jwks, jwks)
          BY <4>2, OrderLaws
        <4> QED
          BY <3>2, <4>1, <4>2, <4>3
      <3>3. CASE s # Rest
        <4> DEFINE t == dep[s].template
        <4>1. Had(t.secret, t.hash)
          BY <1>1, <3>1, <3>3 DEF Ordered, FromSecrets
        <4>2. t.secret \in Refs /\ t.hash.home = t.secret /\ t.hash.number <= secret[t.secret].number
          BY <4>1 DEF Had
        <4>3. Source(s) = secret[t.secret]
          BY <3>3 DEF Source
        <4>4. /\ secret[t.secret] \in MaybeContents /\ secret[t.secret].home = t.secret
              /\ secret[t.secret].number \in Nat
          BY <1>1, <1>4, <3>1, <4>2, <4>3, ReadTypes DEF TypeOK, Ordered, OwnSecrets
        <4>5. t.hash.number \in Nat /\ t.secret \in Nat
          BY <1>1, <4>2, ServiceTypes, ConstantTypes DEF Bundles
        <4> HIDE DEF t
        <4>6. NotOlder(secret[t.secret], t.hash) /\ Had(t.secret, secret[t.secret])
          BY <4>2, <4>4, <4>5 DEF NotOlder, Had
        <4> QED
          BY <3>3, <4>3, <4>4, <4>6 DEF t
      <3> QED
        BY <3>2, <3>3
    <2>2. Source(s) \in MaybeContents
      <3>1. s # Rest => dep[s].template.secret \in Refs
        BY <1>1 DEF IInv, Base, Genuine
      <3> QED
        BY <1>1, <3>1 DEF Source, TypeOK
    <2>3. p \in Pods /\ p.template = dep[s].template /\ p.runs = Source(s)
      BY <1>1, <2>2, ServiceTypes DEF Pods
    <2>4. fresh = TRUE => /\ NotOlder(p.runs, p.template.hash)
                          /\ s = Rest => NotOlder(jwks, p.runs)
                          /\ p.template = NoTemplate \/ s = Rest \/ Had(p.template.secret, p.runs)
      BY <2>1, <2>3
    <2>5. pod' = [pod EXCEPT ![s] = p]
      BY <1>4
    <2> HIDE DEF p
    <2> QED
      BY <1>1, <1>2, <2>3, <2>4, <2>5, WorkloadKeeps
  <1> QED
    BY <1>3, <1>4 DEF RollOut

LEMMA LosePodKeeps ==
    ASSUME IInv, NEW s \in Services, LosePod(s) PROVE IInv'
  <1>1. /\ UNCHANGED <<ref, knownRef, lateRef, secret, knownSecret, lateSecrets, fresh, jwks, knownJwks,
                       lateJwks, knownDep, pc, next, passRef, credentials, ready, running, queued, changes>>
        /\ pod' = [pod EXCEPT ![s] = NoPod] /\ dep' = [dep EXCEPT ![s].rolled = FALSE]
        /\ lateDeps' = lateDeps \cup {s}
        /\ restarts < MaxRestarts /\ restarts' = restarts + 1 /\ TypeOK
    BY DEF LosePod, IInv, Base, spec, config, pass
  <1>2. restarts' \in 0..MaxRestarts /\ FALSE \in BOOLEAN
    BY <1>1, ConstantsAssumption DEF TypeOK
  <1>3. NoPod \in Pods /\ NoPod.template = NoTemplate /\ NoPod.runs = None
    BY ConstantTypes DEF NoPod, Pods
  <1>4. NotOlder(None, None) /\ NotOlder(jwks, None)
    BY <1>1, ConstantTypes, ReadTypes, OrderLaws
  <1>5. /\ NotOlder(NoPod.runs, NoPod.template.hash)
        /\ s = Rest => NotOlder(jwks, NoPod.runs)
        /\ NoPod.template = NoTemplate \/ s = Rest \/ Had(NoPod.template.secret, NoPod.runs)
    BY <1>3, <1>4, ConstantTypes
  <1> QED
    BY <1>1, <1>2, <1>3, <1>5, WorkloadKeeps

\* What the user does leaves the caches late; the order is kept only when what
\* is changed is newer.
LEMMA UserKeeps ==
    ASSUME IInv,
           UNCHANGED <<knownRef, knownSecret, jwks, knownJwks, lateJwks, dep, knownDep, lateDeps, pod,
                       pc, next, passRef, credentials, ready, running, queued, restarts>>,
           TypeOK', fresh' = TRUE => fresh = TRUE,
           lateRef' = TRUE \/ UNCHANGED <<ref, lateRef>>,
           \A r \in Refs : r \in lateSecrets' \/ (r \notin lateSecrets /\ secret'[r] = secret[r]),
           fresh' = TRUE => /\ ref <= ref'
                            /\ \A r \in Refs : /\ secret[r].number <= secret'[r].number
                                               /\ secret'[r] = None \/ secret'[r].home = r
    PROVE  IInv'
  <1>1. TypeOK /\ ref \in Nat /\ ref' \in Nat /\ knownRef \in Nat
    BY ConstantTypes DEF IInv, Base, TypeOK
  <1>2. Current'
    BY DEF IInv, Base, Current
  <1>3. Genuine' /\ Rolled' /\ Progress'
    BY DEF IInv, Base, Genuine, Rolled, Progress, Working, Valid
  <1>4. Undisturbed'
    <2>1. Wanted' = Wanted /\ \A q \in Services : WantedTemplate(q)' = WantedTemplate(q)
      BY DEF Wanted, WantedTemplate
    <2>2. (HasJwks' <=> HasJwks) /\ \A q \in Services : HasTemplate(q)' <=> HasTemplate(q)
      BY <2>1 DEF HasJwks, HasTemplate
    <2>3. Templated' = Templated /\ Templated \subseteq Services
      BY DEF Templated
    <2> QED
      BY <2>1, <2>2, <2>3 DEF IInv, Base, Undisturbed, Working, Configured, Valid
  <1>5. ASSUME fresh' = TRUE
        PROVE  Ordered'
    <2>1. Ordered /\ Read' = Read
      BY <1>5 DEF IInv, Read, Reader
    <2>2. \A r \in Refs : /\ knownSecret[r].number \in Nat /\ secret[r].number \in Nat
                          /\ secret'[r].number \in Nat
      <3>1. \A r \in Refs : secret'[r] \in Bundles
        BY ConstantTypes DEF TypeOK
      <3> QED
        BY <1>1, <3>1, ReadTypes DEF Bundles
    <2>3. OwnSecrets'
      BY <1>1, <1>5, <2>1, <2>2 DEF Ordered, OwnSecrets
    <2>4. InOrder' /\ PodsOrder'
      BY <2>1 DEF Ordered, InOrder, PodsOrder, Working, Configured
    <2>5. ASSUME NEW r, NEW b \in Bundles, Had(r, b)
          PROVE  r \in Refs /\ b.home = r /\ b.number <= secret'[r].number
      <3>1. r \in Refs /\ b.home = r /\ b.number <= secret[r].number /\ b.number \in Nat
        BY <2>5 DEF Had, Bundles
      <3> QED
        BY <1>5, <2>2, <3>1
    <2>6. FromSecrets'
      <3>1. ASSUME NEW s \in Services
            PROVE  /\ dep[s].template = NoTemplate \/ s = Rest
                         \/ Had(dep[s].template.secret, dep[s].template.hash)'
                   /\ pod[s].template = NoTemplate \/ s = Rest
                         \/ Had(pod[s].template.secret, pod[s].runs)'
        <4>1. dep[s].template.hash \in Bundles /\ pod[s].runs \in Bundles
          BY <1>1, ServiceTypes, ConstantTypes
        <4>2. Had(dep[s].template.secret, dep[s].template.hash)
                 => Had(dep[s].template.secret, dep[s].template.hash)'
          BY <4>1, <2>5 DEF Had
        <4>3. Had(pod[s].template.secret, pod[s].runs) => Had(pod[s].template.secret, pod[s].runs)'
          BY <4>1, <2>5 DEF Had
        <4> QED
          BY <4>2, <4>3, <2>1 DEF Ordered, FromSecrets
      <3> QED
        BY <3>1 DEF FromSecrets
    <2> QED
      BY <2>3, <2>4, <2>6 DEF Ordered
  <1> QED
    BY <1>2, <1>3, <1>4, <1>5 DEF IInv, Base

LEMMA WriteSecretKeeps ==
    ASSUME IInv, NEW r \in Refs, NEW b \in MaybeContents, WriteSecret(r, b) PROVE IInv'
  <1>1. /\ UNCHANGED <<ref, knownRef, lateRef, knownSecret, jwks, knownJwks, lateJwks, dep, knownDep,
                       lateDeps, pod, pc, next, passRef, credentials, ready, running, queued, restarts>>
        /\ secret' = [secret EXCEPT ![r] = b] /\ lateSecrets' = lateSecrets \cup {r}
        /\ changes < MaxChanges /\ changes' = changes + 1 /\ TypeOK
    BY DEF WriteSecret, IInv, Base, config, workloads, pass
  <1>2. fresh' = (fresh /\ b.home = r /\ b.number > secret[r].number)
    BY DEF WriteSecret
  <1>3. fresh' \in BOOLEAN /\ (fresh' = TRUE => fresh = TRUE /\ b.home = r /\ b.number > secret[r].number)
    BY <1>1, <1>2 DEF TypeOK
  <1>4. /\ secret' \in [Refs -> MaybeContents] /\ secret'[r] = b
        /\ \A q \in Refs \ {r} : secret'[q] = secret[q]
    BY <1>1 DEF TypeOK
  <1>5. changes' \in 0..MaxChanges
    BY <1>1, ConstantsAssumption DEF TypeOK
  <1>6. TypeOK'
    BY <1>1, <1>3, <1>4, <1>5 DEF TypeOK
  <1>7. \A q \in Refs : q \in lateSecrets' \/ (q \notin lateSecrets /\ secret'[q] = secret[q])
    BY <1>1, <1>4
  <1>8. ASSUME fresh' = TRUE
        PROVE  /\ ref <= ref'
               /\ \A q \in Refs : /\ secret[q].number <= secret'[q].number
                                  /\ secret'[q] = None \/ secret'[q].home = q
    <2>1. /\ ref \in Nat /\ b.number \in Nat /\ \A q \in Refs : secret[q].number \in Nat
          /\ b \in Bundles
      BY <1>1, ConstantTypes, ReadTypes DEF TypeOK, Bundles
    <2>2. \A q \in Refs : secret[q] = None \/ secret[q].home = q
      BY <1>3, <1>8 DEF IInv, Ordered, OwnSecrets
    <2> QED
      BY <1>1, <1>3, <1>4, <1>8, <2>1, <2>2
  <1> QED
    BY <1>1, <1>3, <1>6, <1>7, <1>8, UserKeeps

LEMMA SwitchSecretKeeps ==
    ASSUME IInv, NEW r \in Refs, SwitchSecret(r) PROVE IInv'
  <1>1. /\ UNCHANGED <<knownRef, secret, knownSecret, lateSecrets, jwks, knownJwks, lateJwks, dep,
                       knownDep, lateDeps, pod, pc, next, passRef, credentials, ready, running, queued,
                       restarts>>
        /\ ref' = r /\ lateRef' = TRUE
        /\ changes < MaxChanges /\ changes' = changes + 1 /\ TypeOK
    BY DEF SwitchSecret, IInv, Base, config, workloads, pass
  <1>2. fresh' = (fresh /\ r > ref)
    BY DEF SwitchSecret
  <1>3. fresh' \in BOOLEAN /\ (fresh' = TRUE => fresh = TRUE /\ r > ref)
    BY <1>1, <1>2 DEF TypeOK
  <1>4. changes' \in 0..MaxChanges
    BY <1>1, ConstantsAssumption DEF TypeOK
  <1>5. TypeOK'
    BY <1>1, <1>3, <1>4 DEF TypeOK
  <1>6. \A q \in Refs : q \in lateSecrets' \/ (q \notin lateSecrets /\ secret'[q] = secret[q])
    BY <1>1
  <1>7. ASSUME fresh' = TRUE
        PROVE  /\ ref <= ref'
               /\ \A q \in Refs : /\ secret[q].number <= secret'[q].number
                                  /\ secret'[q] = None \/ secret'[q].home = q
    <2>1. /\ ref \in Nat /\ r \in Nat /\ \A q \in Refs : secret[q].number \in Nat
      BY <1>1, ConstantTypes, ReadTypes DEF TypeOK
    <2>2. \A q \in Refs : secret[q] = None \/ secret[q].home = q
      BY <1>3, <1>7 DEF IInv, Ordered, OwnSecrets
    <2> QED
      BY <1>1, <1>3, <1>7, <2>1, <2>2
  <1> QED
    BY <1>1, <1>3, <1>5, <1>6, <1>7, UserKeeps

-----------------------------------------------------------------------------
(* The invariant, and the theorems that follow from it.                    *)

LEMMA InitInv == Init => IInv
  <1> SUFFICES ASSUME Init PROVE IInv
    OBVIOUS
  <1>1. /\ ref = 1 /\ knownRef = 1 /\ knownSecret = secret /\ jwks = None /\ knownJwks = None
        /\ knownDep = dep /\ lateSecrets = {} /\ lateDeps = {}
        /\ dep = [s \in Services |-> NoDeployment] /\ pod = [s \in Services |-> NoPod]
        /\ pc = "idle" /\ next = 1 /\ passRef = 1 /\ credentials = None /\ ready = {}
        /\ changes = 0 /\ restarts = 0
    BY DEF Init
  <1>2. /\ lateRef \in BOOLEAN /\ lateJwks \in BOOLEAN /\ running \in BOOLEAN
        /\ queued \in BOOLEAN /\ queued = TRUE /\ fresh \in BOOLEAN
    BY Zenon DEF Init
  <1>3. PICK there \in SUBSET Refs :
           secret = [r \in Refs |-> IF r \in there THEN Bundle(r, 1) ELSE None]
    BY DEF Init
  <1>4. \A r \in Refs : Bundle(r, 1) \in MaybeContents /\ Bundle(r, 1).home = r
    BY ConstantsAssumption DEF Bundle, MaybeContents, Contents
  <1>5. \A r \in Refs : secret[r] \in MaybeContents /\ (secret[r] = None \/ secret[r].home = r)
    BY <1>3, <1>4, ConstantTypes
  <1>6. secret \in [Refs -> MaybeContents]
    BY <1>3, <1>5
  <1>7. NoDeployment \in Deployments /\ NoDeployment.template = NoTemplate /\ NoDeployment.rolled = FALSE
    BY ConstantTypes DEF NoDeployment, Deployments
  <1>8. NoPod \in Pods /\ NoPod.template = NoTemplate /\ NoPod.runs = None
    BY ConstantTypes DEF NoPod, Pods
  <1>9. changes \in 0..MaxChanges /\ restarts \in 0..MaxRestarts
    BY <1>1, ConstantsAssumption
  <1>10. \A s \in Services : dep[s] = NoDeployment /\ pod[s] = NoPod
    BY <1>1
  <1>11. TypeOK
    BY <1>1, <1>2, <1>6, <1>7, <1>8, <1>9, ConstantTypes DEF TypeOK
  <1>12. Current /\ Genuine /\ Rolled /\ Progress /\ Undisturbed
    BY <1>1, <1>2, <1>7, <1>8, <1>10, ConstantTypes
       DEF Current, Genuine, Rolled, Progress, Undisturbed, Working
  <1>13. OwnSecrets
    BY <1>1, <1>5, <1>11, ReadTypes, ConstantTypes DEF OwnSecrets
  <1>14. \A c \in Bundles : NotOlder(c, None)
    BY OrderLaws
  <1>15. InOrder
    BY <1>1, <1>7, <1>10, <1>11, <1>14, ReadTypes, ConstantTypes DEF InOrder, Working, Configured
  <1>16. FromSecrets /\ PodsOrder
    BY <1>1, <1>7, <1>8, <1>10, <1>14, ConstantTypes DEF FromSecrets, PodsOrder
  <1> QED
    BY <1>11, <1>12, <1>13, <1>15, <1>16 DEF IInv, Base, Ordered

LEMMA NextInv == IInv /\ [Next]_vars => IInv'
  <1> SUFFICES ASSUME IInv, [Next]_vars PROVE IInv'
    OBVIOUS
  <1>1. CASE Reconciler
    BY <1>1, StartKeeps, ReconcileSecretsKeeps, ReconcileJWKSConfigMapKeeps,
       CreateOrUpdateDeploymentKeeps, DeploymentStatusKeeps, ReportReadinessKeeps, AbortKeeps
       DEF Reconciler
  <1>2. CASE Watches
    BY <1>2, DeliverProjectKeeps, DeliverConfigMapKeeps, DeliverSecretKeeps, DeliverDeploymentKeeps
       DEF Watches
  <1>3. CASE \E s \in Services : RollOut(s) \/ LosePod(s)
    BY <1>3, RollOutKeeps, LosePodKeeps
  <1>4. CASE (\E r \in Refs, b \in MaybeContents : WriteSecret(r, b)) \/ (\E r \in Refs : SwitchSecret(r))
    BY <1>4, WriteSecretKeeps, SwitchSecretKeeps
  <1>5. CASE UNCHANGED vars
    <2>1. UNCHANGED <<ref, knownRef, lateRef, secret, knownSecret, lateSecrets, fresh, jwks, knownJwks,
                      lateJwks, dep, knownDep, lateDeps, pod, pc, next, passRef, credentials, ready,
                      running, queued, changes, restarts>>
      BY <1>5 DEF vars, spec, config, workloads, pass, bounds
    <2>2. TypeOK'
      BY <2>1 DEF IInv, Base, TypeOK
    <2>3. (fresh' = TRUE => fresh = TRUE) /\ UNCHANGED <<ref, lateRef>>
      BY <2>1
    <2>4. Current' /\ Genuine' /\ Rolled' /\ Progress'
      BY <2>1 DEF IInv, Base, Current, Genuine, Rolled, Progress, Working, Valid
    <2>5. Undisturbed'
      BY <2>1 DEF IInv, Base, Undisturbed, Working, Configured, Templated, HasJwks, HasTemplate,
                  Valid, Wanted, WantedTemplate
    <2>6. ASSUME fresh = TRUE
          PROVE  Ordered'
      <3>1. Ordered /\ Read' = Read
        BY <2>1, <2>6 DEF IInv, Read, Reader
      <3>2. OwnSecrets' /\ InOrder'
        BY <2>1, <3>1 DEF Ordered, OwnSecrets, InOrder, Working, Configured
      <3>3. FromSecrets' /\ PodsOrder'
        BY <2>1, <3>1 DEF Ordered, FromSecrets, PodsOrder, Had
      <3> QED
        BY <3>2, <3>3 DEF Ordered
    <2> QED
      BY <2>2, <2>3, <2>4, <2>5, <2>6 DEF IInv, Base
  <1> QED
    BY <1>1, <1>2, <1>3, <1>4, <1>5 DEF Next

\* The variables always have their types; the place in Services and the
\* contents of Secrets, ConfigMap and templates stay within their sets.
THEOREM TypeCorrect == Spec => []TypeOK
  <1>1. IInv => TypeOK
    BY DEF IInv, Base
  <1> QED
    BY <1>1, InitInv, NextInv, PTL DEF Spec

\* As long as no contents and no reference come back, pods never run with a
\* bundle older than the hash in their template, however the caches lag: the
\* ConfigMap is written before the templates.
THEOREM PodsCurrent == Spec => []PodsNotBehind
  <1>1. IInv => PodsNotBehind
    BY DEF IInv, Base, TypeOK, Ordered, PodsOrder, PodsNotBehind
  <1> QED
    BY <1>1, InitInv, NextInv, PTL DEF Spec

\* A bundle ValidateProjectCredentials refuses never reaches the ConfigMap or a
\* template.
THEOREM NeverInvalid == Spec => []OnlyValidated
  <1>1. IInv => OnlyValidated
    BY DEF IInv, Base, Genuine, OnlyValidated
  <1> QED
    BY <1>1, InitInv, NextInv, PTL DEF Spec

\* At rest the caches are current and hold what the pass has found.
LEMMA RestFacts ==
    ASSUME IInv, AtRest
    PROVE  /\ TypeOK /\ Wanted = secret[ref] /\ knownRef = ref /\ Valid(secret[ref])
           /\ jwks = secret[ref] /\ running
           /\ \A s \in Services : /\ dep[s].template = WantedTemplate(s) /\ dep[s].rolled
                                  /\ pod[s].template = dep[s].template
  <1>1. /\ pc = "idle" /\ queued = FALSE /\ lateRef = FALSE /\ lateJwks = FALSE
        /\ lateSecrets = {} /\ lateDeps = {} /\ TypeOK
    BY DEF AtRest, IInv, Base, TypeOK
  <1>2. knownRef = ref /\ knownJwks = jwks /\ ref \in Refs
        /\ (\A r \in Refs : knownSecret[r] = secret[r]) /\ \A s \in Services : knownDep[s] = dep[s]
    BY <1>1 DEF IInv, Base, Current, TypeOK
  <1>3. running = TRUE /\ Valid(Wanted) /\ HasJwks /\ \A s \in Services : knownDep[s].rolled /\ HasTemplate(s)
    BY <1>1 DEF IInv, Base, Undisturbed
  <1>4. Wanted = secret[ref] /\ jwks = secret[ref]
    BY <1>1, <1>2, <1>3 DEF Wanted, HasJwks
  <1>5. \A s \in Services : /\ dep[s].template = WantedTemplate(s) /\ dep[s].rolled
    BY <1>1, <1>2, <1>3 DEF HasTemplate
  <1>6. \A s \in Services : pod[s].template = dep[s].template
    BY <1>5 DEF IInv, Base, Rolled
  <1> QED
    BY <1>1, <1>2, <1>3, <1>4, <1>5, <1>6

\* The operator rests only when ConfigMap and templates are those of the bundle
\* of the project, every service is rolled out and the stored condition says so,
\* also when contents come back.
THEOREM RestsWhenRolled == Spec => []RestsRolled
  <1>1. ASSUME IInv, AtRest
        PROVE  /\ Valid(secret[ref]) /\ jwks = secret[ref] /\ running
               /\ \A s \in Services :
                     /\ dep[s].template = [secret |-> IF s = Rest THEN 0 ELSE ref, hash |-> secret[ref]]
                     /\ dep[s].rolled /\ pod[s].template = dep[s].template
    BY <1>1, RestFacts DEF WantedTemplate
  <1>2. IInv => RestsRolled
    BY <1>1 DEF RestsRolled
  <1> QED
    BY <1>2, InitInv, NextInv, PTL DEF Spec

\* As long as no contents and no reference come back, the pods of a project at
\* rest run with the bundle it refers to.
THEOREM ServedWhenFresh == Spec => []RestsServed
  <1>1. ASSUME IInv, AtRest, fresh = TRUE, NEW s \in Services
        PROVE  pod[s].runs = secret[ref]
    <2> DEFINE b == secret[ref]
    <2>1. /\ Ordered /\ TypeOK /\ Valid(b) /\ jwks = b /\ knownRef = ref /\ ref \in Refs
          /\ Wanted = b /\ dep[s].template = WantedTemplate(s) /\ pod[s].template = dep[s].template
      BY <1>1, RestFacts DEF IInv, TypeOK
    <2>2. b \in Bundles /\ b.home = ref /\ pod[s].runs \in Bundles /\ b.number \in Nat /\ ref \in Nat
      BY <2>1, ReadTypes, ServiceTypes, ConstantTypes DEF Ordered, OwnSecrets, Valid
    <2>3. pod[s].template.hash = b /\ (s # Rest => pod[s].template.secret = ref)
      BY <2>1 DEF WantedTemplate
    <2>4. NotOlder(pod[s].runs, b)
      BY <2>1, <2>3 DEF Ordered, PodsOrder
    <2>5. NotOlder(b, pod[s].runs)
      <3>1. CASE s = Rest
        BY <2>1, <3>1 DEF Ordered, PodsOrder
      <3>2. CASE s # Rest
        <4>1. pod[s].template # NoTemplate
          BY <2>1, <2>3, ConstantTypes DEF Valid
        <4>2. Had(ref, pod[s].runs)
          BY <2>1, <2>3, <3>2, <4>1 DEF Ordered, FromSecrets
        <4>3. pod[s].runs.home = ref /\ pod[s].runs.number <= b.number /\ pod[s].runs.number \in Nat
          BY <2>2, <4>2 DEF Had, Bundles
        <4> QED
          BY <2>2, <4>3 DEF NotOlder
      <3> QED
        BY <3>1, <3>2
    <2> HIDE DEF b
    <2>6. pod[s].runs = b
      BY <2>2, <2>4, <2>5, OrderLaws
    <2> QED
      BY <2>6 DEF b
  <1>2. IInv => RestsServed
    BY <1>1 DEF RestsServed, IInv, Base, TypeOK
  <1> QED
    BY <1>2, InitInv, NextInv, PTL DEF Spec
=============================================================================
