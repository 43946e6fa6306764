--------------------------- MODULE ServiceRollout ---------------------------
(***************************************************************************)
(* How a credential bundle reaches the pods of the core services: the      *)
(* validated bundle, the JWKS ConfigMap derived from it (phase 2), the     *)
(* hash of the bundle in the pod templates (phase 5), the Deployments'     *)
(* rollouts and the readiness the project reports.                         *)
(*                                                                         *)
(* The operator compares contents: a Secret may be given contents it, or   *)
(* another Secret, had before, and then the hash is the earlier one too.   *)
(* Pods read the Secret, or the ConfigMap, when they start.  Reads of the  *)
(* operator come from a cache per object; one action is one call.          *)
(***************************************************************************)
EXTENDS Naturals

CONSTANTS
    NumServices,      \* the core services that use credentials, in the order of
                      \* reconcileServices: all but Meta
    Rest,             \* the one that reads the JWKS ConfigMap
    NumRefs,          \* the credential Secrets the project may refer to
    NumBundles,       \* bound on the bundles made for each of them
    Invalid,          \* the bundles ValidateProjectCredentials refuses
    MaxChanges,       \* bound on how often Secrets or the reference are changed
    MaxRestarts       \* bound on pods that restart by themselves

Services == 1..NumServices
Refs == 1..NumRefs

\* The contents of a credential Secret, named by the Secret they were made for
\* and their place among those; a Secret may hold any of them.
Bundle(r, n) == [home |-> r, number |-> n]
Contents == [home : Refs, number : 1..NumBundles]

\* No Secret or ConfigMap.
None == Bundle(0, 0)
MaybeContents == Contents \cup {None}

ASSUME ConstantsAssumption ==
    /\ NumServices \in Nat \ {0} /\ NumRefs \in Nat \ {0} /\ NumBundles \in Nat \ {0}
    /\ Rest \in Services
    /\ Invalid \subseteq Contents
    /\ MaxChanges \in Nat /\ MaxRestarts \in Nat

\* What a pod template says of the credentials: the Secret that its environment
\* refers to (0 is none) and the hash of the bundle.  No Deployment is one
\* without a hash.
Templates == [secret : 0..NumRefs, hash : MaybeContents]
NoTemplate == [secret |-> 0, hash |-> None]

Deployments == [template : Templates, rolled : BOOLEAN]
Pods == [template : Templates, runs : MaybeContents]

VARIABLES
    ref, knownRef,            \* projectCredentialsSecret: stored and cached
    secret, knownSecret,      \* the credential Secrets: stored and cached
    jwks, knownJwks,          \* the JWKS ConfigMap: stored and cached
    dep, knownDep,            \* the Deployments: stored and cached
    lateRef, lateSecrets, lateJwks, lateDeps,
                              \* whose cached resource version is not the stored one
    pod,                      \* pod[s]: the template of the pods of s, and what they run
    pc, next,                 \* the step of the pass and its place in Services
    passRef,                  \* the reference in the project the pass has read
    credentials,              \* the bundle the pass has validated
    ready,                    \* the services the pass has seen ready
    running,                  \* is the stored Ready condition True?
    queued,
    fresh,                    \* no contents and no reference have come back so far
    changes, restarts         \* how often these have happened

spec == <<ref, knownRef, lateRef, secret, knownSecret, lateSecrets, fresh>>
config == <<jwks, knownJwks, lateJwks>>
workloads == <<dep, knownDep, lateDeps, pod>>
pass == <<pc, next, passRef, credentials, ready>>
bounds == <<changes, restarts>>
vars == <<spec, config, workloads, pass, running, queued, bounds>>

TypeOK ==
    /\ ref \in Refs /\ knownRef \in Refs /\ lateRef \in BOOLEAN
    /\ secret \in [Refs -> MaybeContents] /\ knownSecret \in [Refs -> MaybeContents]
    /\ lateSecrets \subseteq Refs
    /\ jwks \in MaybeContents /\ knownJwks \in MaybeContents /\ lateJwks \in BOOLEAN
    /\ dep \in [Services -> Deployments] /\ knownDep \in [Services -> Deployments]
    /\ lateDeps \subseteq Services
    /\ pod \in [Services -> Pods]
    /\ pc \in {"idle", "validate", "jwks", "deployment", "status", "end"}
    /\ next \in Services /\ passRef \in Refs
    /\ credentials \in MaybeContents
    /\ ready \subseteq Services
    /\ running \in BOOLEAN /\ queued \in BOOLEAN /\ fresh \in BOOLEAN
    /\ changes \in 0..MaxChanges /\ restarts \in 0..MaxRestarts

NoDeployment == [template |-> NoTemplate, rolled |-> FALSE]
NoPod == [template |-> NoTemplate, runs |-> None]

Init ==
    /\ ref = 1 /\ knownRef = 1 /\ lateRef = FALSE
    /\ \E there \in SUBSET Refs :
          /\ 1 \in there
          /\ secret = [r \in Refs |-> IF r \in there THEN Bundle(r, 1) ELSE None]
    /\ knownSecret = secret /\ lateSecrets = {}
    /\ jwks = None /\ knownJwks = None /\ lateJwks = FALSE
    /\ dep = [s \in Services |-> NoDeployment] /\ knownDep = dep /\ lateDeps = {}
    /\ pod = [s \in Services |-> NoPod]
    /\ pc = "idle" /\ next = 1 /\ passRef = 1 /\ credentials = None /\ ready = {}
    /\ running = FALSE /\ queued = TRUE /\ fresh = TRUE
    /\ changes = 0 /\ restarts = 0

-----------------------------------------------------------------------------
(* The pass.                                                               *)

\* The pass ends, with or without the key in the queue.
End(again) ==
    /\ pc' = "idle" /\ next' = 1 /\ passRef' = 1 /\ credentials' = None /\ ready' = {}
    /\ queued' = again

\* The project is read once, at the beginning.
Start ==
    /\ pc = "idle" /\ queued
    /\ pc' = "validate" /\ queued' = FALSE /\ passRef' = knownRef
    /\ UNCHANGED <<spec, config, workloads, next, credentials, ready, running, bounds>>

\* Mutant: any Secret that is there will do.
MutantValid(b) == b # None

Valid(b) == b # None /\ b \notin Invalid

\* reconcileSecrets: the referenced Secret is missing or invalid
\* (failReconcileSecrets), or its bundle is the one of this pass.
ReconcileSecrets ==
    /\ pc = "validate"
    /\ LET b == knownSecret[passRef]
       IN  \/ /\ Valid(b)
              /\ pc' = "jwks" /\ credentials' = b
              /\ UNCHANGED <<next, passRef, ready, queued, running>>
           \/ ~Valid(b) /\ End(TRUE) /\ running' = FALSE
    /\ UNCHANGED <<spec, config, workloads, bounds>>

\* Mutant: the ConfigMap is made once, like a generated Secret.
MutantReconcileJWKSConfigMap ==
    /\ pc = "jwks"
    /\ ~lateJwks
    /\ jwks' = IF jwks = None THEN credentials ELSE jwks
    /\ lateJwks' = (jwks = None)
    /\ pc' = "deployment"
    /\ UNCHANGED <<spec, knownJwks, workloads, next, passRef, credentials, ready, running, queued, bounds>>

\* reconcileJWKSConfigMap: createOrUpdateConfigMap writes nothing when the
\* cached ConfigMap has the contents; otherwise a late cache is refused.
ReconcileJWKSConfigMap ==
    /\ pc = "jwks"
    /\ \/ /\ knownJwks = credentials \/ ~lateJwks
          /\ jwks' = IF knownJwks = credentials THEN jwks ELSE credentials
          /\ lateJwks' = (lateJwks \/ knownJwks # credentials)
          /\ pc' = "deployment"
          /\ UNCHANGED <<next, passRef, credentials, ready, queued>>
       \/ knownJwks # credentials /\ lateJwks /\ End(TRUE) /\ UNCHANGED <<jwks, lateJwks>>
    /\ UNCHANGED <<spec, knownJwks, workloads, running, bounds>>

\* Mutant: the template names the Secret and has no hash of its contents.
MutantTemplate(s) == [secret |-> IF s = Rest THEN 0 ELSE passRef, hash |-> Bundle(1, 1)]

\* The template of the service with its hash (applyProjectCredentialsHash).
\* Auth, Studio and the gateway name the Secret too.
Template(s) == [secret |-> IF s = Rest THEN 0 ELSE passRef, hash |-> credentials]

\* createOrUpdateDeployment for the next service.
CreateOrUpdateDeployment ==
    /\ pc = "deployment"
    /\ LET same == knownDep[next].template = Template(next)
       IN  \/ /\ same \/ next \notin lateDeps
              /\ dep' = IF same THEN dep
                        ELSE [dep EXCEPT ![next] = [template |-> Template(next), rolled |-> FALSE]]
              /\ lateDeps' = IF same THEN lateDeps ELSE lateDeps \cup {next}
              /\ pc' = "status"
              /\ UNCHANGED <<next, passRef, credentials, ready, queued, running>>
           \/ /\ ~same /\ next \in lateDeps
              /\ End(TRUE) /\ running' = FALSE     \* failCoreServices
              /\ UNCHANGED <<dep, lateDeps>>
    /\ UNCHANGED <<spec, config, knownDep, pod, bounds>>

\* Mutant: one service too many.
MutantDeploymentStatus ==
    /\ pc = "status"
    /\ ready' = IF knownDep[next].rolled THEN ready \cup {next} ELSE ready
    /\ IF next > NumServices THEN pc' = "end" /\ next' = 1
                             ELSE pc' = "deployment" /\ next' = next + 1
    /\ UNCHANGED <<spec, config, workloads, passRef, credentials, running, queued, bounds>>

\* deploymentStatus reads the cache once more.
DeploymentStatus ==
    /\ pc = "status"
    /\ ready' = IF knownDep[next].rolled THEN ready \cup {next} ELSE ready
    /\ IF next = NumServices THEN pc' = "end" /\ next' = 1
                             ELSE pc' = "deployment" /\ next' = next + 1
    /\ UNCHANGED <<spec, config, workloads, passRef, credentials, running, queued, bounds>>

\* Mutant: the project that waits for its services is not looked at again.
MutantReportReadiness ==
    /\ pc = "end"
    /\ running' \in {FALSE, ready = Services}
    /\ End(queued)
    /\ UNCHANGED <<spec, config, workloads, bounds>>

\* coreServicesReady: Ready=True, or a status that says the services are
\* pending and another look after RequeueDelay.  Meta, which has no part in a
\* rotation, may be ready or not.
ReportReadiness ==
    /\ pc = "end"
    /\ \E metaReady \in BOOLEAN :
          /\ running' = (ready = Services /\ metaReady)
          /\ End(queued \/ ready # Services \/ ~metaReady)
    /\ UNCHANGED <<spec, config, workloads, bounds>>

\* A call fails, the database is not ready or the operator restarts; some of
\* these store Ready=False first.
Abort ==
    /\ pc # "idle" /\ End(TRUE)
    /\ running' \in {running, FALSE}
    /\ UNCHANGED <<spec, config, workloads, bounds>>

-----------------------------------------------------------------------------
(* Watches.  An event is about a resource version: it arrives and enqueues *)
(* also when the contents are those the cache has already.                 *)

DeliverProject ==
    /\ lateRef /\ lateRef' = FALSE
    /\ knownRef' = ref /\ queued' = TRUE
    /\ UNCHANGED <<ref, secret, knownSecret, lateSecrets, fresh, config, workloads, pass, running, bounds>>

\* mapProjectCredentialsSecretToProjects, for the project the cache has.
ReferencesSecret(r) == r = knownRef

DeliverSecret(r) ==
    /\ r \in lateSecrets /\ lateSecrets' = lateSecrets \ {r}
    /\ knownSecret' = [knownSecret EXCEPT ![r] = secret[r]]
    /\ queued' = (queued \/ ReferencesSecret(r))
    /\ UNCHANGED <<ref, knownRef, lateRef, secret, fresh, config, workloads, pass, running, bounds>>

DeliverConfigMap ==
    /\ lateJwks /\ lateJwks' = FALSE
    /\ knownJwks' = jwks /\ queued' = TRUE
    /\ UNCHANGED <<spec, jwks, workloads, pass, running, bounds>>

DeliverDeployment(s) ==
    /\ s \in lateDeps /\ lateDeps' = lateDeps \ {s}
    /\ knownDep' = [knownDep EXCEPT ![s] = dep[s]] /\ queued' = TRUE
    /\ UNCHANGED <<spec, config, dep, pod, pass, running, bounds>>

-----------------------------------------------------------------------------
(* The workloads and the user.                                             *)

\* What a container of the service reads when it starts.
Source(s) == IF s = Rest THEN jwks ELSE secret[dep[s].template.secret]

\* The Deployment controller keeps the pods of the template it finds and starts
\* them otherwise; they become ready and it says so: its generation observed,
\* all replicas updated and available.
RollOut(s) ==
    /\ dep[s].template # NoTemplate /\ ~dep[s].rolled
    /\ \/ pod[s].template = dep[s].template /\ UNCHANGED pod
       \/ /\ pod[s].template # dep[s].template /\ Source(s) # None
          /\ pod' = [pod EXCEPT ![s] = [template |-> dep[s].template, runs |-> Source(s)]]
    /\ dep' = [dep EXCEPT ![s].rolled = TRUE] /\ lateDeps' = lateDeps \cup {s}
    /\ UNCHANGED <<spec, config, knownDep, pass, running, queued, bounds>>

\* A container ends or its node is drained; it will start again.
LosePod(s) ==
    /\ restarts < MaxRestarts /\ restarts' = restarts + 1
    /\ dep[s].rolled
    /\ pod' = [pod EXCEPT ![s] = NoPod]
    /\ dep' = [dep EXCEPT ![s].rolled = FALSE] /\ lateDeps' = lateDeps \cup {s}
    /\ UNCHANGED <<spec, config, knownDep, pass, running, queued, changes>>

\* A credential Secret is made, deleted or given other contents, new ones or
\* ones that were in use before.
WriteSecret(r, b) ==
    /\ changes < MaxChanges /\ changes' = changes + 1
    /\ b # secret[r]
    /\ secret' = [secret EXCEPT ![r] = b] /\ lateSecrets' = lateSecrets \cup {r}
    /\ fresh' = (fresh /\ b.home = r /\ b.number > secret[r].number)
    /\ UNCHANGED <<ref, knownRef, lateRef, knownSecret, config, workloads, pass, running, queued, restarts>>

\* The project is pointed at another Secret, a new one or one it had before.
SwitchSecret(r) ==
    /\ changes < MaxChanges /\ changes' = changes + 1
    /\ r # ref
    /\ ref' = r /\ lateRef' = TRUE
    /\ fresh' = (fresh /\ r > ref)
    /\ UNCHANGED <<knownRef, secret, knownSecret, lateSecrets, config, workloads, pass, running, queued, restarts>>

Reconciler ==
    \/ Start \/ ReconcileSecrets \/ ReconcileJWKSConfigMap
    \/ CreateOrUpdateDeployment \/ DeploymentStatus \/ ReportReadiness \/ Abort

Watches ==
    \/ DeliverProject \/ DeliverConfigMap
    \/ \E r \in Refs : DeliverSecret(r)
    \/ \E s \in Services : DeliverDeployment(s)

Next ==
    \/ Reconciler \/ Watches
    \/ \E s \in Services : RollOut(s) \/ LosePod(s)
    \/ \E r \in Refs, b \in MaybeContents : WriteSecret(r, b)
    \/ \E r \in Refs : SwitchSecret(r)

Spec == Init /\ [][Next]_vars

-----------------------------------------------------------------------------
(* Properties.                                                             *)

NotOlder(a, b) == a.home > b.home \/ (a.home = b.home /\ a.number >= b.number)

\* As long as nothing comes back, the hash in a template is a lower bound on
\* what its pods run: those that read the Secret never start with an earlier
\* bundle, nor those of REST with an earlier JWKS, which is why Reconcile
\* writes the JWKS ConfigMap before the templates, although both are compared
\* with a cache.  When contents come back this is lost: a cached ConfigMap that
\* has them already hides the stored one.
PodsNotBehind ==
    fresh => \A s \in Services : NotOlder(pod[s].runs, pod[s].template.hash)

\* "No dependent workload is touched on a validation failure" (Reconcile): a
\* bundle that is refused reaches neither the ConfigMap nor a template, also
\* when the Secret or the reference changes while the pass is under way.
OnlyValidated ==
    /\ jwks \notin Invalid
    /\ \A s \in Services : dep[s].template.hash \notin Invalid

AtRest ==
    pc = "idle" /\ ~queued /\ ~lateRef /\ lateSecrets = {} /\ ~lateJwks /\ lateDeps = {}

\* The operator rests, after any rotations and restorations, switches to another
\* Secret and back, restarts of pods and failed calls, only when the ConfigMap
\* and the templates are those of the bundle the project refers to, every
\* service is ready with pods of its template, and it says so; a stale answer of
\* deploymentStatus and a write left out for a stale comparison are corrected.
RestsRolled ==
    AtRest => /\ Valid(secret[ref]) /\ jwks = secret[ref] /\ running
              /\ \A s \in Services :
                    /\ dep[s].template = [secret |-> IF s = Rest THEN 0 ELSE ref,
                                          hash |-> secret[ref]]
                    /\ dep[s].rolled /\ pod[s].template = dep[s].template

\* As long as nothing comes back, the pods then run with that bundle.  When
\* contents come back they may not: a pod that was started in between keeps what
\* it read, and the hash that is as before calls for no rollout.
RestsServed ==
    AtRest /\ fresh => \A s \in Services : pod[s].runs = secret[ref]
=============================================================================
