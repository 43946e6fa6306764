----------------------- MODULE ImplementationSecrets -----------------------
(***************************************************************************)
(* Phase 1 of Reconcile after the project credentials have been accepted:  *)
(* the Secrets the operator generates once and keeps, and the hash of the  *)
(* email-hook Secret in the template of Auth.                              *)
(*                                                                         *)
(* Every r.Get reads an informer cache; the object and its cached copy are *)
(* separate variables and one action is one call.  The project may be      *)
(* edited, deleted and created again between any two calls; the garbage    *)
(* collector takes what a project that is gone owned.                      *)
(***************************************************************************)
EXTENDS Naturals

CONSTANTS
    NumGenerated,     \* Secrets of GenerateSecrets: the GoTrue fallback, three roles
    Values,           \* random values
    Specs,            \* what a user may ask for: PowerSync, the email hook
    MaxChanges        \* bound on what users do: delete the project or edit it,
                      \* delete or create one of the Secrets

ASSUME ConstantsAssumption ==
    /\ NumGenerated \in Nat \ {0}
    /\ Specs \subseteq [powersync : BOOLEAN, hook : BOOLEAN]
    /\ MaxChanges \in Nat

Generated == 1..NumGenerated
Storage == NumGenerated + 1
Replication == NumGenerated + 2
Token == NumGenerated + 3
Hook == NumGenerated + 4
Secrets == 1..Hook

\* The projects created under the one name, numbered.
MaxIncarnations == MaxChanges + 1

\* An owner is an incarnation of the project, nobody or another controller.
Nobody == 0
Foreign == MaxIncarnations + 1
NoValue == "none"

\* valid: does the value satisfy the Secret's contract?
Contents == [value : Values \cup {NoValue}, valid : BOOLEAN, owner : 0..Foreign]
Absent == [value |-> NoValue, valid |-> FALSE, owner |-> Nobody]

\* uid 0 stands for no project.
Projects == [uid : 0..MaxIncarnations, generation : Nat, powersync : BOOLEAN, hook : BOOLEAN]
NoProject == [uid |-> 0, generation |-> 0, powersync |-> FALSE, hook |-> FALSE]
Project(uid, generation, spec) ==
    [uid |-> uid, generation |-> generation, powersync |-> spec.powersync, hook |-> spec.hook]

VARIABLES
    project,       \* the project in the API server
    known,         \* the project in the informer cache
    work,          \* the variable project of the current or last pass
    fresh,         \* does work carry the current resource version?
    pc, next,      \* the step of the pass, and its place in Generated
    queued,        \* is the project's key in the work queue?
    secret,        \* secret[s]: the Secret in the API server
    cache,         \* cache[s]: the Secret in the informer cache
    deleted,       \* owned Secrets whose deletion the watch has yet to report
    reported,      \* the Secrets the stored SecretsReady=True is about, or {}
    auth,          \* the email-hook value hashed into Auth's template
    incarnations, changes

pass == <<work, pc, next>>
objects == <<secret, cache, deleted>>
bounds == <<incarnations, changes>>
vars == <<project, known, fresh, pass, queued, objects, reported, auth, bounds>>

Exists(object) == object.value # NoValue

TypeOK ==
    /\ project \in Projects /\ known \in Projects /\ work \in Projects
    /\ fresh \in BOOLEAN /\ queued \in BOOLEAN
    /\ pc \in {"idle", "generated", "findStorage", "findReplication", "storage",
               "replication", "findToken", "createToken", "adoptToken",
               "findHook", "createHook", "report", "auth"}
    /\ next \in 1..(NumGenerated + 1)
    /\ secret \in [Secrets -> Contents] /\ cache \in [Secrets -> Contents]
    /\ deleted \subseteq Secrets /\ reported \subseteq Secrets
    /\ auth \in Values \cup {NoValue}
    /\ incarnations \in 1..MaxIncarnations
    /\ changes \in 0..MaxChanges

Init ==
    /\ project \in {Project(1, 1, spec) : spec \in Specs}
    /\ known = NoProject /\ work = NoProject /\ fresh = FALSE
    /\ pc = "idle" /\ next = 1 /\ queued = FALSE
    /\ secret = [s \in Secrets |-> Absent] /\ cache = secret /\ deleted = {}
    /\ reported = {} /\ auth = NoValue
    /\ incarnations = 1 /\ changes = 0

-----------------------------------------------------------------------------
(* The pass.                                                               *)

Goto(step) == pc' = step /\ UNCHANGED <<work, fresh, next, queued>>

\* The pass ends; what it held in variables is forgotten, the project it was
\* for is remembered.
End(again) == pc' = "idle" /\ next' = 1 /\ fresh' = FALSE /\ queued' = again /\ UNCHANGED work

\* An error return of reconcileImplementationSecrets: failReconcileSecrets
\* stores SecretsReady=False, unless that write is refused.
Fail ==
    /\ End(TRUE)
    /\ reported' = IF fresh THEN {} ELSE reported

Start ==
    /\ pc = "idle" /\ queued
    /\ IF known.uid = 0
         THEN queued' = FALSE /\ UNCHANGED <<pass, fresh>>
         ELSE /\ queued' = FALSE /\ work' = known /\ fresh' = (known = project)
              /\ pc' = "generated" /\ next' = 1
    /\ UNCHANGED <<project, known, objects, reported, auth, bounds>>

\* What a generator returns: a value that is not and was not just in use; which
\* one does not matter.
FreshValues(s) ==
    LET used == {secret[s].value, cache[s].value} \cup (IF s = Hook THEN {auth} ELSE {})
        unused == Values \ used
    IN  {v \in unused : v = CHOOSE w \in unused : TRUE}

\* The Secret after createOrUpdateSecret has created it.
Made(value, valid) == [value |-> value, valid |-> valid, owner |-> work.uid]

\* What createOrUpdateSecret wants stored: a new Secret, or the one it read
\* with its owner set to the project; the value it read is kept.
Written(s, valid) ==
    IF Exists(cache[s]) THEN {[cache[s] EXCEPT !.owner = work.uid]}
                        ELSE {Made(v, valid) : v \in FreshValues(s)}

\* createOrUpdateSecret for a Secret whose generated contents are valid or not.
\* SetControllerReference refuses a Secret another controller owns and takes
\* over from an earlier incarnation: it compares kind and name, not the uid.
\* Create fails if the Secret exists, Update if it is not the one read.
CreateOrUpdateSecret(s, valid) ==
    /\ cache[s].owner # Foreign
    /\ cache[s] = secret[s] \/ cache[s] \in Written(s, valid)
    /\ IF cache[s] \in Written(s, valid)
         THEN UNCHANGED secret
         ELSE \E object \in Written(s, valid) : secret' = [secret EXCEPT ![s] = object]
    /\ UNCHANGED <<cache, deleted, reported, auth>>

RefuseSecret(s, valid) ==
    /\ \/ cache[s].owner = Foreign
       \/ cache[s] # secret[s] /\ cache[s] \notin Written(s, valid)
    /\ Fail
    /\ UNCHANGED <<objects, auth>>

\* createOrUpdateSecret as a step of the pass.
EnsureSecret(s, valid, step) ==
    /\ \/ CreateOrUpdateSecret(s, valid) /\ Goto(step)
       \/ RefuseSecret(s, valid)
    /\ UNCHANGED <<project, known, bounds>>

\* Mutant: the loop runs one Secret too far.
MutantReconcileGeneratedSecrets ==
    /\ pc = "generated" /\ next <= NumGenerated + 1
    /\ \/ CreateOrUpdateSecret(next, TRUE) /\ next' = next + 1
          /\ UNCHANGED <<work, fresh, pc, queued>>
       \/ RefuseSecret(next, TRUE)
    /\ UNCHANGED <<project, known, bounds>>

\* The loop over GenerateSecrets.
ReconcileGeneratedSecrets ==
    /\ pc = "generated" /\ next <= NumGenerated
    /\ \/ CreateOrUpdateSecret(next, TRUE) /\ next' = next + 1
          /\ UNCHANGED <<work, fresh, pc, queued>>
       \/ RefuseSecret(next, TRUE)
    /\ UNCHANGED <<project, known, bounds>>

EndGeneratedSecrets ==
    /\ pc = "generated" /\ next > NumGenerated
    /\ Goto(IF work.powersync THEN "findStorage" ELSE "findHook")
    /\ UNCHANGED <<project, known, objects, reported, auth, bounds>>

\* reconcilePowersyncSecrets: when both role Secrets exist they are left alone.
FindStorage ==
    /\ pc = "findStorage"
    /\ Goto(IF Exists(cache[Storage]) THEN "findReplication" ELSE "storage")
    /\ UNCHANGED <<project, known, objects, reported, auth, bounds>>

FindReplication ==
    /\ pc = "findReplication"
    /\ Goto(IF Exists(cache[Replication]) THEN "findToken" ELSE "storage")
    /\ UNCHANGED <<project, known, objects, reported, auth, bounds>>

EnsureStorage == pc = "storage" /\ EnsureSecret(Storage, TRUE, "replication")
EnsureReplication == pc = "replication" /\ EnsureSecret(Replication, TRUE, "findToken")

\* reconcilePowersyncAPITokenSecret.
FindToken ==
    /\ pc = "findToken"
    /\ CASE ~Exists(cache[Token]) -> Goto("createToken") /\ UNCHANGED reported
         [] Exists(cache[Token]) /\ cache[Token].valid -> Goto("adoptToken") /\ UNCHANGED reported
         [] OTHER -> Fail
    /\ UNCHANGED <<project, known, objects, auth, bounds>>

CreateToken == pc = "createToken" /\ EnsureSecret(Token, TRUE, "findHook")

\* Mutant: a valid token is accepted without being adopted.
MutantAdoptToken ==
    /\ pc = "adoptToken" /\ Goto("findHook")
    /\ UNCHANGED <<project, known, objects, reported, auth, bounds>>

\* The placeholder of the adoption carries no token.
AdoptToken == pc = "adoptToken" /\ EnsureSecret(Token, FALSE, "findHook")

\* reconcileEmailHookSecret: an existing Secret is validated and left alone.
FindHook ==
    /\ pc = "findHook"
    /\ CASE ~work.hook -> Goto("report") /\ UNCHANGED reported
         [] work.hook /\ ~Exists(cache[Hook]) -> Goto("createHook") /\ UNCHANGED reported
         [] work.hook /\ Exists(cache[Hook]) /\ cache[Hook].valid -> Goto("report") /\ UNCHANGED reported
         [] OTHER -> Fail
    /\ UNCHANGED <<project, known, objects, auth, bounds>>

CreateHook == pc = "createHook" /\ EnsureSecret(Hook, TRUE, "report")

Needed(p) == Generated
             \cup (IF p.powersync THEN {Storage, Replication, Token} ELSE {})
             \cup (IF p.hook THEN {Hook} ELSE {})

\* SecretsReady=True is stored with the names, or the status is stored already.
\* The write of reconcileEmailHookSecret just before, of the same condition, is
\* one with it.
ReportSecretsReady ==
    /\ pc = "report"
    /\ \/ fresh /\ reported' = Needed(work) /\ Goto("auth")
       \/ ~fresh /\ reported = Needed(work) /\ Goto("auth") /\ UNCHANGED reported
       \/ ~fresh /\ Fail
    /\ UNCHANGED <<project, known, objects, auth, bounds>>

\* Mutant: the template is made once and not rolled again.
MutantHookHash == IF auth = NoValue THEN cache[Hook].value ELSE auth

HookHash == cache[Hook].value

\* buildAuthDeployment: the hook's Secret is read again and must be there.
BuildAuthDeployment ==
    /\ pc = "auth"
    /\ IF work.hook /\ (~Exists(cache[Hook]) \/ ~cache[Hook].valid)
         THEN End(TRUE) /\ UNCHANGED auth
         ELSE End(queued) /\ auth' = IF work.hook THEN HookHash ELSE NoValue
    /\ UNCHANGED <<project, known, objects, reported, bounds>>

\* A call fails, or the operator stops and comes back with the key queued.
Abort ==
    /\ pc # "idle" /\ End(TRUE)
    /\ UNCHANGED <<project, known, objects, reported, auth, bounds>>

Reconciler ==
    \/ Start \/ ReconcileGeneratedSecrets \/ EndGeneratedSecrets \/ Abort
    \/ FindStorage \/ FindReplication \/ EnsureStorage \/ EnsureReplication
    \/ FindToken \/ CreateToken \/ AdoptToken
    \/ FindHook \/ CreateHook \/ ReportSecretsReady \/ BuildAuthDeployment

-----------------------------------------------------------------------------
(* The rest of the cluster.                                                *)

\* The watch on projects, with GenerationChangedPredicate: an update that is
\* delivered has another generation.  The informer may skip generations, but a
\* project that is gone is reported before the next one of its name.
DeliverProject ==
    /\ known # project
    /\ known' = IF known.uid \in {0, project.uid} THEN project ELSE NoProject
    /\ queued' = TRUE
    /\ UNCHANGED <<project, fresh, pass, objects, reported, auth, bounds>>

\* Mutant: Secrets are not watched.
MutantDeliverSecret(s) ==
    /\ cache[s] # secret[s] \/ s \in deleted
    /\ cache' = [cache EXCEPT ![s] = secret[s]] /\ deleted' = deleted \ {s}
    /\ UNCHANGED <<project, known, fresh, pass, queued, secret, reported, auth, bounds>>

\* Owns(Secret): the owner, by kind and name, of the old or the new object.
Owned(object) == object.owner \notin {Nobody, Foreign}

DeliverSecret(s) ==
    /\ cache[s] # secret[s] \/ s \in deleted
    /\ cache' = [cache EXCEPT ![s] = secret[s]] /\ deleted' = deleted \ {s}
    /\ queued' = (queued \/ s \in deleted \/ Owned(cache[s]) \/ Owned(secret[s]))
    /\ UNCHANGED <<project, known, fresh, pass, secret, reported, auth, bounds>>

\* Whose owner is gone.
Collectable(s) == Owned(secret[s]) /\ secret[s].owner # project.uid

\* The watch reports the deletion of a Secret even if it never reported the Secret.
Delete(s) ==
    /\ secret' = [secret EXCEPT ![s] = Absent]
    /\ deleted' = IF Owned(secret[s]) THEN deleted \cup {s} ELSE deleted

CollectGarbage(s) ==
    /\ Collectable(s) /\ Delete(s)
    /\ UNCHANGED <<project, known, fresh, pass, queued, cache, reported, auth, bounds>>

UserActs == changes < MaxChanges /\ changes' = changes + 1

EditSpec ==
    /\ project.uid # 0 /\ UserActs
    /\ \E spec \in Specs \ {[powersync |-> project.powersync, hook |-> project.hook]} :
           project' = Project(project.uid, project.generation + 1, spec)
    /\ fresh' = FALSE
    /\ UNCHANGED <<known, pass, queued, objects, reported, auth, incarnations>>

DeleteProject ==
    /\ project.uid # 0 /\ UserActs
    /\ project' = NoProject /\ fresh' = FALSE /\ reported' = {}
    /\ UNCHANGED <<known, pass, queued, objects, auth, incarnations>>

RecreateProject ==
    /\ project.uid = 0
    /\ incarnations' = incarnations + 1
    /\ \E spec \in Specs : project' = Project(incarnations', 1, spec)
    /\ UNCHANGED <<known, fresh, pass, queued, objects, reported, auth, changes>>

UserDeletes(s) ==
    /\ Exists(secret[s]) /\ UserActs /\ Delete(s)
    /\ UNCHANGED <<project, known, fresh, pass, queued, cache, reported, auth, incarnations>>

\* What a user may put under the name of any of the Secrets.
ByHand == [valid : BOOLEAN, owner : {Nobody, Foreign}]

UserCreates(s) ==
    /\ ~Exists(secret[s]) /\ UserActs
    /\ \E v \in FreshValues(s), h \in ByHand :
           secret' = [secret EXCEPT ![s] = [value |-> v, valid |-> h.valid, owner |-> h.owner]]
    /\ UNCHANGED <<project, known, fresh, pass, queued, cache, deleted, reported, auth, incarnations>>

Next ==
    \/ Reconciler
    \/ DeliverProject
    \/ \E s \in Secrets : \/ DeliverSecret(s) \/ CollectGarbage(s)
                          \/ UserDeletes(s) \/ UserCreates(s)
    \/ EditSpec \/ DeleteProject \/ RecreateProject

Spec == Init /\ [][Next]_vars

-----------------------------------------------------------------------------
(* Properties.                                                             *)

\* The Secrets createOrUpdateSecret is called for in every pass.
Kept == Generated \cup {Token}

\* Once a pass for the present project has reported its Secrets ready, the
\* garbage collector has no claim to the ones the retained database and the
\* services depend on: those of an earlier incarnation have been adopted
\* (createOrUpdateSecret), although each was read from a cache that lags.
ReportedNotCollectable == \A s \in reported \cap Kept : ~Collectable(s)

AtRest == pc = "idle" /\ ~queued /\ known = project /\ cache = secret /\ deleted = {}

\* The operator rests only when the template of Auth carries the hash of the
\* email-hook value it generated for this project (buildAuthDeployment), also
\* when the Secret of an earlier incarnation was collected under its feet, and
\* no hash when the project has no hook.
RestsRolled ==
    (AtRest /\ project.uid # 0) =>
        /\ project.hook /\ secret[Hook].owner = project.uid => auth = secret[Hook].value
        /\ ~project.hook => auth = NoValue

\* Nothing is left undone without an event to come back for: after recreations,
\* edits, deleted Secrets, refused writes and a token that disappeared between
\* its validation and its adoption, the operator rests only when the project
\* owns the Secrets it generated, and the token satisfies its contract.  (The
\* others are not validated: a Secret made by hand under one of their names is
\* adopted whatever it contains.)
RestsComplete ==
    (AtRest /\ project.uid # 0)
        => \A s \in Needed(project) \cap Kept :
               /\ Exists(secret[s]) /\ secret[s].owner = project.uid
               /\ s = Token => secret[s].valid

\* All reported Secrets survive, as the comment in
\* reconcileImplementationSecrets has it ("adopt existing resources after a
\* project is recreated with the same name").
ReportedSurvive == \A s \in reported : ~Collectable(s)
=============================================================================
