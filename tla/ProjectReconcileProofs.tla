----------------------- MODULE ProjectReconcileProofs -----------------------
(***************************************************************************)
(* Proofs about ProjectReconcile, for every number of services, every set  *)
(* of specs and every bound.                                               *)
(***************************************************************************)
EXTENDS ProjectReconcile, TLAPS

-----------------------------------------------------------------------------
(* Facts about the data.                                                   *)

\* The version in the cache and the one in the API server are projects.
LEMMA Ends ==
    ASSUME TypeOK
    PROVE  /\ cached \in Project
           /\ api \in Project
           /\ \A i \in DOMAIN watch : watch[i] \in Project
           /\ 1 \in DOMAIN watch
           /\ Len(watch) \in DOMAIN watch
  BY ConstantsAssumption DEF TypeOK, cached, api

LEMMA NoProjectType ==
    ASSUME TypeOK
    PROVE  NoProject \in Project
  <1>1. Specs # {}
    BY Ends DEF Project
  <1>2. (CHOOSE s \in Specs : TRUE) \in Specs
    BY <1>1
  <1>3. EmptyStatus \in Status
    BY ConstantsAssumption
    DEF EmptyStatus, Status, NoCondition, Condition, Phases, ReadyReasons, SecretsReasons,
        SecretsTrue, DatabaseReasons, ServiceReasons, CDCReasons, PowersyncReasons, Generations
  <1>4. QED
    BY <1>2, <1>3, ConstantsAssumption DEF NoProject, Project, Generations

\* q is a project with the generation and the spec of p.
CopyOf(q, p) == q \in Project /\ q.gen = p.gen /\ q.spec = p.spec

\* Ready=True is never claimed together with a bad bundle.
ReadyIsSecured(p) ==
    ReadyTrue(p.status) => p.status.secrets.reason # "InvalidProjectCredentials"

\* q reports nothing better than p does.
Benign(q, p) ==
    /\ CopyOf(q, p)
    /\ q.status.observed = p.status.observed
    /\ ReadyTrue(q.status) => ReadyTrue(p.status)
    /\ ReadyIsSecured(p) => ReadyIsSecured(q)

LEMMA BenignTransitive ==
    ASSUME NEW p, NEW q, NEW r, Benign(q, p), Benign(r, q)
    PROVE  Benign(r, p)
  BY DEF Benign, CopyOf

\* Every copy the phases make of a project, but the last one, is benign.
LEMMA Copies ==
    ASSUME NEW p \in Project
    PROVE  /\ Benign(p, p)
           /\ Benign(Provisioned(p), p)
           /\ \A sc \in {"InvalidProjectCredentials", "ImplementationSecretFailed"} :
                 Benign(FailReconcileSecrets(p, sc), p)
           /\ \A sc \in SecretsTrue \cup {"ImplementationSecretFailed", "JWKSConfigMapFailed"} :
                 Benign([p EXCEPT !.status.secrets = Cond(p, sc)], p)
           /\ Benign([p EXCEPT !.status.hook = p.spec.hook,
                               !.status.secrets = IF p.spec.hook
                                                    THEN Cond(p, "SecretsReady") ELSE @], p)
           /\ \A db \in DatabaseReasons : Benign([p EXCEPT !.status.database = Cond(p, db)], p)
           /\ Benign(DatabaseIsReady(p), p)
           /\ \A i \in Services, sv \in ServiceReasons :
                 Benign([p EXCEPT !.status.services[i] = Cond(p, sv)], p)
           /\ \A rd \in {"CoreServicesPending", "CoreServicesFailed"} :
                 Benign([p EXCEPT !.status.phase = "Provisioning", !.status.ready = Cond(p, rd)], p)
           /\ Benign([p EXCEPT !.status.api = TRUE], p)
           /\ \A cd \in CDCReasons : Benign([p EXCEPT !.status.cdc = Cond(p, cd)], p)
           /\ \A ps \in PowersyncReasons : Benign([p EXCEPT !.status.powersync = Cond(p, ps)], p)
           /\ Benign([p EXCEPT !.status.powersync = NoCondition, !.status.cdc = NoCondition], p)
           /\ CopyOf([p EXCEPT !.status.phase = "Running", !.status.observed = p.gen,
                               !.status.ready = Cond(p, "AllComponentsReady")], p)
  <1> USE ConstantsAssumption
      DEF CopyOf, ReadyIsSecured, ReadyTrue, Project, Status, Cond, Condition, Phases,
          ReadyReasons, SecretsReasons, SecretsTrue, DatabaseReasons, ServiceReasons, CDCReasons,
          PowersyncReasons
  <1>1. Benign(p, p) /\ Benign(Provisioned(p), p)
    BY DEF Provisioned, Benign
  <1>2. ASSUME NEW sc \in {"InvalidProjectCredentials", "ImplementationSecretFailed"}
        PROVE  Benign(FailReconcileSecrets(p, sc), p)
    <2> DEFINE q == FailReconcileSecrets(p, sc)
    <2>1. CopyOf(q, p)
      <3> DEFINE c == Cond(p, sc)
                 d == Cond(p, "SecretsNotReady")
      <3>1. c \in Condition(SecretsReasons) /\ d \in Condition(ReadyReasons)
        OBVIOUS
      <3>2. q = [p EXCEPT !.status.secrets = c, !.status.ready = d]
        BY DEF FailReconcileSecrets
      <3> HIDE DEF c, d, q, Cond, Condition, ReadyReasons, SecretsReasons, SecretsTrue, Phases
      <3>3. QED
        BY <3>1, <3>2
    <2>2. q.status.observed = p.status.observed
      BY DEF FailReconcileSecrets
    <2>3. ReadyTrue(q.status) => ReadyTrue(p.status)
      BY DEF FailReconcileSecrets
    <2>4. ReadyIsSecured(p) => ReadyIsSecured(q)
      BY DEF FailReconcileSecrets
    <2>5. QED
      BY <2>1, <2>2, <2>3, <2>4 DEF Benign
  <1>3. ASSUME NEW sc \in SecretsTrue \cup {"ImplementationSecretFailed", "JWKSConfigMapFailed"}
        PROVE  Benign([p EXCEPT !.status.secrets = Cond(p, sc)], p)
    BY DEF Benign
  <1>4. Benign([p EXCEPT !.status.hook = p.spec.hook,
                         !.status.secrets = IF p.spec.hook
                                              THEN Cond(p, "SecretsReady") ELSE @], p)
    <2> DEFINE c == IF p.spec.hook THEN Cond(p, "SecretsReady") ELSE p.status.secrets
               q == [p EXCEPT !.status.hook = p.spec.hook, !.status.secrets = c]
    <2>1. p.spec.hook \in BOOLEAN
      OBVIOUS
    <2>2. /\ c \in Condition(SecretsReasons)
          /\ c.reason = "InvalidProjectCredentials" => p.status.secrets.reason = "InvalidProjectCredentials"
      BY <2>1
    <2> HIDE DEF c
    <2>3. CopyOf(q, p)
      <3> HIDE DEF Cond, Condition, SecretsReasons, SecretsTrue, Phases
      <3>1. QED
        BY <2>1, <2>2
    <2>4. q.status.observed = p.status.observed /\ q.status.ready = p.status.ready /\ q.status.secrets = c
      OBVIOUS
    <2>5. Benign(q, p)
      BY <2>2, <2>3, <2>4 DEF Benign
    <2>6. QED
      BY <2>5 DEF c
  <1>5. ASSUME NEW db \in DatabaseReasons
        PROVE  Benign([p EXCEPT !.status.database = Cond(p, db)], p)
    BY DEF Benign
  <1>6. Benign(DatabaseIsReady(p), p)
    <2> DEFINE q == DatabaseIsReady(p)
    <2>1. CopyOf(q, p)
      <3> DEFINE c == Cond(p, "Ready")
      <3>1. c \in Condition(DatabaseReasons)
        OBVIOUS
      <3>2. q = [p EXCEPT !.status.dbReady = TRUE, !.status.api = FALSE, !.status.database = c]
        BY DEF DatabaseIsReady
      <3> HIDE DEF c, q, Cond, Condition, DatabaseReasons, Phases
      <3>3. QED
        BY <3>1, <3>2
    <2>2. q.status.observed = p.status.observed
      BY DEF DatabaseIsReady
    <2>3. ReadyTrue(q.status) => ReadyTrue(p.status)
      BY DEF DatabaseIsReady
    <2>4. ReadyIsSecured(p) => ReadyIsSecured(q)
      BY DEF DatabaseIsReady
    <2>5. QED
      BY <2>1, <2>2, <2>3, <2>4 DEF Benign
  <1>7. ASSUME NEW i \in Services, NEW sv \in ServiceReasons
        PROVE  Benign([p EXCEPT !.status.services[i] = Cond(p, sv)], p)
    <2> DEFINE q == [p EXCEPT !.status.services[i] = Cond(p, sv)]
    <2>1. CopyOf(q, p)
      <3>1. Cond(p, sv) \in Condition(ServiceReasons)
        OBVIOUS
      <3> HIDE DEF Cond, Condition, ServiceReasons, Phases
      <3>2. QED
        BY <3>1
    <2>2. q.status.observed = p.status.observed
      OBVIOUS
    <2>3. ReadyTrue(q.status) => ReadyTrue(p.status)
      OBVIOUS
    <2>4. ReadyIsSecured(p) => ReadyIsSecured(q)
      OBVIOUS
    <2>5. QED
      BY <2>1, <2>2, <2>3, <2>4 DEF Benign
  <1>8. ASSUME NEW rd \in {"CoreServicesPending", "CoreServicesFailed"}
        PROVE  Benign([p EXCEPT !.status.phase = "Provisioning", !.status.ready = Cond(p, rd)], p)
    <2> DEFINE q == [p EXCEPT !.status.phase = "Provisioning", !.status.ready = Cond(p, rd)]
    <2>1. CopyOf(q, p)
      <3>1. Cond(p, rd) \in Condition(ReadyReasons) /\ "Provisioning" \in Phases
        OBVIOUS
      <3> HIDE DEF Cond, Condition, ReadyReasons, Phases
      <3>2. QED
        BY <3>1
    <2>2. q.status.observed = p.status.observed
      OBVIOUS
    <2>3. ReadyTrue(q.status) => ReadyTrue(p.status)
      OBVIOUS
    <2>4. ReadyIsSecured(p) => ReadyIsSecured(q)
      OBVIOUS
    <2>5. QED
      BY <2>1, <2>2, <2>3, <2>4 DEF Benign
  <1>9. Benign([p EXCEPT !.status.api = TRUE], p)
    <2> HIDE DEF Cond, Condition, ReadyReasons, SecretsReasons, DatabaseReasons, Phases
    <2>1. QED
      BY DEF Benign
  <1>10. ASSUME NEW cd \in CDCReasons
         PROVE  Benign([p EXCEPT !.status.cdc = Cond(p, cd)], p)
    BY DEF Benign
  <1>11. ASSUME NEW ps \in PowersyncReasons
         PROVE  Benign([p EXCEPT !.status.powersync = Cond(p, ps)], p)
    BY DEF Benign
  <1>12. Benign([p EXCEPT !.status.powersync = NoCondition, !.status.cdc = NoCondition], p)
    <2> DEFINE q == [p EXCEPT !.status.powersync = NoCondition, !.status.cdc = NoCondition]
    <2>1. CopyOf(q, p)
      <3>1. NoCondition \in Condition(PowersyncReasons) /\ NoCondition \in Condition(CDCReasons)
        BY DEF NoCondition, Generations
      <3> HIDE DEF Condition, CDCReasons, PowersyncReasons, Phases
      <3>2. QED
        BY <3>1
    <2>2. q.status.observed = p.status.observed
      BY DEF NoCondition, Generations
    <2>3. ReadyTrue(q.status) => ReadyTrue(p.status)
      BY DEF NoCondition, Generations
    <2>4. ReadyIsSecured(p) => ReadyIsSecured(q)
      BY DEF NoCondition, Generations
    <2>5. QED
      BY <2>1, <2>2, <2>3, <2>4 DEF Benign
  <1>13. CopyOf([p EXCEPT !.status.phase = "Running", !.status.observed = p.gen,
                          !.status.ready = Cond(p, "AllComponentsReady")], p)
    <2>1. Cond(p, "AllComponentsReady") \in Condition(ReadyReasons) /\ "Running" \in Phases
      OBVIOUS
    <2> HIDE DEF Cond, Condition, ReadyReasons, Phases
    <2>2. QED
      BY <2>1
  <1>14. QED
    BY <1>1, <1>2, <1>3, <1>4, <1>5, <1>6, <1>7, <1>8, <1>9, <1>10, <1>11, <1>12, <1>13

-----------------------------------------------------------------------------
(* The inductive invariant.                                                *)

\* p was the stored project at some time since the last success was recorded.
Recent(p) ==
    /\ p.gen > 0
    /\ api.status.observed <= p.gen
    /\ p.gen <= api.gen
    /\ p.gen = api.gen => p.spec = api.spec

\* The versions between the cache and the API server.
WatchInv == \A i \in DOMAIN watch : ReadyIsSecured(watch[i]) /\ Recent(watch[i])

\* The working copy, however stale.
CopyInv == pc # "idle" => ReadyIsSecured(proj) /\ Recent(proj)

\* A working copy with the current resource version: nobody has edited the
\* spec since it was read, and it was made from the stored status.
FreshInv ==
    fresh =>
       /\ pc # "idle"
       /\ \A i \in DOMAIN watch : watch[i].gen = proj.gen /\ watch[i].spec = proj.spec
       /\ proj.status.observed = api.status.observed
       /\ ReadyTrue(proj.status) => ReadyTrue(api.status)

\* What the phases passed before c have established in the copy p.
Stage(p, c) ==
    /\ c \in {"recovery", "cluster", "database", "services", "powersync", "finish"} =>
          p.status.secrets.reason = "CredentialsValidated"
    /\ c \in {"services", "powersync", "finish"} => p.status.database.reason = "Ready"
    /\ c \in {"powersync", "finish"} => CoreServicesReady(p)
    /\ c = "finish" /\ p.spec.powersync =>
          /\ p.status.cdc.reason = "CDCPermissionsApplied"
          /\ p.status.powersync.reason = "Ready"

StageInv == Stage(proj, pc)

\* The Cluster carries the spec of the copy once its phase is passed, and that
\* of the stored project once its generation is recorded as observed.
Applied(p, c) ==
    c \in {"database", "services", "coreFailed", "powersync", "finish"} =>
       cluster = BuildCluster(p.spec)

AppliedInv ==
    /\ Applied(proj, pc)
    /\ api.status.observed = api.gen => cluster = BuildCluster(api.spec)

IInv == TypeOK /\ WatchInv /\ CopyInv /\ FreshInv /\ StageInv /\ AppliedInv

-----------------------------------------------------------------------------
(* Three kinds of step, as the stored project sees them.                   *)

Progress ==
    /\ api'.gen = api.gen
    /\ api'.spec = api.spec
    /\ api'.status.observed = api.status.observed
    /\ ReadyTrue(api'.status) => ReadyTrue(api.status)

Success ==
    /\ api'.gen = api.gen
    /\ api'.spec = api.spec
    /\ api'.status.observed = api.gen
    /\ ReadyTrue(api'.status)
    /\ ComponentsReady(api')

Edited ==
    /\ api'.gen = api.gen + 1
    /\ api'.status = api.status

PCs == {"secrets", "implementation", "secretsFailed", "secretsDone", "recovery", "cluster",
        "database", "services", "coreFailed", "powersync", "finish"}

EnvTypeOK ==
    /\ credentials \in BOOLEAN
    /\ cluster \in Clusters
    /\ dbUp \in BOOLEAN
    /\ up \in [Services -> BOOLEAN]
    /\ psState \in PowerSyncStates
    /\ disturbances \in 0..MaxDisturbances
    /\ faults \in 0..MaxFaults

\* What persisting a copy does to the versions of the project.
LEMMA PersistWatch ==
    ASSUME IInv, pc # "idle", NEW p, CopyOf(p, proj),
           UNCHANGED watch \/ UpdateProjectStatus(p),
           ReadyIsSecured(p),
           p.status.observed \in {proj.status.observed, proj.gen}
    PROVE  /\ watch' \in Seq(Project)
           /\ Len(watch') \in 1..MaxWatch
           /\ WatchInv'
           /\ \/ watch' = watch
              \/ fresh /\ api' = p
           /\ api'.gen = api.gen /\ api'.spec = api.spec
           /\ Recent(p)'
           /\ fresh => \A i \in DOMAIN watch' : watch'[i].gen = proj.gen /\ watch'[i].spec = proj.spec
  <1>1. CASE watch' = watch
    BY <1>1, Ends DEF IInv, TypeOK, WatchInv, CopyInv, FreshInv, Recent, CopyOf, api
  <1>2. CASE fresh /\ Len(watch) < MaxWatch /\ watch' = Append(watch, p)
    <2>1. /\ Len(watch') = Len(watch) + 1
          /\ watch' \in Seq(Project)
          /\ \A i \in 1..Len(watch) : watch'[i] = watch[i]
          /\ watch'[Len(watch) + 1] = p
          /\ DOMAIN watch' = 1..(Len(watch) + 1)
      BY <1>2 DEF IInv, TypeOK, CopyOf
    <2>2. api' = p
      BY <2>1 DEF api
    <2>3. proj.gen = api.gen /\ proj.spec = api.spec /\ proj.gen \in Nat /\ proj.gen > 0
      BY <1>2, Ends, ConstantsAssumption
      DEF IInv, FreshInv, CopyInv, Recent, TypeOK, Project, Generations, api
    <2>4. p.status.observed <= proj.gen
      BY <1>2, <2>3 DEF IInv, FreshInv, CopyInv, Recent
    <2>5. \A i \in DOMAIN watch' : watch'[i].gen = proj.gen /\ watch'[i].spec = proj.spec
      BY <1>2, <2>1 DEF IInv, FreshInv, CopyOf, TypeOK
    <2>6. \A i \in DOMAIN watch' : ReadyIsSecured(watch'[i])
      BY <2>1 DEF IInv, WatchInv, TypeOK
    <2>7. WatchInv'
      BY <2>2, <2>3, <2>4, <2>5, <2>6 DEF WatchInv, Recent, ReadyIsSecured, ReadyTrue, CopyOf
    <2>8. QED
      BY <1>2, <2>1, <2>2, <2>3, <2>4, <2>5, <2>7, ConstantsAssumption DEF Recent, CopyOf, IInv, TypeOK
  <1>3. QED
    BY <1>1, <1>2 DEF UpdateProjectStatus, Conflict

\* Reconcile returns: what remains to be shown is about the stored versions.
LEMMA ReturnInv ==
    ASSUME IInv, NEW again \in BOOLEAN, Return(again), EnvTypeOK',
           watch' \in Seq(Project), Len(watch') \in 1..MaxWatch, WatchInv',
           (api.status.observed = api.gen => cluster = BuildCluster(api.spec))'
    PROVE  IInv'
  <1>1. NoProject \in Project
    BY NoProjectType DEF IInv
  <1>2. TypeOK'
    <2>1. queued' \in BOOLEAN
      BY Zenon DEF Return
    <2>2. svc' \in 1..(NumServices + 1)
      BY ConstantsAssumption DEF Return
    <2>3. proj' \in Project /\ fresh' \in BOOLEAN /\ pc' = "idle"
      BY <1>1 DEF Return
    <2>4. QED
      BY <2>1, <2>2, <2>3 DEF TypeOK, EnvTypeOK
  <1>3. CopyInv' /\ FreshInv' /\ StageInv' /\ Applied(proj, pc)'
    BY DEF Return, CopyInv, FreshInv, StageInv, Stage, Applied
  <1>4. QED
    BY <1>2, <1>3 DEF IInv, AppliedInv

\* A step that makes progress only, and at most applies the working copy's
\* spec to the Cluster, keeps an observed generation applied.
LEMMA AppliedKept ==
    ASSUME IInv, pc # "idle", Progress, cluster' \in {cluster, BuildCluster(proj.spec)}
    PROVE  (api.status.observed = api.gen => cluster = BuildCluster(api.spec))'
  <1>1. SUFFICES ASSUME api'.status.observed = api'.gen
                 PROVE  cluster' = BuildCluster(api'.spec)
    OBVIOUS
  <1>2. api.status.observed = api.gen /\ api'.spec = api.spec
    BY <1>1 DEF Progress
  <1>3. cluster = BuildCluster(api.spec)
    BY <1>2 DEF IInv, AppliedInv
  <1>4. proj \in Project /\ api \in Project
    BY Ends DEF IInv, TypeOK
  <1>5. proj.gen \in Nat /\ api.gen \in Nat
    BY <1>4, ConstantsAssumption DEF Project, Generations
  <1>6. proj.spec = api.spec
    BY <1>2, <1>5 DEF IInv, CopyInv, Recent
  <1>7. QED
    BY <1>2, <1>3, <1>6

\* A phase persists p and Reconcile returns.
LEMMA PersistAndReturnInv ==
    ASSUME IInv, pc # "idle", NEW p, NEW again \in BOOLEAN, Benign(p, proj),
           PersistAndReturn(p, again), EnvTypeOK',
           cluster' \in {cluster, BuildCluster(proj.spec)}
    PROVE  IInv' /\ Progress
  <1>1. UpdateProjectStatus(p) /\ Return(again \/ Conflict(p))
    BY DEF PersistAndReturn
  <1>2. ReadyIsSecured(p) /\ CopyOf(p, proj)
    BY DEF IInv, CopyInv, Benign
  <1>3. /\ watch' \in Seq(Project) /\ Len(watch') \in 1..MaxWatch /\ WatchInv'
        /\ watch' = watch \/ (fresh /\ api' = p)
        /\ api'.gen = api.gen /\ api'.spec = api.spec
    BY <1>1, <1>2, PersistWatch DEF Benign
  <1>4. Progress
    BY <1>3 DEF Progress, IInv, FreshInv, api, Benign
  <1>5. (api.status.observed = api.gen => cluster = BuildCluster(api.spec))'
    BY <1>4, AppliedKept
  <1>6. (again \/ Conflict(p)) \in BOOLEAN
    BY DEF Conflict
  <1>7. QED
    BY <1>1, <1>3, <1>4, <1>5, <1>6, ReturnInv

\* A phase goes on with the copy p, whether or not it has persisted it.
LEMMA ContinueInv ==
    ASSUME IInv, pc # "idle", NEW p, NEW next \in PCs, Benign(p, proj),
           Continue(p, next), UNCHANGED watch \/ UpdateProjectStatus(p),
           EnvTypeOK', UNCHANGED cluster, Stage(p, next), Applied(p, next)
    PROVE  IInv' /\ Progress
  <1>1. ReadyIsSecured(p) /\ CopyOf(p, proj)
    BY DEF IInv, CopyInv, Benign
  <1>2. /\ watch' \in Seq(Project) /\ Len(watch') \in 1..MaxWatch /\ WatchInv'
        /\ watch' = watch \/ (fresh /\ api' = p)
        /\ api'.gen = api.gen /\ api'.spec = api.spec
        /\ Recent(p)'
        /\ fresh => \A i \in DOMAIN watch' : watch'[i].gen = proj.gen /\ watch'[i].spec = proj.spec
    BY <1>1, PersistWatch DEF Benign
  <1>3. Progress
    BY <1>2 DEF Progress, IInv, FreshInv, api, Benign
  <1>4. TypeOK'
    BY <1>1, <1>2 DEF IInv, TypeOK, EnvTypeOK, Continue, CopyOf, PCs
  <1>5. CopyInv'
    BY <1>1, <1>2 DEF CopyInv, Recent, ReadyIsSecured, Continue
  <1>6. FreshInv'
    BY <1>2 DEF IInv, FreshInv, Continue, Benign, CopyOf, PCs, api
  <1>7. StageInv' /\ Applied(proj, pc)'
    BY DEF Continue, StageInv, Stage, Applied, CoreServicesReady
  <1>8. (api.status.observed = api.gen => cluster = BuildCluster(api.spec))'
    BY <1>3 DEF IInv, AppliedInv, Progress
  <1>9. QED
    BY <1>2, <1>3, <1>4, <1>5, <1>6, <1>7, <1>8 DEF IInv, AppliedInv

\* A phase persists p and goes on with it, unless the write is refused.
LEMMA PersistThenInv ==
    ASSUME IInv, pc # "idle", NEW p, NEW next \in PCs, Benign(p, proj),
           PersistThen(p, next), EnvTypeOK', UNCHANGED cluster,
           Stage(p, next), Applied(p, next)
    PROVE  IInv' /\ Progress
  <1>1. UpdateProjectStatus(p)
    BY DEF PersistThen
  <1>2. CASE Conflict(p)
    <2>1. PersistAndReturn(p, TRUE)
      BY <1>1, <1>2 DEF PersistThen, PersistAndReturn, Return
    <2>2. QED
      BY <2>1, PersistAndReturnInv
  <1>3. CASE ~Conflict(p)
    BY <1>1, <1>3, ContinueInv DEF PersistThen
  <1>4. QED
    BY <1>2, <1>3

-----------------------------------------------------------------------------
(* The initial state and every action.                                     *)

LEMMA InitInv == Init => IInv
  <1> SUFFICES ASSUME Init PROVE IInv
    OBVIOUS
  <1>1. PICK s \in Specs : watch = <<[gen |-> 1, spec |-> s, status |-> EmptyStatus]>>
    BY DEF Init
  <1> DEFINE p0 == [gen |-> 1, spec |-> s, status |-> EmptyStatus]
  <1>2. EmptyStatus \in Status
    BY ConstantsAssumption
    DEF EmptyStatus, Status, NoCondition, Condition, Phases, ReadyReasons, SecretsReasons,
        SecretsTrue, DatabaseReasons, ServiceReasons, CDCReasons, PowersyncReasons, Generations
  <1>3. p0 \in Project
    BY <1>2, ConstantsAssumption DEF Project, Generations
  <1>4. watch = <<p0>> /\ watch \in Seq(Project) /\ Len(watch) = 1 /\ DOMAIN watch = {1} /\ api = p0
    BY <1>1, <1>3 DEF api
  <1>5. NoProject \in Project
    <2>1. (CHOOSE t \in Specs : TRUE) \in Specs
      OBVIOUS
    <2>2. QED
      BY <1>2, <2>1, ConstantsAssumption DEF NoProject, Project, Generations
  <1>6. NoCluster \in Clusters
    BY DEF NoCluster, Clusters
  <1>7. TypeOK
    <2>1. 1 \in 1..MaxWatch /\ 1 \in 1..(NumServices + 1) /\ 0 \in 0..MaxDisturbances /\ 0 \in 0..MaxFaults
      BY ConstantsAssumption
    <2>2. up \in [Services -> BOOLEAN] /\ psState \in PowerSyncStates
      BY DEF Init, PowerSyncStates
    <2>3. QED
      BY <1>4, <1>5, <1>6, <2>1, <2>2 DEF TypeOK, Init
  <1>8. ~ReadyTrue(p0.status) /\ p0.status.observed = 0 /\ p0.gen = 1
    BY DEF EmptyStatus, NoCondition, ReadyTrue
  <1>9. WatchInv
    BY <1>4, <1>8 DEF WatchInv, Recent, ReadyIsSecured
  <1>10. CopyInv /\ FreshInv /\ StageInv /\ AppliedInv
    BY <1>4, <1>8 DEF Init, CopyInv, FreshInv, StageInv, Stage, AppliedInv, Applied
  <1>11. QED
    BY <1>7, <1>9, <1>10 DEF IInv

LEMMA StartInv ==
    ASSUME IInv, StartReconcile
    PROVE  IInv' /\ Progress
  <1>1. UNCHANGED api
    BY DEF StartReconcile, api
  <1>2. cached \in Project /\ ReadyIsSecured(cached) /\ Recent(cached)
    BY Ends DEF IInv, WatchInv, cached
  <1>3. /\ CopyOf(proj', cached)
        /\ proj'.status.observed = cached.status.observed
        /\ proj'.status.ready = cached.status.ready
        /\ proj'.status.secrets = cached.status.secrets
    BY <1>2 DEF StartReconcile, CopyOf, Project, Status, Phases
  <1>4. TypeOK'
    BY <1>3 DEF IInv, TypeOK, StartReconcile, CopyOf, env
  <1>5. WatchInv'
    BY <1>1 DEF IInv, WatchInv, Recent, StartReconcile
  <1>6. CopyInv'
    BY <1>1, <1>2, <1>3 DEF CopyInv, Recent, ReadyIsSecured, ReadyTrue, CopyOf
  <1>7. FreshInv'
    <2>1. SUFFICES ASSUME fresh' PROVE FreshInv'
      BY DEF FreshInv
    <2>2. Len(watch) = 1
      BY <2>1 DEF StartReconcile
    <2>3. cached = api /\ DOMAIN watch = {1} /\ watch[1] = cached
      BY <2>2 DEF cached, api, IInv, TypeOK
    <2>4. pc' = "secrets" /\ watch' = watch
      BY DEF StartReconcile
    <2>5. QED
      BY <1>1, <1>3, <2>3, <2>4 DEF FreshInv, CopyOf, ReadyTrue
  <1>8. StageInv' /\ AppliedInv'
    BY <1>1 DEF StartReconcile, StageInv, Stage, AppliedInv, Applied, IInv, env
  <1>9. QED
    BY <1>1, <1>4, <1>5, <1>6, <1>7, <1>8 DEF IInv, Progress

\* Steps of the reconciler that leave everything around it alone.
LEMMA QuietEnv ==
    ASSUME IInv, UNCHANGED env, UNCHANGED faults
    PROVE  EnvTypeOK' /\ UNCHANGED cluster
  BY DEF IInv, TypeOK, EnvTypeOK, env
\* Injected faults count up to their bound and leave the rest alone.
LEMMA FaultEnv ==
    ASSUME IInv, faults < MaxFaults, faults' = faults + 1, UNCHANGED env
    PROVE  EnvTypeOK' /\ UNCHANGED cluster
  <1>1. faults' \in 0..MaxFaults
    BY ConstantsAssumption DEF IInv, TypeOK
  <1>2. QED
    BY <1>1 DEF IInv, TypeOK, EnvTypeOK, env

LEMMA SecretsInv ==
    ASSUME IInv, ReconcileSecrets \/ FailReadCredentials
    PROVE  IInv' /\ Progress
  <1> DEFINE p == Provisioned(proj)
             bad == FailReconcileSecrets(p, "InvalidProjectCredentials")
  <1>1. proj \in Project /\ pc = "secrets"
    BY DEF IInv, TypeOK, ReconcileSecrets, FailReadCredentials
  <1>2. Benign(p, proj) /\ p \in Project
    BY <1>1, Copies DEF Benign, CopyOf
  <1>3. Benign(bad, p)
    BY <1>2, Copies
  <1>4. Benign(bad, proj)
    BY <1>2, <1>3, BenignTransitive
  <1>5. CASE ReconcileSecrets /\ credentials
    <2>1. Continue(p, "implementation") /\ UNCHANGED watch /\ UNCHANGED env /\ UNCHANGED faults
      BY <1>5 DEF ReconcileSecrets
    <2>2. Stage(p, "implementation") /\ Applied(p, "implementation")
      BY DEF Stage, Applied
    <2>3. QED
      BY <1>1, <1>2, <2>1, <2>2, QuietEnv, ContinueInv DEF PCs
  <1>6. CASE ReconcileSecrets /\ ~credentials
    <2>1. PersistAndReturn(bad, TRUE) /\ UNCHANGED env /\ UNCHANGED faults
      BY <1>6 DEF ReconcileSecrets
    <2>2. QED
      BY <1>1, <1>4, <2>1, QuietEnv, PersistAndReturnInv
  <1>7. CASE FailReadCredentials
    <2>1. PersistAndReturn(bad, TRUE) /\ EnvTypeOK' /\ UNCHANGED cluster
      BY <1>7, FaultEnv DEF FailReadCredentials
    <2>2. QED
      BY <1>1, <1>4, <2>1, PersistAndReturnInv
  <1>8. QED
    BY <1>5, <1>6, <1>7 DEF ReconcileSecrets

LEMMA ImplementationSecretsInv ==
    ASSUME IInv, ReconcileImplementationSecrets \/ FailImplementationSecrets
    PROVE  IInv' /\ Progress
  <1> DEFINE hook == [proj EXCEPT !.status.hook = proj.spec.hook,
                                  !.status.secrets = IF proj.spec.hook
                                                       THEN Cond(proj, "SecretsReady") ELSE @]
             bad == [proj EXCEPT !.status.secrets = Cond(proj, "ImplementationSecretFailed")]
  <1>1. proj \in Project /\ pc = "implementation"
    BY DEF IInv, TypeOK, ReconcileImplementationSecrets, FailImplementationSecrets
  <1>2. Benign(proj, proj) /\ Benign(hook, proj)
    BY <1>1, Copies
  <1>3. Benign(bad, proj)
    BY <1>1, Copies
  <1> HIDE DEF hook, bad
  <1>4. \A p : \A c \in {"secretsDone", "secretsFailed"} : Stage(p, c) /\ Applied(p, c)
    BY DEF Stage, Applied
  <1>5. CASE ReconcileImplementationSecrets
    <2>1. EnvTypeOK' /\ UNCHANGED cluster
      BY <1>5, QuietEnv DEF ReconcileImplementationSecrets
    <2>2. CASE Continue(proj, "secretsDone") /\ UNCHANGED watch
      BY <1>1, <1>2, <1>4, <2>1, <2>2, ContinueInv DEF PCs
    <2>3. CASE UpdateProjectStatus(hook) /\ Continue(hook, "secretsFailed")
      BY <1>1, <1>2, <1>4, <2>1, <2>3, ContinueInv DEF PCs
    <2>4. CASE UpdateProjectStatus(hook) /\ Continue(hook, "secretsDone")
      BY <1>1, <1>2, <1>4, <2>1, <2>4, ContinueInv DEF PCs
    <2>5. \/ Continue(proj, "secretsDone") /\ UNCHANGED watch
          \/ /\ UpdateProjectStatus(hook)
             /\ Continue(hook, IF Conflict(hook) THEN "secretsFailed" ELSE "secretsDone")
      BY <1>5, Zenon DEF ReconcileImplementationSecrets, hook
    <2>6. QED
      BY <2>2, <2>3, <2>4, <2>5
  <1>6. CASE FailImplementationSecrets
    <2>1. /\ UNCHANGED watch \/ UpdateProjectStatus(bad)
          /\ Continue(bad, "secretsFailed")
          /\ EnvTypeOK' /\ UNCHANGED cluster
      BY <1>6, FaultEnv DEF FailImplementationSecrets, bad
    <2>2. QED
      BY <1>1, <1>3, <1>4, <2>1, ContinueInv DEF PCs
  <1>7. QED
    BY <1>5, <1>6

LEMMA ReportSecretsInv ==
    ASSUME IInv, ReportSecretsFailure \/ ReportSecretsReady
    PROVE  IInv' /\ Progress
  <1> DEFINE bad == FailReconcileSecrets(proj, "ImplementationSecretFailed")
             ok == [proj EXCEPT !.status.secrets = Cond(proj, "CredentialsValidated")]
  <1>1. proj \in Project /\ pc # "idle"
    BY DEF IInv, TypeOK, ReportSecretsFailure, ReportSecretsReady
  <1>2. EnvTypeOK' /\ UNCHANGED cluster
    BY QuietEnv DEF ReportSecretsFailure, ReportSecretsReady
  <1>3. CASE ReportSecretsFailure
    <2>1. Benign(bad, proj)
      BY <1>1, Copies
    <2>2. PersistAndReturn(bad, TRUE)
      BY <1>3 DEF ReportSecretsFailure
    <2>3. QED
      BY <1>1, <1>2, <2>1, <2>2, PersistAndReturnInv
  <1>4. CASE ReportSecretsReady
    <2>1. Benign(ok, proj)
      BY <1>1, Copies DEF SecretsTrue
    <2>2. ok.status.secrets.reason = "CredentialsValidated"
      BY <1>1 DEF Cond, Project, Status
    <2>3. Stage(ok, "recovery") /\ Applied(ok, "recovery")
      BY <2>2 DEF Stage, Applied
    <2>4. PersistThen(ok, "recovery")
      BY <1>4 DEF ReportSecretsReady
    <2>5. QED
      BY <1>1, <1>2, <2>1, <2>3, <2>4, PersistThenInv DEF PCs
  <1>5. QED
    BY <1>3, <1>4

\* The DatabaseReady condition is recorded and the reconciliation ends.
LEMMA DatabaseReasonInv ==
    ASSUME IInv, pc # "idle", NEW reason \in DatabaseReasons,
           PersistAndReturn([proj EXCEPT !.status.database = Cond(proj, reason)], TRUE),
           EnvTypeOK', cluster' \in {cluster, BuildCluster(proj.spec)}
    PROVE  IInv' /\ Progress
  <1>1. Benign([proj EXCEPT !.status.database = Cond(proj, reason)], proj)
    BY Copies DEF IInv, TypeOK
  <1>2. QED
    BY <1>1, PersistAndReturnInv

LEMMA RecoveryInv ==
    ASSUME IInv, ValidateRecoveryBootstrapIntent
    PROVE  IInv' /\ Progress
  <1>1. pc = "recovery" /\ proj \in Project
    BY DEF IInv, TypeOK, ValidateRecoveryBootstrapIntent
  <1>2. EnvTypeOK' /\ UNCHANGED cluster
    BY QuietEnv DEF ValidateRecoveryBootstrapIntent
  <1>3. CASE BootstrapChanged
    BY <1>1, <1>2, <1>3, DatabaseReasonInv
    DEF ValidateRecoveryBootstrapIntent, FailDatabase, DatabaseReasons
  <1>4. CASE ~BootstrapChanged
    <2>1. Continue(proj, "cluster") /\ UNCHANGED watch
      BY <1>4 DEF ValidateRecoveryBootstrapIntent
    <2>2. Stage(proj, "cluster") /\ Applied(proj, "cluster")
      BY <1>1 DEF IInv, StageInv, Stage, Applied
    <2>3. Benign(proj, proj)
      BY <1>1, Copies
    <2>4. QED
      BY <1>1, <1>2, <2>1, <2>2, <2>3, ContinueInv DEF PCs
  <1>5. QED
    BY <1>3, <1>4

LEMMA ClusterInv ==
    ASSUME IInv, ReconcileCNPGCluster
    PROVE  IInv' /\ Progress
  <1>1. pc = "cluster" /\ proj \in Project /\ cluster \in Clusters
    BY DEF IInv, TypeOK, ReconcileCNPGCluster
  <1>2. /\ proj.spec \in Specs /\ proj.spec.size \in Nat
        /\ proj.spec.recovery \in BOOLEAN /\ proj.spec.powersync \in BOOLEAN
    BY <1>1, ConstantsAssumption DEF Project
  <1>3. BuildCluster(proj.spec) \in Clusters
    BY <1>2 DEF BuildCluster, Clusters
  <1>4. ASSUME cluster' \in {cluster, BuildCluster(proj.spec)}
        PROVE  EnvTypeOK'
    BY <1>1, <1>3, <1>4 DEF ReconcileCNPGCluster, EnvTypeOK, IInv, TypeOK
  <1>5. CASE CreateCluster
    <2>1. cluster' = BuildCluster(proj.spec)
      BY <1>5 DEF CreateCluster, BuildCluster
    <2>2. PersistAndReturn([proj EXCEPT !.status.database = Cond(proj, "Creating")], TRUE)
      BY <1>5 DEF CreateCluster
    <2>3. QED
      BY <1>1, <1>4, <2>1, <2>2, DatabaseReasonInv DEF DatabaseReasons
  <1>6. CASE RejectClusterChange
    <2>1. EnvTypeOK' /\ cluster' = cluster
      BY <1>4, <1>6 DEF RejectClusterChange
    <2>2. \/ FailDatabase("BootstrapImmutable")
          \/ FailDatabase("StorageShrink")
      BY <1>6 DEF RejectClusterChange
    <2>3. CASE FailDatabase("BootstrapImmutable")
      BY <1>1, <2>1, <2>3, DatabaseReasonInv DEF FailDatabase, DatabaseReasons
    <2>4. CASE FailDatabase("StorageShrink")
      BY <1>1, <2>1, <2>4, DatabaseReasonInv DEF FailDatabase, DatabaseReasons
    <2>5. QED
      BY <2>2, <2>3, <2>4
  <1>7. CASE UpdateCluster
    <2>1. cluster' = BuildCluster(proj.spec)
      BY <1>1, <1>2, <1>7 DEF UpdateCluster, ReconcileClusterMutableFields, BootstrapChanged, BuildCluster, Clusters
    <2>2. UNCHANGED watch /\ UNCHANGED api /\ Return(TRUE)
      BY <1>7 DEF UpdateCluster, api
    <2>3. Progress
      BY <2>2 DEF Progress
    <2>4. (api.status.observed = api.gen => cluster = BuildCluster(api.spec))'
      BY <1>1, <2>1, <2>3, AppliedKept
    <2>5. watch' \in Seq(Project) /\ Len(watch') \in 1..MaxWatch /\ WatchInv'
      BY <2>2 DEF IInv, TypeOK, WatchInv, Recent
    <2>6. QED
      BY <1>4, <2>1, <2>2, <2>3, <2>4, <2>5, ReturnInv
  <1>8. CASE KeepCluster
    <2>1. cluster = BuildCluster(proj.spec)
      BY <1>1, <1>2, <1>8 DEF KeepCluster, ReconcileClusterMutableFields, BootstrapChanged, BuildCluster, Clusters
    <2>2. Continue(proj, "database") /\ UNCHANGED watch /\ UNCHANGED cluster
      BY <1>8 DEF KeepCluster
    <2>3. Stage(proj, "database") /\ Applied(proj, "database")
      BY <1>1, <2>1 DEF IInv, StageInv, Stage, Applied
    <2>4. Benign(proj, proj)
      BY <1>1, Copies
    <2>5. QED
      BY <1>1, <1>4, <2>2, <2>3, <2>4, ContinueInv DEF PCs
  <1>9. QED
    BY <1>5, <1>6, <1>7, <1>8 DEF ReconcileCNPGCluster

LEMMA CreateFailureInv ==
    ASSUME IInv, FailCreateCluster
    PROVE  IInv' /\ Progress
  <1>1. EnvTypeOK' /\ UNCHANGED cluster /\ pc # "idle"
    BY FaultEnv DEF FailCreateCluster
  <1>2. QED
    BY <1>1, DatabaseReasonInv DEF FailCreateCluster, FailDatabase, DatabaseReasons

LEMMA JWKSFailureInv ==
    ASSUME IInv, FailJWKSConfigMap
    PROVE  IInv' /\ Progress
  <1> DEFINE p == [proj EXCEPT !.status.secrets = Cond(proj, "JWKSConfigMapFailed")]
  <1>1. EnvTypeOK' /\ UNCHANGED cluster /\ pc # "idle" /\ proj \in Project
    BY FaultEnv DEF FailJWKSConfigMap, IInv, TypeOK
  <1>2. Benign(p, proj)
    BY <1>1, Copies
  <1>3. PersistAndReturn(p, TRUE)
    BY DEF FailJWKSConfigMap
  <1> HIDE DEF p
  <1>4. QED
    BY <1>1, <1>2, <1>3, PersistAndReturnInv

LEMMA DatabaseInv ==
    ASSUME IInv, WaitForDatabase
    PROVE  IInv' /\ Progress
  <1> DEFINE p == DatabaseIsReady(proj)
  <1>1. pc = "database" /\ proj \in Project
    BY DEF IInv, TypeOK, WaitForDatabase
  <1>2. EnvTypeOK' /\ UNCHANGED cluster
    BY QuietEnv DEF WaitForDatabase
  <1>3. CASE dbUp
    <2>1. PersistThen(p, "services")
      BY <1>3 DEF WaitForDatabase
    <2>2. Benign(p, proj)
      BY <1>1, Copies
    <2>3. p.status.secrets = proj.status.secrets /\ p.status.database.reason = "Ready" /\ p.spec = proj.spec
      BY <1>1 DEF DatabaseIsReady, Cond, Project, Status
    <2>4. Stage(p, "services") /\ Applied(p, "services")
      BY <1>1, <2>3 DEF IInv, StageInv, Stage, AppliedInv, Applied
    <2>5. QED
      BY <1>1, <1>2, <2>1, <2>2, <2>4, PersistThenInv DEF PCs
  <1>4. CASE ~dbUp
    BY <1>1, <1>2, <1>4, DatabaseReasonInv DEF WaitForDatabase, DatabaseReasons
  <1>5. QED
    BY <1>3, <1>4

LEMMA ComponentInv ==
    ASSUME IInv, ReconcileServiceComponent
    PROVE  IInv' /\ Progress
  <1>1. pc = "services" /\ proj \in Project /\ svc \in Services
    BY DEF IInv, TypeOK, ReconcileServiceComponent
  <1>2. EnvTypeOK' /\ UNCHANGED cluster
    BY QuietEnv DEF ReconcileServiceComponent
  <1>3. PICK sv \in ServiceReasons : proj' = [proj EXCEPT !.status.services[svc] = Cond(proj, sv)]
    BY DEF ReconcileServiceComponent, ServiceReasons
  <1>4. Benign(proj', proj)
    BY <1>1, <1>3, Copies
  <1>5. proj'.status.secrets = proj.status.secrets /\ proj'.status.database = proj.status.database
    BY <1>1, <1>3 DEF Project, Status
  <1>6. UNCHANGED watch /\ UNCHANGED api /\ pc' = pc /\ fresh' = fresh
    BY DEF ReconcileServiceComponent, api
  <1>7. TypeOK'
    <2>1. svc' \in 1..(NumServices + 1)
      BY <1>1, ConstantsAssumption DEF ReconcileServiceComponent, Services
    <2>2. QED
      BY <1>2, <1>4, <1>6, <2>1
      DEF IInv, TypeOK, EnvTypeOK, ReconcileServiceComponent, Benign, CopyOf
  <1>8. WatchInv' /\ CopyInv'
    BY <1>1, <1>4, <1>6 DEF IInv, WatchInv, CopyInv, Recent, Benign, CopyOf
  <1>9. FreshInv'
    BY <1>1, <1>4, <1>6 DEF IInv, FreshInv, Benign, CopyOf
  <1>10. StageInv' /\ AppliedInv'
    BY <1>1, <1>2, <1>4, <1>5, <1>6
    DEF IInv, StageInv, Stage, AppliedInv, Applied, Benign, CopyOf
  <1>11. QED
    BY <1>6, <1>7, <1>8, <1>9, <1>10 DEF IInv, Progress

LEMMA ComponentFailureInv ==
    ASSUME IInv, FailServiceComponent
    PROVE  IInv' /\ Progress
  <1> DEFINE p == [proj EXCEPT !.status.services[svc] = Cond(proj, "DeploymentFailed")]
  <1>1. pc = "services" /\ proj \in Project /\ svc \in Services
    BY DEF IInv, TypeOK, FailServiceComponent
  <1>2. EnvTypeOK' /\ UNCHANGED cluster
    BY FaultEnv DEF FailServiceComponent
  <1>3. Benign(p, proj) /\ Benign(proj, proj)
    BY <1>1, Copies DEF ServiceReasons
  <1>4. \A q : Stage(q, "coreFailed")
    BY DEF Stage
  <1>5. Applied(proj, "coreFailed") /\ Applied(p, "coreFailed")
    BY <1>1, <1>3 DEF IInv, AppliedInv, Applied, Benign, CopyOf
  <1> HIDE DEF p
  <1>6. CASE UpdateProjectStatus(p) /\ Continue(p, "coreFailed")
    BY <1>1, <1>2, <1>3, <1>4, <1>5, <1>6, ContinueInv DEF PCs
  <1>7. CASE UNCHANGED watch /\ Continue(proj, "coreFailed")
    BY <1>1, <1>2, <1>3, <1>4, <1>5, <1>7, ContinueInv DEF PCs
  <1>8. QED
    BY <1>6, <1>7 DEF FailServiceComponent, p

LEMMA CoreFailureInv ==
    ASSUME IInv, FailCoreServices
    PROVE  IInv' /\ Progress
  <1>1. pc # "idle" /\ proj \in Project
    BY DEF IInv, TypeOK, FailCoreServices
  <1>2. EnvTypeOK' /\ UNCHANGED cluster
    BY QuietEnv DEF FailCoreServices
  <1>3. Benign([proj EXCEPT !.status.phase = "Provisioning",
                            !.status.ready = Cond(proj, "CoreServicesFailed")], proj)
    BY <1>1, Copies
  <1>4. QED
    BY <1>1, <1>2, <1>3, PersistAndReturnInv DEF FailCoreServices

LEMMA CompleteServicesInv ==
    ASSUME IInv, CompleteServices
    PROVE  IInv' /\ Progress
  <1> DEFINE p == [proj EXCEPT !.status.api = TRUE]
             w == [p EXCEPT !.status.phase = "Provisioning",
                            !.status.ready = Cond(p, "CoreServicesPending")]
  <1>1. pc = "services" /\ proj \in Project
    BY DEF IInv, TypeOK, CompleteServices
  <1>2. EnvTypeOK' /\ UNCHANGED cluster
    BY QuietEnv DEF CompleteServices
  <1>3. Benign(p, proj) /\ p \in Project
    BY <1>1, Copies DEF Benign, CopyOf
  <1>4. CASE CoreServicesReady(p)
    <2>1. Continue(p, "powersync") /\ UNCHANGED watch
      BY <1>4 DEF CompleteServices
    <2>2. p.status.secrets = proj.status.secrets /\ p.status.database = proj.status.database
      BY <1>1 DEF Project, Status
    <2>3. Stage(p, "powersync") /\ Applied(p, "powersync")
      BY <1>1, <1>3, <1>4, <2>2 DEF IInv, StageInv, Stage, AppliedInv, Applied, Benign, CopyOf
    <2>4. QED
      BY <1>1, <1>2, <1>3, <2>1, <2>3, ContinueInv DEF PCs
  <1>5. CASE ~CoreServicesReady(p)
    <2>1. PersistAndReturn(w, TRUE)
      BY <1>5 DEF CompleteServices
    <2>2. Benign(w, p)
      BY <1>3, Copies
    <2>3. Benign(w, proj)
      BY <1>3, <2>2, BenignTransitive
    <2>4. QED
      BY <1>1, <1>2, <2>1, <2>3, PersistAndReturnInv
  <1>6. QED
    BY <1>4, <1>5

\* A copy that differs in its PowerSync conditions only.
LEMMA PowersyncStage ==
    ASSUME IInv, pc = "powersync", NEW p, Benign(p, proj),
           p.status.secrets = proj.status.secrets,
           p.status.database = proj.status.database,
           p.status.services = proj.status.services,
           proj.spec.powersync => /\ p.status.cdc.reason = "CDCPermissionsApplied"
                                  /\ p.status.powersync.reason = "Ready"
    PROVE  Stage(p, "finish") /\ Applied(p, "finish")
  BY DEF IInv, StageInv, Stage, AppliedInv, Applied, Benign, CopyOf, CoreServicesReady

LEMMA PowersyncInv ==
    ASSUME IInv, ReconcilePowersync
    PROVE  IInv' /\ Progress
  <1> DEFINE a == [proj EXCEPT !.status.cdc = Cond(proj, "CDCPermissionsApplied")]
             With(p, reason) == [p EXCEPT !.status.powersync = Cond(p, reason)]
  <1>1. pc = "powersync" /\ proj \in Project /\ psState \in PowerSyncStates
    BY DEF IInv, TypeOK, ReconcilePowersync
  <1>2. EnvTypeOK' /\ UNCHANGED cluster
    BY QuietEnv DEF ReconcilePowersync
  <1>3. Benign(a, proj) /\ a \in Project
    BY <1>1, Copies DEF Benign, CopyOf, CDCReasons
  <1>4. \/ PersistAndReturn(With(proj, "InvalidSyncRules"), TRUE)
        \/ PersistAndReturn([proj EXCEPT !.status.cdc = Cond(proj, "Pending")], TRUE)
        \/ PersistAndReturn(With(a, "DeploymentsPending"), TRUE)
        \/ Continue(With(a, "Ready"), "finish") /\ UNCHANGED watch
    BY <1>1 DEF ReconcilePowersync, PowerSyncStates
  <1>5. CASE PersistAndReturn(With(proj, "InvalidSyncRules"), TRUE)
    <2>1. Benign(With(proj, "InvalidSyncRules"), proj)
      BY <1>1, Copies DEF PowersyncReasons
    <2>2. QED
      BY <1>1, <1>2, <1>5, <2>1, PersistAndReturnInv
  <1>6. CASE PersistAndReturn([proj EXCEPT !.status.cdc = Cond(proj, "Pending")], TRUE)
    <2>1. Benign([proj EXCEPT !.status.cdc = Cond(proj, "Pending")], proj)
      BY <1>1, Copies DEF CDCReasons
    <2>2. QED
      BY <1>1, <1>2, <1>6, <2>1, PersistAndReturnInv
  <1>7. CASE PersistAndReturn(With(a, "DeploymentsPending"), TRUE)
    <2>1. Benign(With(a, "DeploymentsPending"), a)
      BY <1>3, Copies DEF PowersyncReasons
    <2>2. Benign(With(a, "DeploymentsPending"), proj)
      BY <1>3, <2>1, BenignTransitive
    <2>3. QED
      BY <1>1, <1>2, <1>7, <2>2, PersistAndReturnInv
  <1>8. CASE Continue(With(a, "Ready"), "finish") /\ UNCHANGED watch
    <2> DEFINE r == With(a, "Ready")
    <2>1. Benign(r, a)
      BY <1>3, Copies DEF PowersyncReasons
    <2>2. Benign(r, proj)
      BY <1>3, <2>1, BenignTransitive
    <2>3. /\ a.status.secrets = proj.status.secrets
          /\ a.status.database = proj.status.database
          /\ a.status.services = proj.status.services
          /\ a.status.cdc.reason = "CDCPermissionsApplied"
      BY <1>1 DEF Cond, Project, Status
    <2>4. /\ r.status.secrets = a.status.secrets
          /\ r.status.database = a.status.database
          /\ r.status.services = a.status.services
          /\ r.status.cdc = a.status.cdc
          /\ r.status.powersync.reason = "Ready"
      BY <1>3 DEF Cond, Project, Status
    <2> HIDE DEF r, a
    <2>5. Stage(r, "finish") /\ Applied(r, "finish")
      BY <1>1, <2>2, <2>3, <2>4, PowersyncStage
    <2>6. Continue(r, "finish") /\ UNCHANGED watch
      BY <1>8 DEF r, a
    <2>7. QED
      BY <1>1, <1>2, <2>2, <2>5, <2>6, ContinueInv DEF PCs
  <1>9. QED
    BY <1>4, <1>5, <1>6, <1>7, <1>8

LEMMA CleanupInv ==
    ASSUME IInv, CleanupPowerSync
    PROVE  IInv' /\ Progress
  <1> DEFINE p == [proj EXCEPT !.status.powersync = NoCondition, !.status.cdc = NoCondition]
  <1>1. pc = "powersync" /\ proj \in Project /\ ~proj.spec.powersync
    BY DEF IInv, TypeOK, CleanupPowerSync
  <1>2. EnvTypeOK' /\ UNCHANGED cluster
    BY DEF CleanupPowerSync, IInv, TypeOK, EnvTypeOK, PowerSyncStates
  <1>3. Benign(p, proj) /\ Benign(proj, proj)
    BY <1>1, Copies
  <1>4. /\ p.status.secrets = proj.status.secrets
        /\ p.status.database = proj.status.database
        /\ p.status.services = proj.status.services
    BY <1>1 DEF Project, Status
  <1> HIDE DEF p
  <1>5. Stage(p, "finish") /\ Applied(p, "finish") /\ Stage(proj, "finish") /\ Applied(proj, "finish")
    BY <1>1, <1>3, <1>4, PowersyncStage
  <1>6. CASE Continue(proj, "finish") /\ UNCHANGED watch
    BY <1>1, <1>2, <1>3, <1>5, <1>6, ContinueInv DEF PCs
  <1>7. CASE PersistThen(p, "finish")
    BY <1>1, <1>2, <1>3, <1>5, <1>7, PersistThenInv DEF PCs
  <1>8. QED
    BY <1>6, <1>7 DEF CleanupPowerSync, p

\* The end of a reconciliation raises Ready for the stored generation, or
\* leaves the stored project as it is.
LEMMA CompleteInv ==
    ASSUME IInv, CompleteReconcile
    PROVE  IInv' /\ (Progress \/ Success)
  <1> DEFINE p == [proj EXCEPT !.status.phase = "Running", !.status.observed = proj.gen,
                               !.status.ready = Cond(proj, "AllComponentsReady")]
  <1>1. pc = "finish" /\ proj \in Project
    BY DEF IInv, TypeOK, CompleteReconcile
  <1>2. EnvTypeOK' /\ UNCHANGED cluster
    BY QuietEnv DEF CompleteReconcile
  <1>3. UpdateProjectStatus(p) /\ Return(FALSE \/ Conflict(p))
    BY DEF CompleteReconcile, PersistAndReturn
  <1>4. CopyOf(p, proj)
    BY <1>1, Copies
  <1>5. /\ p.status.observed = proj.gen
        /\ p.status.secrets = proj.status.secrets
        /\ p.status.database = proj.status.database
        /\ p.status.services = proj.status.services
        /\ p.status.cdc = proj.status.cdc
        /\ p.status.powersync = proj.status.powersync
        /\ ReadyTrue(p.status)
    BY <1>1 DEF Cond, Project, Status, ReadyTrue
  <1> HIDE DEF p
  <1>6. Stage(proj, "finish") /\ Applied(proj, "finish")
    BY <1>1 DEF IInv, StageInv, AppliedInv
  <1>7. ComponentsReady(p) /\ ReadyIsSecured(p)
    BY <1>4, <1>5, <1>6
    DEF Stage, ComponentsReady, ReadyIsSecured, CoreServicesReady, CopyOf, SecretsTrue
  <1>8. /\ watch' \in Seq(Project) /\ Len(watch') \in 1..MaxWatch /\ WatchInv'
        /\ watch' = watch \/ (fresh /\ api' = p)
        /\ api'.gen = api.gen /\ api'.spec = api.spec
    BY <1>1, <1>3, <1>4, <1>5, <1>7, PersistWatch
  <1>9. (FALSE \/ Conflict(p)) \in BOOLEAN
    BY DEF Conflict
  <1>10. CASE watch' = watch
    <2>1. Progress /\ UNCHANGED api
      BY <1>10 DEF Progress, api
    <2>2. (api.status.observed = api.gen => cluster = BuildCluster(api.spec))'
      BY <1>2, <2>1 DEF IInv, AppliedInv
    <2>3. QED
      BY <1>2, <1>3, <1>8, <1>9, <2>1, <2>2, ReturnInv
  <1>11. CASE fresh /\ api' = p
    <2>1. proj.gen = api.gen /\ proj.spec = api.spec
      BY <1>4, <1>8, <1>11 DEF CopyOf
    <2>2. Success
      <3>1. ComponentsReady(api')
        BY <1>7, <1>11
      <3>2. QED
        BY <1>5, <1>8, <1>11, <2>1, <3>1 DEF Success
    <2>3. cluster' = BuildCluster(api'.spec)
      BY <1>2, <1>6, <1>8, <2>1 DEF Applied
    <2>4. QED
      BY <1>2, <1>3, <1>8, <1>9, <2>2, <2>3, ReturnInv
  <1>12. QED
    BY <1>8, <1>10, <1>11

LEMMA ApiFailureInv ==
    ASSUME IInv, FailApiCall
    PROVE  IInv' /\ Progress
  <1>1. EnvTypeOK' /\ UNCHANGED cluster
    BY FaultEnv DEF FailApiCall
  <1>2. UNCHANGED watch /\ UNCHANGED api /\ Return(TRUE)
    BY DEF FailApiCall, api
  <1>3. watch' \in Seq(Project) /\ Len(watch') \in 1..MaxWatch /\ WatchInv'
    BY <1>2 DEF IInv, TypeOK, WatchInv, Recent
  <1>4. (api.status.observed = api.gen => cluster = BuildCluster(api.spec))'
    BY <1>1, <1>2 DEF IInv, AppliedInv
  <1>5. QED
    BY <1>1, <1>2, <1>3, <1>4, ReturnInv DEF Progress

LEMMA RestartInv ==
    ASSUME IInv, Restart
    PROVE  IInv' /\ Progress
  <1>1. EnvTypeOK' /\ UNCHANGED cluster
    BY FaultEnv DEF Restart
  <1>2. api \in Project /\ watch' = <<api>> /\ Return(TRUE)
    BY Ends DEF IInv, Restart
  <1>3. /\ watch' \in Seq(Project) /\ Len(watch') = 1 /\ DOMAIN watch' = {1}
        /\ watch'[1] = api /\ api' = api
    BY <1>2 DEF api
  <1>4. Len(watch') \in 1..MaxWatch
    BY <1>3, ConstantsAssumption
  <1>5. ReadyIsSecured(api) /\ Recent(api)
    BY Ends DEF IInv, WatchInv, api
  <1>6. WatchInv'
    BY <1>3, <1>5 DEF WatchInv, Recent, ReadyIsSecured, ReadyTrue
  <1>7. (api.status.observed = api.gen => cluster = BuildCluster(api.spec))'
    BY <1>1, <1>3 DEF IInv, AppliedInv
  <1>8. QED
    BY <1>1, <1>2, <1>3, <1>4, <1>6, <1>7, ReturnInv DEF Progress

\* Steps around the reconciler that leave its working copy alone and drop or
\* keep versions of the project, never the stored one.
LEMMA QuietInv ==
    ASSUME IInv, UNCHANGED <<proj, fresh, pc, svc, cluster>>, UNCHANGED api,
           queued' \in BOOLEAN, EnvTypeOK',
           watch' \in Seq(Project), Len(watch') \in 1..MaxWatch,
           \A i \in DOMAIN watch' : \E j \in DOMAIN watch : watch'[i] = watch[j]
    PROVE  IInv' /\ Progress
  <1>1. TypeOK'
    BY DEF IInv, TypeOK, EnvTypeOK
  <1>2. WatchInv'
    BY DEF IInv, WatchInv, Recent, ReadyIsSecured, ReadyTrue
  <1>3. CopyInv' /\ FreshInv'
    BY DEF IInv, CopyInv, FreshInv, Recent
  <1>4. StageInv' /\ AppliedInv'
    BY DEF IInv, StageInv, Stage, AppliedInv, Applied, CoreServicesReady
  <1>5. QED
    BY <1>1, <1>2, <1>3, <1>4 DEF IInv, Progress

LEMMA DeliverInv ==
    ASSUME IInv, DeliverProject
    PROVE  IInv' /\ Progress
  <1>1. /\ watch' \in Seq(Project) /\ Len(watch') = Len(watch) - 1
        /\ \A i \in 1..(Len(watch) - 1) : watch'[i] = watch[i + 1]
    BY DEF IInv, TypeOK, DeliverProject
  <1>2. Len(watch) \in Nat /\ Len(watch) > 1 /\ Len(watch) <= MaxWatch /\ MaxWatch \in Nat
    BY ConstantsAssumption DEF IInv, TypeOK, DeliverProject
  <1>3. Len(watch') \in 1..MaxWatch
    BY <1>1, <1>2
  <1>4. UNCHANGED api
    BY <1>1, <1>2 DEF api
  <1>5. \A i \in DOMAIN watch' : \E j \in DOMAIN watch : watch'[i] = watch[j]
    <2>1. SUFFICES ASSUME NEW i \in DOMAIN watch'
                   PROVE  \E j \in DOMAIN watch : watch'[i] = watch[j]
      OBVIOUS
    <2>2. i + 1 \in DOMAIN watch /\ watch'[i] = watch[i + 1]
      BY <1>1, <1>2, <2>1 DEF IInv, TypeOK
    <2>3. QED
      BY <2>2
  <1>6. queued' \in BOOLEAN
    BY Zenon DEF DeliverProject
  <1>7. EnvTypeOK' /\ UNCHANGED <<proj, fresh, pc, svc, cluster>>
    BY QuietEnv DEF DeliverProject
  <1>8. QED
    BY <1>1, <1>3, <1>4, <1>5, <1>6, <1>7, QuietInv

LEMMA DisturbanceInv ==
    ASSUME IInv, RotateCredentials \/ DatabaseChanges \/ DeploymentChanges \/ PowerSyncChanges
    PROVE  IInv' /\ Progress
  <1>1. PICK bad : Disturb(bad)
    BY DEF RotateCredentials, DatabaseChanges, DeploymentChanges, PowerSyncChanges
  <1>2. disturbances' \in 0..MaxDisturbances
    <2>1. disturbances \in 0..MaxDisturbances
      BY DEF IInv, TypeOK
    <2>2. CASE bad
      BY <1>1, <2>1, <2>2, ConstantsAssumption DEF Disturb
    <2>3. CASE ~bad
      BY <1>1, <2>1, <2>3, ConstantsAssumption DEF Disturb
    <2>4. QED
      BY <2>2, <2>3
  <1>3. credentials' \in BOOLEAN /\ dbUp' \in BOOLEAN /\ up' \in [Services -> BOOLEAN]
    <2>1. credentials' \in BOOLEAN /\ dbUp' \in BOOLEAN
      BY Zenon
      DEF IInv, TypeOK, RotateCredentials, DatabaseChanges, DeploymentChanges, PowerSyncChanges
    <2>2. up' \in [Services -> BOOLEAN]
      BY DEF IInv, TypeOK, RotateCredentials, DatabaseChanges, DeploymentChanges, PowerSyncChanges
    <2>3. QED
      BY <2>1, <2>2
  <1>4. psState' \in PowerSyncStates
    BY DEF IInv, TypeOK, RotateCredentials, DatabaseChanges, DeploymentChanges, PowerSyncChanges
  <1>5. queued' = TRUE /\ UNCHANGED <<watch, proj, fresh, pc, svc, cluster, faults>>
    BY <1>1 DEF Disturb
  <1>6. EnvTypeOK'
    BY <1>2, <1>3, <1>4, <1>5 DEF IInv, TypeOK, EnvTypeOK
  <1>7. UNCHANGED api
    BY <1>5 DEF api
  <1>8. watch' \in Seq(Project) /\ Len(watch') \in 1..MaxWatch
    BY <1>5 DEF IInv, TypeOK
  <1>9. \A i \in DOMAIN watch' : \E j \in DOMAIN watch : watch'[i] = watch[j]
    BY <1>5
  <1>10. QED
    BY <1>5, <1>6, <1>7, <1>8, <1>9, QuietInv

LEMMA EditInv ==
    ASSUME IInv, EditSpec
    PROVE  IInv' /\ Edited
  <1>1. PICK s \in Specs : watch' = Append(watch, [api EXCEPT !.gen = @ + 1, !.spec = s])
    BY DEF EditSpec
  <1> DEFINE p == [api EXCEPT !.gen = @ + 1, !.spec = s]
  <1>2. /\ api \in Project /\ api.gen \in Nat /\ api.gen < MaxGeneration
        /\ api.status.observed \in Nat
    <2>1. api \in Project
      BY Ends DEF IInv
    <2>2. api.gen \in Generations /\ api.status \in Status /\ api.status.observed \in Generations
      BY <2>1 DEF Project, Status
    <2>3. QED
      BY <2>1, <2>2, ConstantsAssumption DEF EditSpec, Generations
  <1>3. p \in Project /\ p.gen = api.gen + 1 /\ p.status = api.status
    <2>1. p.gen = api.gen + 1 /\ p.status = api.status /\ p.spec = s
      BY <1>2 DEF Project
    <2>2. api.gen + 1 \in Generations
      BY <1>2, ConstantsAssumption DEF Generations
    <2>3. QED
      BY <1>2, <2>1, <2>2 DEF Project
  <1> HIDE DEF p
  <1>4. /\ Len(watch') = Len(watch) + 1
        /\ watch' \in Seq(Project)
        /\ \A i \in 1..Len(watch) : watch'[i] = watch[i]
        /\ watch'[Len(watch) + 1] = p
        /\ DOMAIN watch' = 1..(Len(watch) + 1)
    BY <1>1, <1>3 DEF IInv, TypeOK, p
  <1>5. api' = p
    BY <1>4 DEF api
  <1>6. UNCHANGED <<proj, pc, svc, queued, env, faults>> /\ fresh' = FALSE
    BY DEF EditSpec
  <1>7. TypeOK'
    <2>1. Len(watch') \in 1..MaxWatch
      BY <1>4, ConstantsAssumption DEF EditSpec, IInv, TypeOK
    <2>2. EnvTypeOK'
      BY <1>6, QuietEnv
    <2>3. QED
      BY <1>4, <1>6, <2>1, <2>2 DEF IInv, TypeOK, EnvTypeOK
  <1>8. \A i \in DOMAIN watch : watch[i].gen \in Nat /\ proj.gen \in Nat
    BY Ends, ConstantsAssumption DEF IInv, TypeOK, Project, Generations
  <1>9. api.status.observed <= api.gen /\ ReadyIsSecured(api) /\ 1 \in DOMAIN watch
    BY Ends DEF IInv, WatchInv, Recent, api
  <1>10. ASSUME NEW i \in DOMAIN watch'
         PROVE  ReadyIsSecured(watch'[i]) /\ Recent(watch[i])'
    <2>2. CASE i \in 1..Len(watch)
      <3>1. i \in DOMAIN watch /\ watch'[i] = watch[i]
        BY <1>4, <2>2 DEF IInv, TypeOK
      <3>2. ReadyIsSecured(watch[i]) /\ Recent(watch[i]) /\ watch[i].gen \in Nat
        BY <1>8, <3>1 DEF IInv, WatchInv
      <3>3. watch[i].gen < p.gen /\ p.status.observed <= watch[i].gen
        BY <1>2, <1>3, <3>2 DEF Recent
      <3>4. QED
        BY <1>2, <1>3, <1>5, <3>1, <3>2, <3>3 DEF Recent
    <2>3. CASE i = Len(watch) + 1
      BY <1>2, <1>3, <1>4, <1>5, <1>9, <2>3 DEF Recent, ReadyIsSecured
    <2>4. QED
      BY <1>4, <1>10, <2>2, <2>3 DEF IInv, TypeOK
  <1>11. WatchInv'
    BY <1>10 DEF WatchInv, ReadyIsSecured, ReadyTrue
  <1>12. CopyInv'
    BY <1>2, <1>3, <1>5, <1>6, <1>8, <1>9 DEF IInv, CopyInv, Recent
  <1>13. FreshInv' /\ StageInv'
    BY <1>6 DEF IInv, FreshInv, StageInv, Stage, CoreServicesReady
  <1>14. AppliedInv'
    BY <1>2, <1>3, <1>5, <1>6, <1>9 DEF IInv, AppliedInv, Applied, env
  <1>15. QED
    BY <1>3, <1>5, <1>7, <1>11, <1>12, <1>13, <1>14 DEF IInv, Edited

-----------------------------------------------------------------------------
(* The theorems.                                                           *)

LEMMA NextInv ==
    ASSUME IInv, [Next]_vars
    PROVE  IInv' /\ (Progress \/ Success \/ Edited)
  <1>1. CASE UNCHANGED vars
    <2>1. UNCHANGED api
      BY <1>1 DEF vars, api
    <2>2. UNCHANGED <<watch, proj, fresh, pc, svc, queued, credentials, cluster, dbUp, up, psState,
                      disturbances, faults>>
      BY <1>1 DEF vars, env
    <2>3. EnvTypeOK' /\ queued' \in BOOLEAN /\ watch' \in Seq(Project) /\ Len(watch') \in 1..MaxWatch
      BY <2>2 DEF IInv, TypeOK, EnvTypeOK
    <2>4. \A i \in DOMAIN watch' : \E j \in DOMAIN watch : watch'[i] = watch[j]
      BY <2>2
    <2>5. QED
      BY <2>1, <2>2, <2>3, <2>4, QuietInv
  <1>2. CASE Reconcile
    BY <1>2, StartInv, SecretsInv, ImplementationSecretsInv, ReportSecretsInv, RecoveryInv,
       ClusterInv, DatabaseInv, ComponentInv, CoreFailureInv, CompleteServicesInv,
       PowersyncInv, CleanupInv, CompleteInv
    DEF Reconcile
  <1>3. CASE Faults
    BY <1>3, SecretsInv, ImplementationSecretsInv, CreateFailureInv, JWKSFailureInv, ComponentFailureInv,
       ApiFailureInv, RestartInv
    DEF Faults
  <1>4. CASE Environment
    BY <1>4, DeliverInv, EditInv, DisturbanceInv DEF Environment
  <1>5. QED
    BY <1>1, <1>2, <1>3, <1>4 DEF Next

\* The invariant is inductive: whatever the schedule, the edits, the faults and
\* the lag of the cache.
THEOREM Invariance == Spec => []IInv
  <1>1. IInv /\ [Next]_vars => IInv'
    BY NextInv
  <1>2. QED
    BY InitInv, <1>1, PTL DEF Spec

\* Type correctness: in particular the version queue between the API server and
\* the informer never runs empty and the service cursor stays in range.
THEOREM TypeCorrect == Spec => []TypeOK
  <1>1. IInv => TypeOK
    BY DEF IInv
  <1>2. QED
    BY Invariance, <1>1, PTL

\* failReconcileSecrets: no version of the project is advertised as Ready with
\* a bad credential bundle, for any number of services and any interleaving.
THEOREM BadCredentialsNeverReady == Spec => []NeverReadyWithBadCredentials
  <1>1. IInv => NeverReadyWithBadCredentials
    BY DEF IInv, WatchInv, ReadyIsSecured, NeverReadyWithBadCredentials
  <1>2. QED
    BY Invariance, <1>1, PTL

\* A recorded observedGeneration means the database Cluster carries the spec of
\* that generation, although Reconcile works on a stale copy of the project.
THEOREM ObservedIsApplied == Spec => []ObservedGenerationApplied
  <1>1. IInv => ObservedGenerationApplied
    BY DEF IInv, AppliedInv, BuildCluster, ObservedGenerationApplied
  <1>2. QED
    BY Invariance, <1>1, PTL

\* Reconcile implements StatusContract: Ready is raised and observedGeneration
\* advanced only by a status that reports every component ready for the
\* generation the API server holds.
THEOREM Refinement == Spec => ImplementsStatusContract
  <1>1. Init => Contract!Init
    <2>1. SUFFICES ASSUME Init PROVE Contract!Init
      OBVIOUS
    <2>2. PICK s \in Specs : watch = <<[gen |-> 1, spec |-> s, status |-> EmptyStatus]>>
      BY <2>1 DEF Init
    <2>3. api = [gen |-> 1, spec |-> s, status |-> EmptyStatus]
      BY <2>2 DEF api
    <2>4. ~ReadyTrue(api.status) /\ ~ComponentsReady(api)
      BY <2>3 DEF EmptyStatus, NoCondition, ReadyTrue, ComponentsReady, SecretsTrue
    <2>5. QED
      BY <2>3, <2>4 DEF Contract!Init, EmptyStatus
  <1>2. IInv /\ [Next]_vars => [Contract!Next]_Contract!vars
    <2>1. SUFFICES ASSUME IInv, [Next]_vars PROVE Contract!Next
      OBVIOUS
    <2>2. ComponentsReady(api)' = ComponentsReady(api') /\ ReadyTrue(api.status)' = ReadyTrue(api'.status)
      BY DEF ComponentsReady, CoreServicesReady, ReadyTrue
    <2>3. ComponentsReady(api)' \in BOOLEAN /\ ReadyTrue(api.status) \in BOOLEAN /\ ReadyTrue(api.status)' \in BOOLEAN
      BY DEF ComponentsReady, ReadyTrue
    <2>4. CASE Progress
      BY <2>2, <2>3, <2>4 DEF Progress, Contract!Next, Contract!ReportProgress
    <2>5. CASE Success
      BY <2>2, <2>3, <2>5 DEF Success, Contract!Next, Contract!ReportReady
    <2>6. CASE Edited
      BY <2>2, <2>3, <2>6 DEF Edited, Contract!Next, Contract!EditSpec
    <2>7. QED
      BY <2>1, <2>4, <2>5, <2>6, NextInv
  <1>3. QED
    BY Invariance, <1>1, <1>2, PTL DEF Spec, ImplementsStatusContract, Contract!Spec
=============================================================================
