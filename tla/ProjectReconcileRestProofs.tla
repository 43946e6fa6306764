--------------------- MODULE ProjectReconcileRestProofs ---------------------
(***************************************************************************)
(* The operator comes to rest only on a status that says what is the case: *)
(* QuiescentMeansConverged of ProjectReconcile, for every number of        *)
(* services, every set of specs and every bound.                           *)
(*                                                                         *)
(* A pass that no event has interrupted and that does not ask for another  *)
(* one has found everything in order (SeenInv).  What remains is that the  *)
(* API server has the status it ends with, although the pass compares with *)
(* the cached project and may have read a stale one to begin with.         *)
(*                                                                         *)
(* Only a pass that starts with nothing on its way to the cache can write, *)
(* so all versions behind the cached one are of one such pass.  If it is   *)
(* the present one, they come from its copy in a known order (FreshPass).  *)
(* If it is an earlier one, the present pass has written nothing: where    *)
(* WaitForDatabase takes the API endpoint out of the status the cached     *)
(* version had none, where the pass ends the cached version has one again, *)
(* and what the earlier pass wrote after such a version is complete        *)
(* (Turn).                                                                 *)
(***************************************************************************)
EXTENDS ProjectReconcileProofs

Finished(p) ==
    /\ p.status.phase = "Running"
    /\ ReadyTrue(p.status)
    /\ ComponentsReady(p)
    /\ p.status.observed = p.gen

\* The version in the API server, of the versions w.
Stored(w) == w[Len(w)]

\* No event and no edit is on its way.
Calm == queued = FALSE /\ cached.gen = api.gen

GenInv == pc # "idle" /\ queued = FALSE => proj.gen = cached.gen

\* What an uninterrupted pass at step c with copy p and cursor n has looked at
\* is still so.
Seen(p, c, n) ==
    /\ c # "secrets" => credentials = TRUE
    /\ c \in {"idle", "services", "coreFailed", "powersync", "finish"} => dbUp = TRUE
    /\ c = "services" => \A i \in Services :
          i < n /\ p.status.services[i].reason = "Ready" => up[i] = TRUE
    /\ c \in {"idle", "powersync", "finish"} => \A i \in Services : up[i] = TRUE

SeenInv == queued = FALSE => Seen(proj, pc, svc)

Early == {"secrets", "implementation", "secretsFailed", "secretsDone", "recovery", "cluster",
          "database"}
Late == {"services", "coreFailed", "powersync", "finish"}

CursorInv == pc \notin Late => svc = 1

\* The API endpoint in the copy p at step c.
Endpoint(p, c) ==
    /\ c \in {"services", "coreFailed"} => p.status.api = FALSE
    /\ c \in {"powersync", "finish"} => p.status.api = TRUE

EndpointInv == Endpoint(proj, pc)

\* A version that is complete and has the API endpoint again is followed by
\* nothing worse.
Turn(w) ==
    \A i, j \in DOMAIN w :
       /\ i < j /\ w[i].gen = Stored(w).gen
       /\ w[i].status.api = FALSE /\ w[j].status.api = TRUE /\ Finished(w[j])
       => Finished(Stored(w))

NoTurn(w) ==
    \A i, j \in DOMAIN w : ~(i < j /\ w[i].status.api = FALSE /\ w[j].status.api = TRUE)

TurnInv == Turn(watch)

\* The parts of the status only the later phases change.
SameBody(v, p) ==
    /\ v.status.database = p.status.database
    /\ v.status.api = p.status.api
    /\ v.status.services = p.status.services
    /\ v.status.cdc = p.status.cdc
    /\ v.status.powersync = p.status.powersync

\* The parts only a pass that ends changes.
SameHead(w, p) ==
    \A j \in DOMAIN w :
       /\ w[j].status.observed = p.status.observed
       /\ w[j].status.ready = p.status.ready
       /\ w[j].status.phase = "Running" => /\ p.status.phase = "Running"
                                           /\ Stored(w).status.phase = "Running"

SameComponents(w) ==
    \A j \in DOMAIN w : /\ w[j].status.services = Stored(w).status.services
                        /\ w[j].status.cdc = Stored(w).status.cdc
                        /\ w[j].status.powersync = Stored(w).status.powersync

\* How the versions w, the cached one first, come from the fresh copy p at c.
FreshPass(w, p, c) ==
    /\ SameHead(w, p)
    /\ c \in {"secrets", "implementation"} => Len(w) = 1 /\ w[1].status.hook = p.status.hook
    /\ c = "secretsDone" =>
          \/ Len(w) = 1
          \/ /\ Stored(w).status = p.status
             /\ \/ Stored(w).status.secrets.reason \in SecretsTrue
                \/ \A j \in DOMAIN w : j < Len(w) => w[j].status.hook # p.status.hook
    /\ c \in {"recovery", "cluster", "database", "services", "powersync", "finish"} =>
          Stored(w).status.secrets.reason \in SecretsTrue
    /\ c \in Early => \A j \in DOMAIN w : SameBody(w[j], p)
    /\ c \in {"services", "powersync", "finish"} => Stored(w).status.database.reason = "Ready"
    /\ c \in {"services", "powersync"} => SameComponents(w)
    /\ c = "finish" => \/ SameComponents(w)
                       \/ ~p.spec.powersync /\ CoreServicesReady(Stored(w))
    /\ c \in {"services", "coreFailed", "powersync"} => NoTurn(w)

PassInv == fresh = TRUE => FreshPass(watch, proj, pc)

\* A stale pass past WaitForDatabase.
LateInv ==
    Calm /\ fresh = FALSE /\ pc \in Late =>
       \A j \in DOMAIN watch : watch[j].status.api = TRUE /\ Finished(watch[j]) => Finished(api)

RestInv == Calm /\ pc = "idle" => Finished(api)

RInv == GenInv /\ SeenInv /\ CursorInv /\ EndpointInv /\ TurnInv /\ PassInv /\ LateInv /\ RestInv
-----------------------------------------------------------------------------
(* Facts about the data.                                                   *)

\* q has the head of the status of p, or a phase that is not worse.
Leads(q, p) ==
    /\ q.gen = p.gen
    /\ q.spec = p.spec
    /\ q.status.observed = p.status.observed
    /\ q.status.ready = p.status.ready
    /\ p.status.phase = "Running" => q.status.phase = "Running"

\* The parts of the status the secrets phase sets.
SameSecrets(q, p) == q.status.secrets = p.status.secrets /\ q.status.hook = p.status.hook

SecretsCopy(p, reason) == [p EXCEPT !.status.secrets = Cond(p, reason)]

HookCopy(p) ==
    [p EXCEPT !.status.hook = p.spec.hook,
              !.status.secrets = IF p.spec.hook THEN Cond(p, "SecretsReady") ELSE @]

\* What the copies of the secrets phase keep and set.
LEMMA SecretsCopies ==
    ASSUME NEW p \in Project
    PROVE  /\ Leads(p, p) /\ SameBody(p, p)
           /\ Leads(Provisioned(p), p) /\ SameBody(Provisioned(p), p) /\ SameSecrets(Provisioned(p), p)
           /\ \A r : /\ Leads(SecretsCopy(p, r), p) /\ SameBody(SecretsCopy(p, r), p)
                     /\ SecretsCopy(p, r).status.secrets.reason = r
                     /\ SecretsCopy(p, r).status.hook = p.status.hook
           /\ Leads(HookCopy(p), p) /\ SameBody(HookCopy(p), p)
           /\ HookCopy(p).status.hook = p.spec.hook
           /\ p.spec.hook => HookCopy(p).status.secrets.reason = "SecretsReady"
  <1>1. Leads(p, p) /\ SameBody(p, p)
    BY DEF Leads, SameBody
  <1>2. Leads(Provisioned(p), p) /\ SameBody(Provisioned(p), p) /\ SameSecrets(Provisioned(p), p)
    BY DEF Leads, SameBody, SameSecrets, Provisioned, Project, Status
  <1>3. ASSUME NEW r
        PROVE  /\ Leads(SecretsCopy(p, r), p) /\ SameBody(SecretsCopy(p, r), p)
               /\ SecretsCopy(p, r).status.secrets.reason = r
               /\ SecretsCopy(p, r).status.hook = p.status.hook
    BY DEF Leads, SameBody, SecretsCopy, Cond, Project, Status
  <1>4. /\ Leads(HookCopy(p), p) /\ SameBody(HookCopy(p), p)
        /\ HookCopy(p).status.hook = p.spec.hook
        /\ p.spec.hook => HookCopy(p).status.secrets.reason = "SecretsReady"
    <2> DEFINE c == IF p.spec.hook THEN Cond(p, "SecretsReady") ELSE p.status.secrets
               q == [p EXCEPT !.status.hook = p.spec.hook, !.status.secrets = c]
    <2>1. p.spec.hook => c.reason = "SecretsReady"
      BY DEF Cond
    <2>2. HookCopy(p) = q
      BY DEF HookCopy
    <2> HIDE DEF c
    <2>3. /\ Leads(q, p) /\ SameBody(q, p)
          /\ q.status.hook = p.spec.hook /\ q.status.secrets = c
      BY DEF Leads, SameBody, Project, Status
    <2> HIDE DEF q
    <2>4. QED
      BY <2>1, <2>2, <2>3
  <1>5. QED
    BY <1>1, <1>2, <1>3, <1>4

ServiceCopy(p, i, reason) == [p EXCEPT !.status.services[i] = Cond(p, reason)]

ApiCopy(p) == [p EXCEPT !.status.api = TRUE]

CdcCopy(p, reason) == [p EXCEPT !.status.cdc = Cond(p, reason)]

PowersyncCopy(p, reason) == [p EXCEPT !.status.powersync = Cond(p, reason)]

CleanCopy(p) == [p EXCEPT !.status.powersync = NoCondition, !.status.cdc = NoCondition]

FinalCopy(p) == [p EXCEPT !.status.phase = "Running", !.status.observed = p.gen,
                          !.status.ready = Cond(p, "AllComponentsReady")]

\* What the copies of the later phases keep and set.
LEMMA LaterCopies ==
    ASSUME NEW p \in Project
    PROVE  /\ Leads(DatabaseIsReady(p), p) /\ SameSecrets(DatabaseIsReady(p), p)
           /\ DatabaseIsReady(p).status.api = FALSE
           /\ DatabaseIsReady(p).status.database.reason = "Ready"
           /\ DatabaseIsReady(p).status.services = p.status.services
           /\ DatabaseIsReady(p).status.cdc = p.status.cdc
           /\ DatabaseIsReady(p).status.powersync = p.status.powersync
           /\ Leads(ApiCopy(p), p) /\ ApiCopy(p).status.api = TRUE
           /\ ApiCopy(p).status.services = p.status.services
           /\ Leads(CleanCopy(p), p) /\ SameSecrets(CleanCopy(p), p)
           /\ CleanCopy(p).status.api = p.status.api
           /\ CleanCopy(p).status.database = p.status.database
           /\ CleanCopy(p).status.services = p.status.services
           /\ SameBody(FinalCopy(p), p) /\ SameSecrets(FinalCopy(p), p)
           /\ FinalCopy(p).gen = p.gen /\ FinalCopy(p).spec = p.spec
           /\ FinalCopy(p).status.phase = "Running"
           /\ FinalCopy(p).status.observed = p.gen
           /\ FinalCopy(p).status.ready.reason = "AllComponentsReady"
  <1> USE DEF Leads, SameBody, SameSecrets, Project, Status, Cond
  <1>1. /\ Leads(DatabaseIsReady(p), p) /\ SameSecrets(DatabaseIsReady(p), p)
        /\ DatabaseIsReady(p).status.api = FALSE
        /\ DatabaseIsReady(p).status.database.reason = "Ready"
        /\ DatabaseIsReady(p).status.services = p.status.services
        /\ DatabaseIsReady(p).status.cdc = p.status.cdc
        /\ DatabaseIsReady(p).status.powersync = p.status.powersync
    BY DEF DatabaseIsReady
  <1>2. /\ Leads(ApiCopy(p), p) /\ ApiCopy(p).status.api = TRUE
        /\ ApiCopy(p).status.services = p.status.services
    BY DEF ApiCopy
  <1>3. /\ Leads(CleanCopy(p), p) /\ SameSecrets(CleanCopy(p), p)
        /\ CleanCopy(p).status.api = p.status.api
        /\ CleanCopy(p).status.database = p.status.database
        /\ CleanCopy(p).status.services = p.status.services
    BY DEF CleanCopy
  <1>4. /\ SameBody(FinalCopy(p), p) /\ SameSecrets(FinalCopy(p), p)
        /\ FinalCopy(p).gen = p.gen /\ FinalCopy(p).spec = p.spec
        /\ FinalCopy(p).status.phase = "Running"
        /\ FinalCopy(p).status.observed = p.gen
        /\ FinalCopy(p).status.ready.reason = "AllComponentsReady"
    BY DEF FinalCopy
  <1>5. QED
    BY <1>1, <1>2, <1>3, <1>4

LEMMA PowersyncCopies ==
    ASSUME NEW p \in Project, NEW r
    PROVE  /\ Leads(CdcCopy(p, r), p) /\ CdcCopy(p, r).status.api = p.status.api
           /\ Leads(PowersyncCopy(p, r), p) /\ PowersyncCopy(p, r).status.api = p.status.api
  BY DEF CdcCopy, PowersyncCopy, Leads, Project, Status, Cond

LEMMA ServiceCopies ==
    ASSUME NEW p \in Project, NEW i \in Services, NEW r
    PROVE  /\ Leads(ServiceCopy(p, i, r), p)
           /\ ServiceCopy(p, i, r).status.api = p.status.api
           /\ ServiceCopy(p, i, r).status.services = [p.status.services EXCEPT ![i] = Cond(p, r)]
  BY DEF ServiceCopy, Leads, Project, Status, Cond

-----------------------------------------------------------------------------
(* Facts about the versions of the project.                                *)

LEMMA Appended ==
    ASSUME NEW w \in Seq(Project), NEW q \in Project
    PROVE  /\ Append(w, q) \in Seq(Project)
           /\ Len(Append(w, q)) = Len(w) + 1
           /\ Len(w) \in Nat
           /\ DOMAIN w = 1..Len(w)
           /\ DOMAIN Append(w, q) = 1..(Len(w) + 1)
           /\ \A j \in DOMAIN w : Append(w, q)[j] = w[j]
           /\ \A j \in DOMAIN Append(w, q) : j \in DOMAIN w \/ j = Len(w) + 1
           /\ Append(w, q)[Len(w) + 1] = q
           /\ Stored(Append(w, q)) = q
  BY DEF Stored

\* A copy keeps the head of the versions, written or not.
LEMMA HeadKept ==
    ASSUME NEW w \in Seq(Project), NEW p, NEW q, Leads(q, p), SameHead(w, p)
    PROVE  SameHead(w, q)
  BY DEF Leads, SameHead

LEMMA HeadAppended ==
    ASSUME NEW w \in Seq(Project), NEW p, NEW q \in Project, Leads(q, p), SameHead(w, p)
    PROVE  SameHead(Append(w, q), q)
  <1> DEFINE v == Append(w, q)
  <1>1. /\ \A j \in DOMAIN w : v[j] = w[j]
        /\ \A j \in DOMAIN v : j \in DOMAIN w \/ j = Len(w) + 1
        /\ v[Len(w) + 1] = q
        /\ Stored(v) = q
    BY Appended
  <1> HIDE DEF v
  <1>2. SUFFICES ASSUME NEW j \in DOMAIN v
                 PROVE  /\ v[j].status.observed = q.status.observed
                        /\ v[j].status.ready = q.status.ready
                        /\ v[j].status.phase = "Running" => q.status.phase = "Running"
    BY <1>1 DEF SameHead, v
  <1>3. CASE j \in DOMAIN w
    BY <1>1, <1>3 DEF Leads, SameHead
  <1>4. CASE j = Len(w) + 1
    BY <1>1, <1>4
  <1>5. QED
    BY <1>1, <1>3, <1>4

\* Until it ends, a fresh pass leaves no complete version behind that lost and
\* regained the API endpoint.
LEMMA PassNoTurn ==
    ASSUME NEW w, NEW p, NEW c \in PCs \ {"finish"}, FreshPass(w, p, c)
    PROVE  NoTurn(w)
  <1>1. CASE c \in Early
    BY <1>1 DEF FreshPass, SameBody, NoTurn
  <1>2. CASE c \in {"services", "coreFailed", "powersync"}
    BY <1>2 DEF FreshPass
  <1>3. QED
    BY <1>1, <1>2 DEF PCs, Early

LEMMA AppendTurn ==
    ASSUME NEW w \in Seq(Project), NEW q \in Project, NoTurn(w) \/ Finished(q)
    PROVE  Turn(Append(w, q))
  <1> DEFINE v == Append(w, q)
  <1>1. /\ \A j \in DOMAIN w : v[j] = w[j]
        /\ \A j \in DOMAIN v : j \in DOMAIN w \/ j = Len(w) + 1
        /\ v[Len(w) + 1] = q
        /\ Stored(v) = q
        /\ DOMAIN w = 1..Len(w) /\ DOMAIN v = 1..(Len(w) + 1) /\ Len(w) \in Nat
    BY Appended
  <1> HIDE DEF v
  <1>2. SUFFICES ASSUME NEW i \in DOMAIN v, NEW j \in DOMAIN v,
                        i < j, v[i].status.api = FALSE, v[j].status.api = TRUE, Finished(v[j]),
                        NoTurn(w)
                 PROVE  Finished(q)
    BY <1>1 DEF Turn, v
  <1>3. CASE j \in DOMAIN w
    <2>1. i \in DOMAIN w
      BY <1>1, <1>2, <1>3
    <2>2. QED
      BY <1>1, <1>2, <1>3, <2>1 DEF NoTurn
  <1>4. CASE j = Len(w) + 1
    BY <1>1, <1>2, <1>4
  <1>5. QED
    BY <1>1, <1>3, <1>4

LEMMA AppendNoTurn ==
    ASSUME NEW w \in Seq(Project), NEW q \in Project, NoTurn(w), q.status.api = FALSE
    PROVE  NoTurn(Append(w, q))
  <1> DEFINE v == Append(w, q)
  <1>1. /\ \A j \in DOMAIN w : v[j] = w[j]
        /\ v[Len(w) + 1] = q
        /\ DOMAIN w = 1..Len(w) /\ DOMAIN v = 1..(Len(w) + 1) /\ Len(w) \in Nat
    BY Appended
  <1> HIDE DEF v
  <1>2. SUFFICES ASSUME NEW i \in DOMAIN v, NEW j \in DOMAIN v,
                        i < j, v[i].status.api = FALSE, v[j].status.api = TRUE
                 PROVE  FALSE
    BY DEF NoTurn, v
  <1>3. j # Len(w) + 1
    BY <1>1, <1>2
  <1>4. i \in DOMAIN w /\ j \in DOMAIN w
    BY <1>1, <1>2, <1>3
  <1>5. QED
    BY <1>1, <1>2, <1>4 DEF NoTurn

-----------------------------------------------------------------------------
(* What a fresh pass makes of the versions, phase by phase.                *)

LEMMA PassProvisioned ==
    ASSUME NEW w \in Seq(Project), NEW p \in Project, FreshPass(w, p, "secrets")
    PROVE  FreshPass(w, Provisioned(p), "implementation")
  <1> DEFINE q == Provisioned(p)
  <1>1. Leads(q, p) /\ SameBody(q, p) /\ SameSecrets(q, p)
    BY SecretsCopies
  <1> HIDE DEF q
  <1>2. SameHead(w, q)
    BY <1>1, HeadKept DEF FreshPass
  <1>3. \A j \in DOMAIN w : SameBody(w[j], q)
    BY <1>1 DEF FreshPass, SameBody, Early
  <1>4. FreshPass(w, q, "implementation")
    BY <1>1, <1>2, <1>3 DEF FreshPass, SameSecrets, Late
  <1>5. QED
    BY <1>4 DEF q

LEMMA PassSecretsFailed ==
    ASSUME NEW w \in Seq(Project), NEW p \in Project, NEW q \in Project,
           FreshPass(w, p, "implementation"), Leads(q, p), SameBody(q, p)
    PROVE  /\ FreshPass(w, q, "secretsFailed")
           /\ FreshPass(Append(w, q), q, "secretsFailed")
  <1>1. SameHead(w, q) /\ SameHead(Append(w, q), q)
    BY HeadKept, HeadAppended DEF FreshPass
  <1>2. \A j \in DOMAIN w : SameBody(w[j], q)
    BY DEF FreshPass, SameBody, Early
  <1>3. \A j \in DOMAIN Append(w, q) : SameBody(Append(w, q)[j], q)
    BY <1>2, Appended DEF SameBody
  <1>4. QED
    BY <1>1, <1>2, <1>3 DEF FreshPass

\* The email hook Secret is reconciled: a version written for it either reports
\* the Secrets ready or differs from the cached one in the hook.
LEMMA PassHook ==
    ASSUME NEW w \in Seq(Project), NEW p \in Project, NEW q \in Project,
           FreshPass(w, p, "implementation"), Leads(q, p), SameBody(q, p),
           q.status.secrets.reason = "SecretsReady" \/ q.status.hook # p.status.hook
    PROVE  FreshPass(Append(w, q), q, "secretsDone")
  <1> DEFINE v == Append(w, q)
  <1>1. SameHead(v, q)
    BY HeadAppended DEF FreshPass
  <1>2. /\ \A j \in DOMAIN w : v[j] = w[j]
        /\ \A j \in DOMAIN v : j \in DOMAIN w \/ j = Len(w) + 1
        /\ v[Len(w) + 1] = q
        /\ Stored(v) = q
        /\ Len(v) = Len(w) + 1 /\ DOMAIN w = 1..Len(w)
    BY Appended
  <1>3. Len(w) = 1 /\ w[1].status.hook = p.status.hook
    BY DEF FreshPass
  <1> HIDE DEF v
  <1>4. \A j \in DOMAIN v : SameBody(v[j], q)
    BY <1>2 DEF FreshPass, SameBody, Early
  <1>5. \/ Stored(v).status.secrets.reason \in SecretsTrue
        \/ \A j \in DOMAIN v : j < Len(v) => v[j].status.hook # q.status.hook
    BY <1>2, <1>3 DEF SecretsTrue
  <1>6. FreshPass(v, q, "secretsDone")
    BY <1>1, <1>2, <1>4, <1>5 DEF FreshPass, Late
  <1>7. QED
    BY <1>6 DEF v

LEMMA PassHookKept ==
    ASSUME NEW w \in Seq(Project), NEW p \in Project, NEW q \in Project,
           FreshPass(w, p, "implementation"), Leads(q, p), SameBody(q, p)
    PROVE  FreshPass(w, q, "secretsDone")
  <1>1. SameHead(w, q)
    BY HeadKept DEF FreshPass
  <1>2. \A j \in DOMAIN w : SameBody(w[j], q)
    BY DEF FreshPass, SameBody, Early
  <1>3. Len(w) = 1
    BY DEF FreshPass
  <1>4. QED
    BY <1>1, <1>2, <1>3 DEF FreshPass, Late

\* SecretsReady is written, or the version in the API server has it.
LEMMA PassSecrets ==
    ASSUME NEW w \in Seq(Project), NEW p \in Project, NEW q \in Project, Len(w) > 0,
           FreshPass(w, p, "secretsDone"), Leads(q, p), SameBody(q, p),
           q.status.hook = p.status.hook, q.status.secrets.reason = "CredentialsValidated"
    PROVE  /\ FreshPass(Append(w, q), q, "recovery")
           /\ w[1].status = q.status => FreshPass(w, q, "recovery")
  <1>1. SameHead(w, q) /\ SameHead(Append(w, q), q)
    BY HeadKept, HeadAppended DEF FreshPass
  <1>2. \A j \in DOMAIN w : SameBody(w[j], q)
    BY DEF FreshPass, SameBody, Early
  <1>3. \A j \in DOMAIN Append(w, q) : SameBody(Append(w, q)[j], q)
    BY <1>2, Appended DEF SameBody
  <1>4. Stored(Append(w, q)).status.secrets.reason \in SecretsTrue
    BY Appended DEF SecretsTrue
  <1>5. FreshPass(Append(w, q), q, "recovery")
    BY <1>1, <1>3, <1>4 DEF FreshPass, Late
  <1>6. ASSUME w[1].status = q.status
        PROVE  Stored(w).status.secrets.reason \in SecretsTrue
    <2>1. CASE Len(w) = 1
      BY <1>6, <2>1 DEF Stored, SecretsTrue
    <2>2. CASE Len(w) # 1
      <3>1. 1 \in DOMAIN w /\ 1 < Len(w)
        <4>1. Len(w) \in Nat /\ DOMAIN w = 1..Len(w)
          BY Appended
        <4>2. QED
          BY <2>2, <4>1
      <3>2. w[1].status.hook = p.status.hook
        BY <1>6
      <3>3. QED
        BY <2>2, <3>1, <3>2 DEF FreshPass
    <2>3. QED
      BY <2>1, <2>2
  <1>7. ASSUME w[1].status = q.status
        PROVE  FreshPass(w, q, "recovery")
    BY <1>1, <1>2, <1>6, <1>7 DEF FreshPass, Late
  <1>8. QED
    BY <1>5, <1>7

LEMMA PassCluster ==
    ASSUME NEW w, NEW p
    PROVE  /\ FreshPass(w, p, "recovery") => FreshPass(w, p, "cluster")
           /\ FreshPass(w, p, "cluster") => FreshPass(w, p, "database")
  BY DEF FreshPass, Early, Late

\* The database is reported ready: written, or the version in the API server
\* has it as the cached one does.
LEMMA PassDatabase ==
    ASSUME NEW w \in Seq(Project), NEW p \in Project, Len(w) > 0,
           FreshPass(w, p, "database"), p.status.secrets.reason = "CredentialsValidated",
           DatabaseIsReady(p) \in Project
    PROVE  /\ FreshPass(Append(w, DatabaseIsReady(p)), DatabaseIsReady(p), "services")
           /\ w[1].status = DatabaseIsReady(p).status => FreshPass(w, DatabaseIsReady(p), "services")
  <1> DEFINE q == DatabaseIsReady(p)
             v == Append(w, q)
  <1>1. /\ Leads(q, p) /\ SameSecrets(q, p) /\ q.status.api = FALSE
        /\ q.status.database.reason = "Ready"
        /\ q.status.services = p.status.services
        /\ q.status.cdc = p.status.cdc
        /\ q.status.powersync = p.status.powersync
    BY LaterCopies
  <1>2. q \in Project
    OBVIOUS
  <1> HIDE DEF q
  <1>3. /\ \A j \in DOMAIN w : v[j] = w[j]
        /\ \A j \in DOMAIN v : j \in DOMAIN w \/ j = Len(w) + 1
        /\ v[Len(w) + 1] = q
        /\ Stored(v) = q
        /\ Len(v) = Len(w) + 1 /\ DOMAIN w = 1..Len(w) /\ Len(w) \in Nat
    BY <1>2, Appended
  <1>4. SameHead(w, q) /\ SameHead(v, q)
    BY <1>1, <1>2, HeadKept, HeadAppended DEF FreshPass
  <1>5. NoTurn(w)
    BY PassNoTurn DEF PCs
  <1>6. NoTurn(v)
    BY <1>1, <1>2, <1>5, AppendNoTurn
  <1> HIDE DEF v
  <1>7. \A j \in DOMAIN w : SameBody(w[j], p)
    BY DEF FreshPass, Early
  <1>8. SameComponents(v)
    BY <1>1, <1>3, <1>7 DEF SameBody, SameComponents
  <1>9. /\ Stored(v).status.secrets.reason \in SecretsTrue
        /\ Stored(v).status.database.reason = "Ready"
    BY <1>1, <1>3 DEF SameSecrets, SecretsTrue
  <1>10. FreshPass(v, q, "services")
    BY <1>4, <1>6, <1>8, <1>9 DEF FreshPass, Early
  <1>11. ASSUME w[1].status = q.status
         PROVE  FreshPass(w, q, "services")
    <2>1. 1 \in DOMAIN w /\ Len(w) \in DOMAIN w
      BY <1>3
    <2>2. SameComponents(w)
      BY <1>7, <2>1 DEF SameBody, SameComponents, Stored
    <2>3. Stored(w).status.database = w[1].status.database
      BY <1>7, <2>1 DEF SameBody, Stored
    <2>4. Stored(w).status.secrets.reason \in SecretsTrue
      BY DEF FreshPass
    <2>5. QED
      BY <1>1, <1>4, <1>5, <1>11, <2>2, <2>3, <2>4 DEF FreshPass, Early
  <1>12. QED
    BY <1>10, <1>11 DEF q, v

LEMMA PassServices ==
    ASSUME NEW w \in Seq(Project), NEW p, NEW q, Leads(q, p), FreshPass(w, p, "services")
    PROVE  FreshPass(w, q, "services") /\ FreshPass(w, q, "coreFailed") /\ FreshPass(w, q, "powersync")
  <1>1. SameHead(w, q)
    BY HeadKept DEF FreshPass
  <1>2. QED
    BY <1>1 DEF FreshPass, Early

LEMMA PassServiceFailed ==
    ASSUME NEW w \in Seq(Project), NEW p, NEW q \in Project, Leads(q, p), q.status.api = FALSE,
           FreshPass(w, p, "services")
    PROVE  FreshPass(Append(w, q), q, "coreFailed")
  <1>1. SameHead(Append(w, q), q)
    BY HeadAppended DEF FreshPass
  <1>2. NoTurn(Append(w, q))
    BY AppendNoTurn DEF FreshPass
  <1>3. QED
    BY <1>1, <1>2 DEF FreshPass, Early

LEMMA PassPowersync ==
    ASSUME NEW w \in Seq(Project), NEW p, NEW q, Leads(q, p), FreshPass(w, p, "powersync")
    PROVE  FreshPass(w, q, "finish")
  <1>1. SameHead(w, q)
    BY HeadKept DEF FreshPass
  <1>2. QED
    BY <1>1 DEF FreshPass, Early

LEMMA PassCleanup ==
    ASSUME NEW w \in Seq(Project), NEW p \in Project, NEW q \in Project, Leads(q, p),
           FreshPass(w, p, "powersync"), Stage(q, "finish"), ~q.spec.powersync
    PROVE  FreshPass(Append(w, q), q, "finish")
  <1>1. SameHead(Append(w, q), q)
    BY HeadAppended DEF FreshPass
  <1>2. Stored(Append(w, q)) = q
    BY Appended
  <1>3. QED
    BY <1>1, <1>2 DEF FreshPass, Stage, Early, SecretsTrue

\* The cached version is delivered.
LEMMA PassDelivered ==
    ASSUME NEW w \in Seq(Project), NEW p, NEW c \in PCs, Len(w) > 1, FreshPass(w, p, c)
    PROVE  FreshPass(Tail(w), p, c)
  <1> DEFINE v == Tail(w)
  <1>1. /\ Len(w) \in Nat /\ DOMAIN w = 1..Len(w)
        /\ Len(v) = Len(w) - 1 /\ DOMAIN v = 1..(Len(w) - 1)
        /\ \A j \in 1..(Len(w) - 1) : v[j] = w[j + 1]
    OBVIOUS
  <1> HIDE DEF v
  <1>2. Stored(v) = Stored(w)
    BY <1>1 DEF Stored
  <1>3. \A j \in DOMAIN v : j + 1 \in DOMAIN w /\ v[j] = w[j + 1]
    BY <1>1
  <1>4. SameHead(v, p)
    BY <1>2, <1>3 DEF FreshPass, SameHead
  <1>5. c \notin {"secrets", "implementation"} /\ (c = "secretsDone" => Len(w) # 1)
    <2>1. Len(w) # 1
      BY <1>1
    <2>2. QED
      BY <2>1 DEF FreshPass
  <1>6. c = "secretsDone" =>
          \/ Len(v) = 1
          \/ /\ Stored(v).status = p.status
             /\ \/ Stored(v).status.secrets.reason \in SecretsTrue
                \/ \A j \in DOMAIN v : j < Len(v) => v[j].status.hook # p.status.hook
    <2>1. SUFFICES ASSUME c = "secretsDone",
                          \A j \in DOMAIN w : j < Len(w) => w[j].status.hook # p.status.hook
                   PROVE  \A j \in DOMAIN v : j < Len(v) => v[j].status.hook # p.status.hook
      BY <1>2, <1>5 DEF FreshPass
    <2>2. \A j \in DOMAIN v : j < Len(v) => j + 1 < Len(w)
      BY <1>1
    <2>3. QED
      BY <1>3, <2>1, <2>2
  <1>7. c \in Early => \A j \in DOMAIN v : SameBody(v[j], p)
    BY <1>3 DEF FreshPass
  <1>8. SameComponents(w) => SameComponents(v)
    BY <1>2, <1>3 DEF SameComponents
  <1>9. NoTurn(w) => NoTurn(v)
    <2>1. SUFFICES ASSUME NoTurn(w), NEW i \in DOMAIN v, NEW j \in DOMAIN v, i < j,
                          v[i].status.api = FALSE, v[j].status.api = TRUE
                   PROVE  FALSE
      BY DEF NoTurn
    <2>2. i + 1 < j + 1
      BY <1>1, <2>1
    <2>3. QED
      BY <1>3, <2>1, <2>2 DEF NoTurn
  <1>10. FreshPass(v, p, c)
    BY <1>2, <1>4, <1>5, <1>6, <1>7, <1>8, <1>9 DEF FreshPass
  <1>11. QED
    BY <1>10 DEF v

-----------------------------------------------------------------------------
(* Kinds of step.                                                          *)

\* What persisting the copy p does: nothing, because the write is refused or
\* the cached version says the same, or it adds a version.
LEMMA PersistCases ==
    ASSUME NEW p, UpdateProjectStatus(p), fresh \in BOOLEAN
    PROVE  \/ watch' = watch /\ (Conflict(p) \/ p.status = cached.status)
           \/ fresh = TRUE /\ ~Conflict(p) /\ watch' = Append(watch, p)
  BY DEF UpdateProjectStatus, Conflict

\* Reconcile returns and comes back: nothing is promised but that what has
\* been written keeps its order.
LEMMA RequeueRest ==
    ASSUME IInv, RInv, queued' = TRUE, fresh' = FALSE, pc' = "idle", svc' = 1,
           \/ watch' = watch
           \/ watch' = <<api>>
           \/ /\ fresh = TRUE /\ pc \in PCs \ {"finish"}
              /\ \E p \in Project : watch' = Append(watch, p)
    PROVE  RInv'
  <1>1. TurnInv'
    <2>1. CASE watch' = watch
      BY <2>1 DEF RInv, TurnInv, Turn, Finished, Stored, ReadyTrue, ComponentsReady, CoreServicesReady
    <2>2. CASE watch' = <<api>>
      <3>1. DOMAIN watch' = {1}
        BY <2>2
      <3>2. QED
        BY <3>1 DEF TurnInv, Turn
    <2>3. CASE /\ fresh = TRUE /\ pc \in PCs \ {"finish"}
               /\ \E p \in Project : watch' = Append(watch, p)
      <3>1. PICK p \in Project : watch' = Append(watch, p)
        BY <2>3
      <3>2. NoTurn(watch)
        BY <2>3, PassNoTurn DEF RInv, PassInv
      <3>3. watch \in Seq(Project)
        BY DEF IInv, TypeOK
      <3>4. Turn(watch')
        BY <3>1, <3>2, <3>3, AppendTurn
      <3>5. QED
        BY <3>4 DEF TurnInv, Turn, Finished, Stored, ReadyTrue, ComponentsReady, CoreServicesReady
    <2>4. QED
      BY <2>1, <2>2, <2>3
  <1>2. GenInv' /\ SeenInv' /\ CursorInv' /\ EndpointInv'
    BY DEF GenInv, SeenInv, CursorInv, EndpointInv, Endpoint, Late
  <1>3. PassInv' /\ LateInv' /\ RestInv'
    BY DEF PassInv, LateInv, RestInv, Calm
  <1>4. QED
    BY <1>1, <1>2, <1>3 DEF RInv

\* A phase fails: whatever comes of the write, Reconcile runs again.
LEMMA FailRest ==
    ASSUME IInv, RInv, pc \in PCs \ {"finish"}, NEW p, CopyOf(p, proj), PersistAndReturn(p, TRUE)
    PROVE  RInv'
  <1>1. queued' = TRUE /\ fresh' = FALSE /\ pc' = "idle" /\ svc' = 1
    BY Zenon DEF PersistAndReturn, Return
  <1>2. fresh \in BOOLEAN /\ p \in Project
    BY DEF IInv, TypeOK, CopyOf
  <1>3. UpdateProjectStatus(p)
    BY DEF PersistAndReturn
  <1>4. watch' = watch \/ (fresh = TRUE /\ watch' = Append(watch, p))
    BY <1>2, <1>3, PersistCases
  <1>5. QED
    BY <1>1, <1>2, <1>4, RequeueRest

\* The pass goes on to step c with the copy p.
LEMMA StepRest ==
    ASSUME IInv, RInv, pc \in PCs, NEW p, NEW c \in PCs,
           p \in Project, p.gen = proj.gen,
           pc' = c, proj' = p, UNCHANGED <<fresh, queued, credentials, dbUp, up>>,
           \/ watch' = watch
           \/ fresh = TRUE /\ pc # "finish" /\ watch' = Append(watch, p),
           fresh = TRUE => FreshPass(watch', p, c),
           queued = FALSE => Seen(p, c, svc'),
           c \notin Late => svc' = 1,
           Endpoint(p, c),
           fresh = FALSE /\ queued = FALSE /\ c \in Late =>
              pc \in Late \/ cached.status.api = FALSE
    PROVE  RInv'
  <1> USE DEF Finished, Stored, ReadyTrue, ComponentsReady, CoreServicesReady
  <1>1. watch \in Seq(Project) /\ Len(watch) > 0 /\ 1 \in DOMAIN watch /\ fresh \in BOOLEAN
    BY ConstantsAssumption DEF IInv, TypeOK
  <1>2. cached' = cached
    BY <1>1 DEF cached
  <1>3. GenInv'
    BY <1>2 DEF GenInv, RInv, PCs
  <1>4. SeenInv'
    BY DEF SeenInv, Seen
  <1>5. CursorInv' /\ EndpointInv' /\ RestInv'
    BY DEF CursorInv, EndpointInv, Endpoint, RestInv, PCs
  <1>6. TurnInv'
    <2>1. CASE watch' = watch
      BY <2>1 DEF RInv, TurnInv, Turn
    <2>2. CASE fresh = TRUE /\ pc # "finish" /\ watch' = Append(watch, p)
      <3>1. NoTurn(watch)
        BY <2>2, PassNoTurn DEF RInv, PassInv
      <3>2. Turn(watch')
        BY <1>1, <2>2, <3>1, AppendTurn
      <3>3. QED
        BY <3>2 DEF TurnInv, Turn
    <2>3. QED
      BY <2>1, <2>2
  <1>7. PassInv'
    BY DEF PassInv, FreshPass, SameHead, SameBody, SameComponents, NoTurn
  <1>8. LateInv'
    <2>1. SUFFICES ASSUME Calm', fresh = FALSE, c \in Late, NEW j \in DOMAIN watch',
                          watch'[j].status.api = TRUE, Finished(watch'[j])
                   PROVE  Finished(api')
      BY DEF LateInv
    <2>2. watch' = watch /\ api' = api /\ Calm
      BY <1>2, <2>1 DEF api, Calm
    <2>3. CASE pc \in Late
      BY <2>1, <2>2, <2>3 DEF RInv, LateInv
    <2>4. CASE cached.status.api = FALSE
      <3>1. j # 1 /\ j \in DOMAIN watch
        BY <2>1, <2>2, <2>4 DEF cached
      <3>2. 1 < j
        BY <1>1, <3>1
      <3>3. watch[1].gen = Stored(watch).gen
        BY <2>2 DEF Calm, cached, api
      <3>4. QED
        BY <1>1, <2>1, <2>2, <2>4, <3>1, <3>2, <3>3 DEF RInv, TurnInv, Turn, cached, api
    <2>5. QED
      BY <2>1, <2>2, <2>3, <2>4 DEF Calm
  <1>9. QED
    BY <1>3, <1>4, <1>5, <1>6, <1>7, <1>8 DEF RInv

LEMMA ContinueRest ==
    ASSUME IInv, RInv, pc \in PCs, NEW p, NEW c \in PCs, CopyOf(p, proj),
           Continue(p, c), UNCHANGED <<credentials, dbUp, up>>,
           \/ watch' = watch
           \/ fresh = TRUE /\ pc # "finish" /\ watch' = Append(watch, p),
           fresh = TRUE => FreshPass(watch', p, c),
           queued = FALSE => Seen(p, c, svc),
           pc \notin Late \/ c \in Late,
           Endpoint(p, c),
           fresh = FALSE /\ queued = FALSE /\ c \in Late =>
              pc \in Late \/ cached.status.api = FALSE
    PROVE  RInv'
  <1>1. pc' = c /\ proj' = p /\ svc' = svc /\ UNCHANGED <<fresh, queued, credentials, dbUp, up>>
    BY DEF Continue
  <1>2. c \notin Late => svc' = 1
    BY <1>1 DEF RInv, CursorInv
  <1>3. p \in Project /\ p.gen = proj.gen
    BY DEF CopyOf
  <1>4. QED
    BY <1>1, <1>2, <1>3, StepRest

-----------------------------------------------------------------------------
(* The phases of Reconcile.                                                *)

LEMMA StartRest ==
    ASSUME IInv, RInv, StartReconcile
    PROVE  RInv'
  <1> USE DEF Finished, Stored, ReadyTrue, ComponentsReady, CoreServicesReady
  <1>1. /\ watch \in Seq(Project) /\ Len(watch) \in Nat /\ 1 \in DOMAIN watch /\ cached \in Project
        /\ DOMAIN watch = 1..Len(watch)
    BY Ends DEF IInv, TypeOK
  <1>2. /\ pc = "idle" /\ pc' = "secrets" /\ queued' = FALSE
        /\ UNCHANGED <<watch, svc, credentials, dbUp, up>>
        /\ fresh' = (Len(watch) = 1)
    BY DEF StartReconcile, env
  <1>3. cached' = cached
    BY <1>2 DEF cached
  <1>4. Leads(proj', cached) /\ SameBody(proj', cached) /\ proj'.status.hook = cached.status.hook
    BY <1>1 DEF StartReconcile, Leads, SameBody, Project, Status
  <1>5. GenInv' /\ SeenInv' /\ CursorInv' /\ EndpointInv' /\ LateInv' /\ RestInv'
    BY <1>2, <1>3, <1>4
    DEF GenInv, SeenInv, Seen, CursorInv, EndpointInv, Endpoint, LateInv, RestInv, Leads, RInv, Late
  <1>6. TurnInv'
    BY <1>2 DEF RInv, TurnInv, Turn
  <1>7. ASSUME Len(watch) = 1
        PROVE  FreshPass(watch, proj', "secrets")
    <2>1. DOMAIN watch = {1} /\ watch[1] = cached /\ Stored(watch) = cached
      BY <1>1, <1>7 DEF cached
    <2>2. SameHead(watch, proj')
      BY <1>4, <2>1 DEF SameHead, Leads
    <2>3. \A j \in DOMAIN watch : SameBody(watch[j], proj')
      BY <1>4, <2>1 DEF SameBody
    <2>4. QED
      BY <1>4, <1>7, <2>1, <2>2, <2>3 DEF FreshPass
  <1>8. PassInv'
    BY <1>2, <1>7 DEF PassInv, FreshPass, SameHead, SameBody, SameComponents, NoTurn
  <1>9. QED
    BY <1>5, <1>6, <1>8 DEF RInv

LEMMA QuietRest ==
    ASSUME UNCHANGED env
    PROVE  UNCHANGED <<credentials, cluster, dbUp, up, psState>>
  BY DEF env

LEMMA SecretsRest ==
    ASSUME IInv, RInv, ReconcileSecrets \/ FailReadCredentials
    PROVE  RInv'
  <1> DEFINE p == Provisioned(proj)
             q == FailReconcileSecrets(p, "InvalidProjectCredentials")
  <1>1. pc = "secrets" /\ proj \in Project /\ watch \in Seq(Project)
    BY DEF IInv, TypeOK, ReconcileSecrets, FailReadCredentials
  <1>2. CopyOf(p, proj)
    BY <1>1, Copies DEF Benign
  <1>3. CopyOf(q, proj)
    <2>1. p \in Project
      BY <1>2 DEF CopyOf
    <2> HIDE DEF p
    <2>2. CopyOf(q, p)
      BY <2>1, Copies DEF Benign
    <2>3. QED
      BY <1>2, <2>2 DEF CopyOf
  <1>4. UNCHANGED <<credentials, dbUp, up>>
    BY QuietRest DEF ReconcileSecrets, FailReadCredentials
  <1>5. ASSUME credentials, Continue(p, "implementation"), UNCHANGED watch
        PROVE  RInv'
    <2>1. fresh = TRUE => FreshPass(watch', p, "implementation")
      BY <1>1, <1>5, PassProvisioned DEF RInv, PassInv
    <2>2. credentials = TRUE
      BY <1>5 DEF IInv, TypeOK
    <2> HIDE DEF p
    <2>3. Seen(p, "implementation", svc) /\ Endpoint(p, "implementation")
      BY <2>2 DEF Seen, Endpoint
    <2>4. QED
      BY <1>1, <1>2, <1>4, <1>5, <2>1, <2>3, ContinueRest DEF PCs, Late
  <1>6. ASSUME PersistAndReturn(q, TRUE)
        PROVE  RInv'
    <2> HIDE DEF q
    <2>1. QED
      BY <1>1, <1>3, <1>6, FailRest DEF PCs
  <1>7. QED
    BY <1>5, <1>6 DEF ReconcileSecrets, FailReadCredentials

LEMMA ImplementationRest ==
    ASSUME IInv, RInv, ReconcileImplementationSecrets
    PROVE  RInv'
  <1> DEFINE p == HookCopy(proj)
  <1>1. pc = "implementation" /\ proj \in Project /\ watch \in Seq(Project) /\ fresh \in BOOLEAN
    BY DEF IInv, TypeOK, ReconcileImplementationSecrets
  <1>2. CopyOf(p, proj) /\ CopyOf(proj, proj)
    BY <1>1, Copies DEF Benign, HookCopy
  <1>3. UNCHANGED <<credentials, dbUp, up>>
    BY QuietRest DEF ReconcileImplementationSecrets
  <1>4. /\ Leads(p, proj) /\ SameBody(p, proj) /\ Leads(proj, proj) /\ SameBody(proj, proj)
        /\ p.status.hook = proj.spec.hook
        /\ proj.spec.hook => p.status.secrets.reason = "SecretsReady"
    BY <1>1, SecretsCopies
  <1>5. p \in Project
    BY <1>2 DEF CopyOf
  <1>6. fresh = TRUE => FreshPass(watch, proj, "implementation")
    BY <1>1 DEF RInv, PassInv
  <1>7. queued = FALSE => credentials = TRUE
    BY <1>1 DEF RInv, SeenInv, Seen
  <1> HIDE DEF p
  <1>8. ASSUME NEW r, NEW c \in {"secretsDone", "secretsFailed"}
        PROVE  Endpoint(r, c) /\ (queued = FALSE => Seen(r, c, svc))
    BY <1>7 DEF Endpoint, Seen
  <1>9. ASSUME Continue(proj, "secretsDone"), UNCHANGED watch
        PROVE  RInv'
    <2>1. fresh = TRUE => FreshPass(watch', proj, "secretsDone")
      BY <1>1, <1>4, <1>6, <1>9, PassHookKept
    <2>2. QED
      BY <1>1, <1>2, <1>3, <1>8, <1>9, <2>1, ContinueRest DEF PCs, Late
  <1>10. ASSUME UpdateProjectStatus(p), Conflict(p), Continue(p, "secretsFailed")
         PROVE  RInv'
    <2>1. watch' = watch /\ fresh # TRUE
      BY <1>10 DEF UpdateProjectStatus, Conflict
    <2>2. QED
      BY <1>1, <1>2, <1>3, <1>8, <1>10, <2>1, ContinueRest DEF PCs, Late
  <1>11. ASSUME UpdateProjectStatus(p), Continue(p, "secretsDone"),
                proj.spec.hook \/ proj.status.hook
         PROVE  RInv'
    <2>1. \/ watch' = watch
          \/ fresh = TRUE /\ watch' = Append(watch, p)
      BY <1>1, <1>11, PersistCases
    <2>2. CASE watch' = watch
      <3>1. fresh = TRUE => FreshPass(watch', p, "secretsDone")
        BY <1>1, <1>4, <1>5, <1>6, <2>2, PassHookKept
      <3>2. QED
        BY <1>1, <1>2, <1>3, <1>8, <1>11, <2>2, <3>1, ContinueRest DEF PCs, Late
    <2>3. CASE fresh = TRUE /\ watch' = Append(watch, p)
      <3>1. p.status.secrets.reason = "SecretsReady" \/ p.status.hook # proj.status.hook
        <4>1. CASE proj.spec.hook
          BY <1>4, <4>1
        <4>2. CASE ~proj.spec.hook
          BY <1>4, <1>11, <4>2
        <4>3. QED
          BY <4>1, <4>2
      <3>2. FreshPass(watch', p, "secretsDone")
        BY <1>1, <1>4, <1>5, <1>6, <2>3, <3>1, PassHook
      <3>3. QED
        BY <1>1, <1>2, <1>3, <1>8, <1>11, <2>3, <3>2, ContinueRest DEF PCs, Late
    <2>4. QED
      BY <2>1, <2>2, <2>3
  <1>12. QED
    <2>1. CASE ~proj.spec.hook /\ ~proj.status.hook
      BY <1>9, <2>1 DEF ReconcileImplementationSecrets
    <2>2. CASE ~(~proj.spec.hook /\ ~proj.status.hook)
      <3>1. UpdateProjectStatus(p) /\ Continue(p, IF Conflict(p) THEN "secretsFailed" ELSE "secretsDone")
        BY <2>2 DEF ReconcileImplementationSecrets, p, HookCopy
      <3>2. QED
        BY <1>10, <1>11, <2>2, <3>1
    <2>3. QED
      BY <2>1, <2>2

LEMMA ImplementationFailureRest ==
    ASSUME IInv, RInv, FailImplementationSecrets
    PROVE  RInv'
  <1> DEFINE p == SecretsCopy(proj, "ImplementationSecretFailed")
  <1>1. pc = "implementation" /\ proj \in Project /\ watch \in Seq(Project) /\ fresh \in BOOLEAN
    BY DEF IInv, TypeOK, FailImplementationSecrets
  <1>2. CopyOf(p, proj)
    BY <1>1, Copies DEF Benign, SecretsCopy
  <1>3. UNCHANGED <<credentials, dbUp, up>>
    BY QuietRest DEF FailImplementationSecrets
  <1>4. Leads(p, proj) /\ SameBody(p, proj)
    BY <1>1, SecretsCopies
  <1>5. UNCHANGED watch \/ UpdateProjectStatus(p)
    BY DEF FailImplementationSecrets, SecretsCopy
  <1>6. Continue(p, "secretsFailed")
    BY DEF FailImplementationSecrets, SecretsCopy
  <1> HIDE DEF p
  <1>7. fresh = TRUE => FreshPass(watch, p, "secretsFailed") /\ FreshPass(Append(watch, p), p, "secretsFailed")
    BY <1>1, <1>2, <1>4, PassSecretsFailed DEF RInv, PassInv, CopyOf
  <1>8. watch' = watch \/ (fresh = TRUE /\ watch' = Append(watch, p))
    BY <1>1, <1>5, PersistCases
  <1>9. Endpoint(p, "secretsFailed") /\ (queued = FALSE => Seen(p, "secretsFailed", svc))
    BY <1>1 DEF Endpoint, Seen, RInv, SeenInv
  <1>10. QED
    BY <1>1, <1>2, <1>3, <1>6, <1>7, <1>8, <1>9, ContinueRest DEF PCs, Late

LEMMA SecretsFailureRest ==
    ASSUME IInv, RInv, ReportSecretsFailure
    PROVE  RInv'
  <1> DEFINE p == FailReconcileSecrets(proj, "ImplementationSecretFailed")
  <1>1. pc = "secretsFailed" /\ proj \in Project
    BY DEF IInv, TypeOK, ReportSecretsFailure
  <1>2. CopyOf(p, proj)
    BY <1>1, Copies DEF Benign
  <1>3. PersistAndReturn(p, TRUE)
    BY DEF ReportSecretsFailure
  <1> HIDE DEF p
  <1>4. QED
    BY <1>1, <1>2, <1>3, FailRest DEF PCs

\* A refused write ends the pass.
LEMMA ConflictRest ==
    ASSUME IInv, RInv, NEW p, NEW c, PersistThen(p, c), Conflict(p)
    PROVE  RInv'
  <1>1. watch' = watch /\ Return(TRUE)
    BY DEF PersistThen, UpdateProjectStatus
  <1>2. queued' = TRUE /\ fresh' = FALSE /\ pc' = "idle" /\ svc' = 1
    BY <1>1, Zenon DEF Return
  <1>3. QED
    BY <1>1, <1>2, RequeueRest

LEMMA ReportSecretsRest ==
    ASSUME IInv, RInv, ReportSecretsReady
    PROVE  RInv'
  <1> DEFINE p == SecretsCopy(proj, "CredentialsValidated")
  <1>1. pc = "secretsDone" /\ proj \in Project /\ watch \in Seq(Project) /\ fresh \in BOOLEAN /\ Len(watch) > 0
    BY ConstantsAssumption DEF IInv, TypeOK, ReportSecretsReady
  <1>2. CopyOf(p, proj)
    <2>1. "CredentialsValidated" \in SecretsTrue \cup {"ImplementationSecretFailed", "JWKSConfigMapFailed"}
      BY DEF SecretsTrue
    <2>2. QED
      BY <1>1, <2>1, Copies DEF Benign, SecretsCopy
  <1>3. UNCHANGED <<credentials, dbUp, up>>
    BY QuietRest DEF ReportSecretsReady
  <1>4. /\ Leads(p, proj) /\ SameBody(p, proj) /\ p.status.hook = proj.status.hook
        /\ p.status.secrets.reason = "CredentialsValidated"
    BY <1>1, SecretsCopies
  <1>5. PersistThen(p, "recovery")
    BY DEF ReportSecretsReady, SecretsCopy
  <1> HIDE DEF p
  <1>6. fresh = TRUE => /\ FreshPass(Append(watch, p), p, "recovery")
                        /\ watch[1].status = p.status => FreshPass(watch, p, "recovery")
    BY <1>1, <1>2, <1>4, PassSecrets DEF RInv, PassInv, CopyOf
  <1>7. Endpoint(p, "recovery") /\ (queued = FALSE => Seen(p, "recovery", svc))
    BY <1>1 DEF Endpoint, Seen, RInv, SeenInv
  <1>8. CASE Conflict(p)
    BY <1>5, <1>8, ConflictRest
  <1>9. CASE ~Conflict(p)
    <2>1. UpdateProjectStatus(p) /\ Continue(p, "recovery")
      BY <1>5, <1>9 DEF PersistThen
    <2>2. \/ watch' = watch /\ p.status = cached.status
          \/ fresh = TRUE /\ watch' = Append(watch, p)
      BY <1>1, <1>9, <2>1, PersistCases
    <2>3. fresh = TRUE => FreshPass(watch', p, "recovery")
      BY <1>6, <2>2 DEF cached
    <2>4. QED
      BY <1>1, <1>2, <1>3, <1>7, <2>1, <2>2, <2>3, ContinueRest DEF PCs, Late
  <1>10. QED
    BY <1>8, <1>9

\* A failure recorded in DatabaseReady.
LEMMA DatabaseFailureRest ==
    ASSUME IInv, RInv, pc \in PCs \ {"finish"}, NEW r \in DatabaseReasons, FailDatabase(r)
    PROVE  RInv'
  <1> DEFINE p == [proj EXCEPT !.status.database = Cond(proj, r)]
  <1>1. CopyOf(p, proj)
    BY Copies DEF IInv, TypeOK, Benign
  <1>2. PersistAndReturn(p, TRUE)
    BY DEF FailDatabase
  <1> HIDE DEF p
  <1>3. QED
    BY <1>1, <1>2, FailRest

LEMMA JWKSFailureRest ==
    ASSUME IInv, RInv, FailJWKSConfigMap
    PROVE  RInv'
  <1> DEFINE p == [proj EXCEPT !.status.secrets = Cond(proj, "JWKSConfigMapFailed")]
  <1>1. pc \in PCs \ {"finish"} /\ proj \in Project
    BY DEF FailJWKSConfigMap, PCs, IInv, TypeOK
  <1>2. CopyOf(p, proj)
    BY <1>1, Copies DEF Benign
  <1>3. PersistAndReturn(p, TRUE)
    BY DEF FailJWKSConfigMap
  <1> HIDE DEF p
  <1>4. QED
    BY <1>1, <1>2, <1>3, FailRest

\* The pass goes on with the copy it has.
LEMMA PassOnRest ==
    ASSUME IInv, RInv, NEW c \in {"cluster", "database"},
           pc = "recovery" => c = "cluster", pc = "cluster" => c = "database",
           pc \in {"recovery", "cluster"},
           Continue(proj, c), UNCHANGED watch, UNCHANGED <<credentials, dbUp, up>>
    PROVE  RInv'
  <1>1. CopyOf(proj, proj)
    BY DEF CopyOf, IInv, TypeOK
  <1>2. fresh = TRUE => FreshPass(watch', proj, c)
    BY PassCluster DEF RInv, PassInv
  <1>3. Endpoint(proj, c) /\ (queued = FALSE => Seen(proj, c, svc))
    BY DEF Endpoint, Seen, RInv, SeenInv
  <1>4. QED
    BY <1>1, <1>2, <1>3, ContinueRest DEF PCs, Late

LEMMA RecoveryRest ==
    ASSUME IInv, RInv, ValidateRecoveryBootstrapIntent
    PROVE  RInv'
  <1>1. pc = "recovery" /\ UNCHANGED <<credentials, dbUp, up>>
    BY QuietRest DEF ValidateRecoveryBootstrapIntent
  <1>2. CASE FailDatabase("BootstrapImmutable")
    BY <1>1, <1>2, DatabaseFailureRest DEF PCs, DatabaseReasons
  <1>3. CASE Continue(proj, "cluster") /\ UNCHANGED watch
    BY <1>1, <1>3, PassOnRest
  <1>4. QED
    BY <1>2, <1>3 DEF ValidateRecoveryBootstrapIntent

\* Reconcile returns an error or asks to be run again, and writes nothing.
LEMMA ReturnRest ==
    ASSUME IInv, RInv, Return(TRUE), watch' = watch \/ watch' = <<api>>
    PROVE  RInv'
  <1>1. queued' = TRUE /\ fresh' = FALSE /\ pc' = "idle" /\ svc' = 1
    BY Zenon DEF Return
  <1>2. QED
    BY <1>1, RequeueRest

LEMMA ClusterRest ==
    ASSUME IInv, RInv, ReconcileCNPGCluster \/ FailCreateCluster
    PROVE  RInv'
  <1>1. pc = "cluster" /\ UNCHANGED <<credentials, dbUp, up>>
    BY QuietRest DEF ReconcileCNPGCluster, FailCreateCluster
  <1>2. CASE CreateCluster
    <2>1. FailDatabase("Creating")
      BY <1>2 DEF CreateCluster, FailDatabase
    <2>2. QED
      BY <1>1, <2>1, DatabaseFailureRest DEF PCs, DatabaseReasons
  <1>3. CASE FailCreateCluster
    <2>1. FailDatabase("CreateFailed")
      BY <1>3 DEF FailCreateCluster
    <2>2. QED
      BY <1>1, <2>1, DatabaseFailureRest DEF PCs, DatabaseReasons
  <1>4. CASE RejectClusterChange
    <2>1. FailDatabase("BootstrapImmutable") \/ FailDatabase("StorageShrink")
      BY <1>4 DEF RejectClusterChange
    <2>2. QED
      BY <1>1, <2>1, DatabaseFailureRest DEF PCs, DatabaseReasons
  <1>5. CASE UpdateCluster
    BY <1>5, ReturnRest DEF UpdateCluster
  <1>6. CASE KeepCluster
    BY <1>1, <1>6, PassOnRest DEF KeepCluster
  <1>7. QED
    BY <1>2, <1>3, <1>4, <1>5, <1>6 DEF ReconcileCNPGCluster

LEMMA DatabaseRest ==
    ASSUME IInv, RInv, WaitForDatabase
    PROVE  RInv'
  <1> DEFINE p == DatabaseIsReady(proj)
  <1>1. pc = "database" /\ proj \in Project /\ watch \in Seq(Project) /\ fresh \in BOOLEAN /\ Len(watch) > 0
    BY ConstantsAssumption DEF IInv, TypeOK, WaitForDatabase
  <1>2. CopyOf(p, proj)
    BY <1>1, Copies DEF Benign
  <1>3. UNCHANGED <<credentials, dbUp, up>>
    BY QuietRest DEF WaitForDatabase
  <1>4. CASE FailDatabase("WaitingForInstances")
    BY <1>1, <1>4, DatabaseFailureRest DEF PCs, DatabaseReasons
  <1>5. ASSUME dbUp, PersistThen(p, "services")
        PROVE  RInv'
    <2>1. p.status.api = FALSE
      BY <1>1, LaterCopies
    <2>2. proj.status.secrets.reason = "CredentialsValidated"
      BY <1>1 DEF IInv, StageInv, Stage
    <2>3. fresh = TRUE => /\ FreshPass(Append(watch, p), p, "services")
                          /\ watch[1].status = p.status => FreshPass(watch, p, "services")
      <3>1. p \in Project
        BY <1>2 DEF CopyOf
      <3>2. fresh = TRUE => FreshPass(watch, proj, "database")
        BY <1>1 DEF RInv, PassInv
      <3>3. QED
        BY <1>1, <2>2, <3>1, <3>2, PassDatabase
    <2> HIDE DEF p
    <2>4. svc = 1 /\ dbUp = TRUE
      BY <1>1, <1>5 DEF RInv, CursorInv, IInv, TypeOK, Late
    <2>5. Endpoint(p, "services")
      BY <2>1 DEF Endpoint
    <2>6. queued = FALSE => Seen(p, "services", svc)
      <3>1. \A i \in Services : ~(i < svc)
        BY <2>4, ConstantsAssumption DEF Services
      <3>2. queued = FALSE => credentials = TRUE
        BY <1>1 DEF RInv, SeenInv, Seen
      <3>3. QED
        BY <2>4, <3>1, <3>2 DEF Seen
    <2>7. CASE Conflict(p)
      BY <1>5, <2>7, ConflictRest
    <2>8. CASE ~Conflict(p)
      <3>1. UpdateProjectStatus(p) /\ Continue(p, "services")
        BY <1>5, <2>8 DEF PersistThen
      <3>2. \/ watch' = watch /\ p.status = cached.status
            \/ fresh = TRUE /\ watch' = Append(watch, p)
        BY <1>1, <2>8, <3>1, PersistCases
      <3>3. fresh = TRUE => FreshPass(watch', p, "services")
        BY <2>3, <3>2 DEF cached
      <3>4. fresh = FALSE => cached.status.api = FALSE
        BY <2>1, <3>2
      <3>5. QED
        BY <1>1, <1>2, <1>3, <2>5, <2>6, <3>1, <3>2, <3>3, <3>4, ContinueRest DEF PCs, Late
    <2>9. QED
      BY <2>7, <2>8
  <1>6. QED
    BY <1>4, <1>5 DEF WaitForDatabase, FailDatabase

LEMMA ComponentRest ==
    ASSUME IInv, RInv, ReconcileServiceComponent
    PROVE  RInv'
  <1> DEFINE r == IF up[svc] THEN "Ready" ELSE "DeploymentPending"
             p == ServiceCopy(proj, svc, r)
  <1>1. pc = "services" /\ proj \in Project /\ watch \in Seq(Project) /\ svc \in Services
    BY DEF IInv, TypeOK, ReconcileServiceComponent
  <1>2. CopyOf(p, proj)
    BY <1>1, Copies DEF Benign, ServiceCopy, ServiceReasons
  <1>3. /\ pc' = "services" /\ proj' = p /\ svc' = svc + 1 /\ watch' = watch
        /\ UNCHANGED <<fresh, queued, credentials, dbUp, up>>
    BY <1>1 DEF ReconcileServiceComponent, ServiceCopy, env
  <1>4. /\ Leads(p, proj) /\ p.status.api = proj.status.api
        /\ p.status.services = [proj.status.services EXCEPT ![svc] = Cond(proj, r)]
    BY <1>1, ServiceCopies
  <1>5. up[svc] # TRUE => r = "DeploymentPending"
    BY <1>1 DEF IInv, TypeOK
  <1> HIDE DEF p, r
  <1>6. fresh = TRUE => FreshPass(watch', p, "services")
    BY <1>1, <1>3, <1>4, PassServices DEF RInv, PassInv
  <1>7. Endpoint(p, "services")
    BY <1>1, <1>4 DEF RInv, EndpointInv, Endpoint
  <1>8. queued = FALSE => Seen(p, "services", svc')
    <2>1. SUFFICES ASSUME queued = FALSE, NEW i \in Services, i < svc + 1,
                          p.status.services[i].reason = "Ready"
                   PROVE  up[i] = TRUE
      BY <1>1, <1>3 DEF RInv, SeenInv, Seen
    <2>2. proj.status.services \in [Services -> Condition(ServiceReasons)]
      BY <1>1 DEF Project, Status
    <2>3. CASE i = svc
      <3>1. r = "Ready"
        BY <1>1, <1>4, <2>1, <2>2, <2>3 DEF Cond
      <3>2. QED
        BY <1>5, <2>3, <3>1
    <2>4. CASE i # svc
      <3>1. i < svc
        BY <1>1, <2>1, <2>4, ConstantsAssumption DEF Services
      <3>2. proj.status.services[i].reason = "Ready"
        BY <1>4, <2>1, <2>2, <2>4
      <3>3. QED
        BY <1>1, <2>1, <3>1, <3>2 DEF RInv, SeenInv, Seen
    <2>5. QED
      BY <2>3, <2>4
  <1>9. p \in Project /\ p.gen = proj.gen
    BY <1>2 DEF CopyOf
  <1>10. QED
    BY <1>1, <1>3, <1>6, <1>7, <1>8, <1>9, StepRest DEF PCs, Late

LEMMA ComponentFailureRest ==
    ASSUME IInv, RInv, FailServiceComponent
    PROVE  RInv'
  <1> DEFINE p == ServiceCopy(proj, svc, "DeploymentFailed")
  <1>1. pc = "services" /\ proj \in Project /\ watch \in Seq(Project) /\ svc \in Services /\ fresh \in BOOLEAN
    BY DEF IInv, TypeOK, FailServiceComponent
  <1>2. CopyOf(p, proj) /\ CopyOf(proj, proj)
    BY <1>1, Copies DEF Benign, ServiceCopy, ServiceReasons
  <1>3. UNCHANGED <<credentials, dbUp, up>>
    BY QuietRest DEF FailServiceComponent
  <1>4. Leads(p, proj) /\ p.status.api = proj.status.api /\ Leads(proj, proj)
    <2>1. Leads(p, proj) /\ p.status.api = proj.status.api
      BY <1>1, ServiceCopies
    <2>2. Leads(proj, proj)
      BY DEF Leads
    <2>3. QED
      BY <2>1, <2>2
  <1>5. proj.status.api = FALSE
    BY <1>1 DEF RInv, EndpointInv, Endpoint
  <1>6. \/ UpdateProjectStatus(p) /\ Continue(p, "coreFailed")
        \/ UNCHANGED watch /\ Continue(proj, "coreFailed")
    BY DEF FailServiceComponent, ServiceCopy
  <1> HIDE DEF p
  <1>7. fresh = TRUE => /\ FreshPass(watch, proj, "coreFailed")
                        /\ FreshPass(watch, p, "coreFailed")
                        /\ FreshPass(Append(watch, p), p, "coreFailed")
    BY <1>1, <1>2, <1>4, <1>5, PassServices, PassServiceFailed DEF RInv, PassInv, CopyOf
  <1>8. ASSUME NEW q
        PROVE  queued = FALSE => Seen(q, "coreFailed", svc)
    BY <1>1 DEF RInv, SeenInv, Seen
  <1>9. Endpoint(p, "coreFailed") /\ Endpoint(proj, "coreFailed")
    BY <1>4, <1>5 DEF Endpoint
  <1>10. CASE UpdateProjectStatus(p) /\ Continue(p, "coreFailed")
    <2>1. watch' = watch \/ (fresh = TRUE /\ watch' = Append(watch, p))
      BY <1>1, <1>10, PersistCases
    <2>2. QED
      BY <1>1, <1>2, <1>3, <1>7, <1>8, <1>9, <1>10, <2>1, ContinueRest DEF PCs, Late
  <1>11. CASE UNCHANGED watch /\ Continue(proj, "coreFailed")
    BY <1>1, <1>2, <1>3, <1>7, <1>8, <1>9, <1>11, ContinueRest DEF PCs, Late
  <1>12. QED
    BY <1>6, <1>10, <1>11

LEMMA CoreFailureRest ==
    ASSUME IInv, RInv, FailCoreServices
    PROVE  RInv'
  <1> DEFINE p == [proj EXCEPT !.status.phase = "Provisioning",
                               !.status.ready = Cond(proj, "CoreServicesFailed")]
  <1>1. pc = "coreFailed" /\ proj \in Project
    BY DEF IInv, TypeOK, FailCoreServices
  <1>2. CopyOf(p, proj)
    BY <1>1, Copies DEF Benign
  <1>3. PersistAndReturn(p, TRUE)
    BY DEF FailCoreServices
  <1> HIDE DEF p
  <1>4. QED
    BY <1>1, <1>2, <1>3, FailRest DEF PCs

LEMMA CompleteServicesRest ==
    ASSUME IInv, RInv, CompleteServices
    PROVE  RInv'
  <1> DEFINE p == ApiCopy(proj)
             q == [p EXCEPT !.status.phase = "Provisioning",
                            !.status.ready = Cond(p, "CoreServicesPending")]
  <1>1. pc = "services" /\ proj \in Project /\ watch \in Seq(Project)
    BY DEF IInv, TypeOK, CompleteServices
  <1>2. CopyOf(p, proj)
    BY <1>1, Copies DEF Benign, ApiCopy
  <1>3. CopyOf(q, proj)
    <2>1. p \in Project
      BY <1>2 DEF CopyOf
    <2> HIDE DEF p
    <2>2. CopyOf(q, p)
      BY <2>1, Copies DEF Benign
    <2>3. QED
      BY <1>2, <2>2 DEF CopyOf
  <1>4. UNCHANGED <<credentials, dbUp, up>>
    BY QuietRest DEF CompleteServices
  <1>5. Leads(p, proj) /\ p.status.api = TRUE /\ p.status.services = proj.status.services
    BY <1>1, LaterCopies
  <1>6. \/ CoreServicesReady(p) /\ Continue(p, "powersync") /\ UNCHANGED watch
        \/ PersistAndReturn(q, TRUE)
    BY DEF CompleteServices, ApiCopy
  <1> HIDE DEF p, q
  <1>7. CASE CoreServicesReady(p) /\ Continue(p, "powersync") /\ UNCHANGED watch
    <2>1. fresh = TRUE => FreshPass(watch', p, "powersync")
      BY <1>1, <1>5, <1>7, PassServices DEF RInv, PassInv
    <2>2. \A i \in Services : i < svc
      BY ConstantsAssumption DEF CompleteServices, IInv, TypeOK, Services
    <2>3. queued = FALSE => Seen(p, "powersync", svc)
      BY <1>1, <1>5, <1>7, <2>2 DEF RInv, SeenInv, Seen, CoreServicesReady
    <2>4. Endpoint(p, "powersync")
      BY <1>5 DEF Endpoint
    <2>5. QED
      BY <1>1, <1>2, <1>4, <1>7, <2>1, <2>3, <2>4, ContinueRest DEF PCs, Late
  <1>8. CASE PersistAndReturn(q, TRUE)
    BY <1>1, <1>3, <1>8, FailRest DEF PCs
  <1>9. QED
    BY <1>6, <1>7, <1>8

LEMMA PowersyncRest ==
    ASSUME IInv, RInv, ReconcilePowersync
    PROVE  RInv'
  <1> DEFINE a == CdcCopy(proj, "CDCPermissionsApplied")
             q == PowersyncCopy(a, "Ready")
             f == PowersyncCopy(a, "DeploymentsPending")
             g == PowersyncCopy(proj, "InvalidSyncRules")
             h == CdcCopy(proj, "Pending")
  <1>1. pc = "powersync" /\ proj \in Project /\ watch \in Seq(Project)
    BY DEF IInv, TypeOK, ReconcilePowersync
  <1>2. CopyOf(a, proj) /\ CopyOf(h, proj) /\ CopyOf(g, proj)
    BY <1>1, Copies DEF Benign, CdcCopy, PowersyncCopy, CDCReasons, PowersyncReasons
  <1>3. Leads(a, proj) /\ a.status.api = proj.status.api
    BY <1>1, PowersyncCopies
  <1>4. UNCHANGED <<credentials, dbUp, up>>
    BY QuietRest DEF ReconcilePowersync
  <1>5. \/ PersistAndReturn(g, TRUE)
        \/ PersistAndReturn(h, TRUE)
        \/ PersistAndReturn(f, TRUE)
        \/ Continue(q, "finish") /\ UNCHANGED watch
    BY DEF ReconcilePowersync, CdcCopy, PowersyncCopy, IInv, TypeOK, PowerSyncStates
  <1>6. a \in Project
    BY <1>2 DEF CopyOf
  <1> HIDE DEF a, g, h
  <1>7. CopyOf(f, a) /\ CopyOf(q, a)
    BY <1>6, Copies DEF Benign, PowersyncCopy, PowersyncReasons
  <1>8. Leads(q, a) /\ q.status.api = a.status.api
    BY <1>6, PowersyncCopies
  <1> HIDE DEF f, q
  <1>9. CopyOf(f, proj) /\ CopyOf(q, proj) /\ Leads(q, proj) /\ q.status.api = proj.status.api
    BY <1>2, <1>3, <1>7, <1>8 DEF CopyOf, Leads
  <1>10. ASSUME Continue(q, "finish"), UNCHANGED watch
         PROVE  RInv'
    <2>1. fresh = TRUE => FreshPass(watch', q, "finish")
      BY <1>1, <1>9, <1>10, PassPowersync DEF RInv, PassInv
    <2>2. queued = FALSE => Seen(q, "finish", svc)
      BY <1>1 DEF RInv, SeenInv, Seen
    <2>3. Endpoint(q, "finish")
      BY <1>1, <1>9 DEF RInv, EndpointInv, Endpoint
    <2>4. QED
      BY <1>1, <1>4, <1>9, <1>10, <2>1, <2>2, <2>3, ContinueRest DEF PCs, Late
  <1>11. pc \in PCs \ {"finish"}
    BY <1>1 DEF PCs
  <1>12. CASE PersistAndReturn(g, TRUE)
    BY <1>2, <1>11, <1>12, FailRest
  <1>13. CASE PersistAndReturn(h, TRUE)
    BY <1>2, <1>11, <1>13, FailRest
  <1>14. CASE PersistAndReturn(f, TRUE)
    BY <1>9, <1>11, <1>14, FailRest
  <1>15. QED
    BY <1>5, <1>10, <1>12, <1>13, <1>14

LEMMA CleanupRest ==
    ASSUME IInv, RInv, CleanupPowerSync
    PROVE  RInv'
  <1> DEFINE p == CleanCopy(proj)
  <1>1. /\ pc = "powersync" /\ proj \in Project /\ watch \in Seq(Project) /\ fresh \in BOOLEAN
        /\ ~proj.spec.powersync
    BY DEF IInv, TypeOK, CleanupPowerSync
  <1>2. CopyOf(p, proj) /\ CopyOf(proj, proj)
    BY <1>1, Copies DEF Benign, CleanCopy
  <1>3. UNCHANGED <<credentials, dbUp, up>>
    BY DEF CleanupPowerSync
  <1>4. /\ Leads(p, proj) /\ SameSecrets(p, proj) /\ p.status.api = proj.status.api
        /\ p.status.database = proj.status.database
        /\ p.status.services = proj.status.services
    BY <1>1, LaterCopies
  <1>5. \/ Continue(proj, "finish") /\ UNCHANGED watch
        \/ PersistThen(p, "finish")
    BY DEF CleanupPowerSync, CleanCopy
  <1> HIDE DEF p
  <1>6. Leads(proj, proj)
    BY DEF Leads
  <1>7. fresh = TRUE => FreshPass(watch, proj, "finish") /\ FreshPass(watch, p, "finish")
    BY <1>1, <1>4, <1>6, PassPowersync DEF RInv, PassInv
  <1>8. fresh = TRUE => FreshPass(Append(watch, p), p, "finish")
    <2>1. Stage(p, "finish") /\ ~p.spec.powersync /\ p \in Project
      BY <1>1, <1>2, <1>4 DEF IInv, StageInv, Stage, CoreServicesReady, SameSecrets, CopyOf
    <2>2. fresh = TRUE => FreshPass(watch, proj, "powersync")
      BY <1>1 DEF RInv, PassInv
    <2>3. QED
      BY <1>1, <1>4, <2>1, <2>2, PassCleanup
  <1>9. ASSUME NEW q
        PROVE  queued = FALSE => Seen(q, "finish", svc)
    BY <1>1 DEF RInv, SeenInv, Seen
  <1>10. Endpoint(p, "finish") /\ Endpoint(proj, "finish")
    BY <1>1, <1>4 DEF RInv, EndpointInv, Endpoint
  <1>11. CASE Continue(proj, "finish") /\ UNCHANGED watch
    BY <1>1, <1>2, <1>3, <1>7, <1>9, <1>10, <1>11, ContinueRest DEF PCs, Late
  <1>12. CASE PersistThen(p, "finish")
    <2>1. CASE Conflict(p)
      BY <1>12, <2>1, ConflictRest
    <2>2. CASE ~Conflict(p)
      <3>1. UpdateProjectStatus(p) /\ Continue(p, "finish")
        BY <1>12, <2>2 DEF PersistThen
      <3>2. watch' = watch \/ (fresh = TRUE /\ watch' = Append(watch, p))
        BY <1>1, <3>1, PersistCases
      <3>3. QED
        BY <1>1, <1>2, <1>3, <1>7, <1>8, <1>9, <1>10, <3>1, <3>2, ContinueRest DEF PCs, Late
    <2>3. QED
      BY <2>1, <2>2
  <1>13. QED
    BY <1>5, <1>11, <1>12

\* A version whose head and components are those of a finished one is finished.
LEMMA FinishedBy ==
    ASSUME NEW p, NEW q, Finished(p), q.gen = p.gen, q.spec = p.spec,
           q.status.phase = "Running", q.status.ready = p.status.ready,
           q.status.observed = p.status.observed,
           q.status.secrets.reason \in SecretsTrue, q.status.database.reason = "Ready",
           \/ /\ q.status.services = p.status.services
              /\ q.status.cdc = p.status.cdc /\ q.status.powersync = p.status.powersync
           \/ CoreServicesReady(q) /\ ~q.spec.powersync
    PROVE  Finished(q)
  BY DEF Finished, ReadyTrue, ComponentsReady, CoreServicesReady

\* A pass ends without being refused: what the API server holds is what it
\* found, though it may not have written it.
LEMMA CompleteRest ==
    ASSUME IInv, RInv, CompleteReconcile
    PROVE  RInv'
  <1> DEFINE p == FinalCopy(proj)
  <1>1. /\ pc = "finish" /\ proj \in Project /\ watch \in Seq(Project) /\ fresh \in BOOLEAN
        /\ queued \in BOOLEAN /\ cached \in Project /\ api \in Project
        /\ 1 \in DOMAIN watch /\ Len(watch) \in DOMAIN watch
    BY Ends DEF IInv, TypeOK, CompleteReconcile
  <1>2. UNCHANGED <<credentials, dbUp, up>>
    BY QuietRest DEF CompleteReconcile
  <1>3. UpdateProjectStatus(p) /\ Return(FALSE \/ Conflict(p))
    BY DEF CompleteReconcile, PersistAndReturn, FinalCopy
  <1>4. CopyOf(p, proj)
    BY <1>1, Copies DEF FinalCopy
  <1>5. /\ SameBody(p, proj) /\ SameSecrets(p, proj)
        /\ p.status.phase = "Running" /\ p.status.observed = proj.gen
        /\ p.status.ready.reason = "AllComponentsReady"
    BY <1>1, LaterCopies
  <1> HIDE DEF p
  <1>6. Finished(p) /\ p \in Project
    BY <1>1, <1>4, <1>5
    DEF IInv, StageInv, Stage, Finished, ReadyTrue, ComponentsReady, CoreServicesReady, CopyOf,
        SameBody, SameSecrets, SecretsTrue
  <1>7. fresh' = FALSE /\ pc' = "idle" /\ svc' = 1 /\ (queued' = FALSE => queued = FALSE /\ ~Conflict(p))
    BY <1>1, <1>3 DEF Return
  <1>8. \/ watch' = watch /\ (Conflict(p) \/ p.status = cached.status)
        \/ fresh = TRUE /\ ~Conflict(p) /\ watch' = Append(watch, p)
    BY <1>1, <1>3, PersistCases
  <1>9. GenInv' /\ CursorInv' /\ EndpointInv' /\ PassInv' /\ LateInv'
    BY <1>7 DEF GenInv, CursorInv, EndpointInv, Endpoint, PassInv, LateInv, Late
  <1>10. SeenInv'
    BY <1>1, <1>2, <1>7 DEF RInv, SeenInv, Seen
  <1>11. TurnInv'
    <2> USE DEF Finished, Stored, ReadyTrue, ComponentsReady, CoreServicesReady
    <2>1. CASE watch' = watch
      BY <2>1 DEF RInv, TurnInv, Turn
    <2>2. CASE watch' = Append(watch, p)
      <3>1. Turn(watch')
        BY <1>1, <1>6, <2>2, AppendTurn
      <3>2. QED
        BY <3>1 DEF TurnInv, Turn
    <2>3. QED
      BY <1>8, <2>1, <2>2
  <1>12. ASSUME Calm'
         PROVE  Finished(api')
    <2>1. queued = FALSE /\ ~Conflict(p)
      BY <1>7, <1>12 DEF Calm
    <2>2. CASE watch' = Append(watch, p)
      <3>1. api' = p
        BY <1>1, <1>6, <2>2, Appended DEF api, Stored
      <3>2. QED
        BY <1>6, <3>1
    <2>3. CASE watch' = watch /\ p.status = cached.status
      <3>1. api' = api /\ cached' = cached /\ Calm
        BY <1>12, <2>1, <2>3 DEF api, cached, Calm
      <3>2. CASE fresh = TRUE
        <4>1. /\ api.gen = p.gen /\ api.spec = p.spec
          BY <1>1, <1>4, <3>2 DEF IInv, FreshInv, CopyOf, api
        <4>2. FreshPass(watch, proj, "finish") /\ Stored(watch) = api /\ watch[1] = cached
          BY <1>1, <3>2 DEF RInv, PassInv, Stored, api, cached
        <4>3. /\ api.status.phase = "Running"
              /\ api.status.ready = p.status.ready
              /\ api.status.observed = p.status.observed
          BY <1>1, <1>5, <2>3, <4>2 DEF FreshPass, SameHead, api
        <4>4. api.status.secrets.reason \in SecretsTrue /\ api.status.database.reason = "Ready"
          BY <4>2 DEF FreshPass
        <4>5. \/ /\ api.status.services = p.status.services
                 /\ api.status.cdc = p.status.cdc /\ api.status.powersync = p.status.powersync
              \/ CoreServicesReady(api) /\ ~api.spec.powersync
          BY <1>1, <1>4, <2>3, <4>1, <4>2 DEF FreshPass, SameComponents, CopyOf
        <4>6. Finished(api)
          BY <1>6, <4>1, <4>3, <4>4, <4>5, FinishedBy
        <4>7. QED
          BY <3>1, <4>6
      <3>3. CASE fresh = FALSE
        <4>1. p.status.api = TRUE
          BY <1>1, <1>5 DEF RInv, EndpointInv, Endpoint, SameBody
        <4>2. proj.gen = cached.gen /\ cached.gen = api.gen
          BY <1>1, <2>1, <3>1 DEF RInv, GenInv, Calm
        <4>3. cached.spec = proj.spec
          BY <1>1, <4>2 DEF IInv, WatchInv, CopyInv, Recent, cached
        <4>4. Finished(cached)
          BY <1>4, <1>6, <2>3, <4>2, <4>3
          DEF Finished, ComponentsReady, CoreServicesReady, CopyOf
        <4>5. Finished(api)
          BY <1>1, <2>3, <3>1, <3>3, <4>1, <4>4 DEF RInv, LateInv, Late, cached
        <4>6. QED
          BY <3>1, <4>5
      <3>4. QED
        BY <1>1, <3>2, <3>3
    <2>4. QED
      BY <1>8, <2>1, <2>2, <2>3
  <1>13. RestInv'
    BY <1>12 DEF RestInv, Finished, ReadyTrue, ComponentsReady, CoreServicesReady
  <1>14. QED
    BY <1>9, <1>10, <1>11, <1>13 DEF RInv

-----------------------------------------------------------------------------
(* Everything around the reconciler.                                       *)

LEMMA DeliverRest ==
    ASSUME IInv, RInv, DeliverProject
    PROVE  RInv'
  <1> USE DEF Finished, Stored, ReadyTrue, ComponentsReady, CoreServicesReady
  <1>1. /\ watch \in Seq(Project) /\ Len(watch) \in Nat /\ Len(watch) > 1
        /\ watch' = Tail(watch) /\ queued \in BOOLEAN /\ fresh \in BOOLEAN
    BY DEF IInv, TypeOK, DeliverProject
  <1>2. /\ DOMAIN watch = 1..Len(watch) /\ Len(watch') = Len(watch) - 1
        /\ DOMAIN watch' = 1..(Len(watch) - 1)
        /\ \A j \in 1..(Len(watch) - 1) : watch'[j] = watch[j + 1]
    BY <1>1
  <1>3. /\ api' = api /\ cached' = watch[2]
        /\ \A j \in DOMAIN watch' : j + 1 \in DOMAIN watch /\ watch'[j] = watch[j + 1]
    BY <1>1, <1>2 DEF api, cached
  <1>4. UNCHANGED <<proj, fresh, pc, svc, credentials, dbUp, up>>
    BY DEF DeliverProject, env
  <1>5. queued' = FALSE => queued = FALSE /\ cached'.gen = cached.gen
    BY <1>1, <1>3 DEF DeliverProject, cached
  <1>6. GenInv' /\ SeenInv' /\ CursorInv' /\ EndpointInv'
    BY <1>4, <1>5
    DEF RInv, GenInv, SeenInv, Seen, CursorInv, EndpointInv, Endpoint
  <1>7. TurnInv'
    <2>1. SUFFICES ASSUME NEW i \in DOMAIN watch', NEW j \in DOMAIN watch', i < j,
                          watch'[i].gen = api'.gen,
                          watch'[i].status.api = FALSE, watch'[j].status.api = TRUE,
                          Finished(watch'[j])
                   PROVE  Finished(api')
      BY DEF TurnInv, Turn, api
    <2>2. i + 1 < j + 1
      BY <1>2, <2>1
    <2>3. /\ i + 1 \in DOMAIN watch /\ j + 1 \in DOMAIN watch
          /\ watch'[i] = watch[i + 1] /\ watch'[j] = watch[j + 1]
      BY <1>3, <2>1
    <2>4. Turn(watch) /\ Stored(watch) = api
      BY DEF RInv, TurnInv, api
    <2> HIDE DEF Finished, Stored
    <2>5. Finished(watch[j + 1]) /\ watch[i + 1].gen = Stored(watch).gen
      BY <1>3, <2>1, <2>3, <2>4
    <2>6. Finished(api)
      BY <2>1, <2>2, <2>3, <2>4, <2>5 DEF Turn
    <2>7. QED
      BY <1>3, <2>6
  <1>8. PassInv'
    <2>1. ASSUME fresh = TRUE
          PROVE  FreshPass(watch', proj, pc)
      <3>1. pc \in PCs
        BY <2>1 DEF IInv, FreshInv, TypeOK, PCs
      <3>2. QED
        BY <1>1, <2>1, <3>1, PassDelivered DEF RInv, PassInv
    <2>2. QED
      BY <1>4, <2>1 DEF PassInv, FreshPass, SameHead, SameBody, SameComponents, NoTurn
  <1>9. Calm' => Calm
    BY <1>3, <1>5 DEF Calm
  <1>10. LateInv' /\ RestInv'
    BY <1>3, <1>4, <1>9 DEF RInv, LateInv, RestInv
  <1>11. QED
    BY <1>6, <1>7, <1>8, <1>10 DEF RInv

LEMMA EditRest ==
    ASSUME IInv, RInv, EditSpec
    PROVE  RInv'
  <1>1. PICK s \in Specs : watch' = Append(watch, [api EXCEPT !.gen = @ + 1, !.spec = s])
    BY DEF EditSpec
  <1> DEFINE p == [api EXCEPT !.gen = @ + 1, !.spec = s]
  <1>2. /\ watch \in Seq(Project) /\ Len(watch) \in Nat /\ 1 \in DOMAIN watch /\ api \in Project
        /\ DOMAIN watch = 1..Len(watch)
        /\ \A i \in DOMAIN watch : watch[i].gen \in Nat /\ watch[i].gen <= api.gen
    BY Ends, ConstantsAssumption DEF IInv, TypeOK, WatchInv, Recent, Project, Generations
  <1>3. p.gen = api.gen + 1 /\ api.gen \in Nat /\ p \in Project
    <2>1. p.gen = api.gen + 1 /\ p.status = api.status /\ p.spec = s
      BY <1>2 DEF Project
    <2>2. api.gen \in Nat /\ api.gen + 1 \in Generations
      BY <1>2, ConstantsAssumption DEF Generations, Project, EditSpec
    <2>3. QED
      BY <1>2, <2>1, <2>2 DEF Project
  <1> HIDE DEF p
  <1>4. /\ \A j \in DOMAIN watch : watch'[j] = watch[j]
        /\ DOMAIN watch' = 1..(Len(watch) + 1)
        /\ Stored(watch') = p
    BY <1>1, <1>2, <1>3, Appended DEF p
  <1>5. api' = p /\ cached' = cached
    BY <1>2, <1>4 DEF api, cached, Stored
  <1>6. fresh' = FALSE /\ UNCHANGED <<proj, pc, svc, queued, credentials, dbUp, up>>
    BY DEF EditSpec, env
  <1>7. ~Calm'
    BY <1>2, <1>3, <1>5 DEF Calm, cached
  <1>8. GenInv' /\ SeenInv' /\ CursorInv' /\ EndpointInv'
    BY <1>5, <1>6
    DEF RInv, GenInv, SeenInv, Seen, CursorInv, EndpointInv, Endpoint
  <1>9. PassInv' /\ LateInv' /\ RestInv'
    BY <1>6, <1>7 DEF PassInv, LateInv, RestInv
  <1>10. TurnInv'
    <2>1. ASSUME NEW i \in DOMAIN watch', NEW j \in DOMAIN watch', i < j
          PROVE  watch'[i].gen # Stored(watch').gen
      <3>1. i \in DOMAIN watch
        BY <1>2, <1>4, <2>1
      <3>2. QED
        BY <1>2, <1>3, <1>4, <3>1
    <2>2. QED
      BY <2>1 DEF TurnInv, Turn, Stored
  <1>11. QED
    BY <1>8, <1>9, <1>10 DEF RInv

\* A step that leaves the project, its versions and the reconciler alone, and
\* either enqueues the key or changes nothing a pass has looked at.
LEMMA AroundRest ==
    ASSUME RInv, UNCHANGED <<watch, proj, fresh, pc, svc>>,
           \/ queued' = TRUE
           \/ UNCHANGED <<queued, credentials, dbUp, up>>
    PROVE  RInv'
  <1> USE DEF Finished, Stored, ReadyTrue, ComponentsReady, CoreServicesReady
  <1>1. cached' = cached /\ api' = api /\ (queued' = FALSE => queued = FALSE)
    BY DEF cached, api
  <1>2. GenInv' /\ SeenInv' /\ CursorInv' /\ EndpointInv'
    BY <1>1 DEF RInv, GenInv, SeenInv, Seen, CursorInv, EndpointInv, Endpoint
  <1>3. TurnInv' /\ PassInv'
    BY DEF RInv, TurnInv, Turn, PassInv, FreshPass, SameHead, SameBody, SameComponents, NoTurn
  <1>4. LateInv' /\ RestInv'
    BY <1>1 DEF RInv, LateInv, RestInv, Calm
  <1>5. QED
    BY <1>2, <1>3, <1>4 DEF RInv

LEMMA DisturbanceRest ==
    ASSUME RInv, RotateCredentials \/ DatabaseChanges \/ DeploymentChanges \/ PowerSyncChanges
    PROVE  RInv'
  <1>1. PICK bad : Disturb(bad)
    BY DEF RotateCredentials, DatabaseChanges, DeploymentChanges, PowerSyncChanges
  <1>2. queued' = TRUE /\ UNCHANGED <<watch, proj, fresh, pc, svc>>
    BY <1>1 DEF Disturb
  <1>3. QED
    BY <1>2, AroundRest

-----------------------------------------------------------------------------
(* The theorem.                                                            *)

LEMMA InitRest ==
    ASSUME Init
    PROVE  RInv
  <1>1. PICK s \in Specs : watch = <<[gen |-> 1, spec |-> s, status |-> EmptyStatus]>>
    BY DEF Init
  <1>2. DOMAIN watch = {1} /\ pc = "idle" /\ queued = TRUE /\ fresh = FALSE /\ svc = 1
    BY <1>1 DEF Init
  <1>3. GenInv /\ SeenInv /\ CursorInv /\ EndpointInv /\ PassInv /\ LateInv /\ RestInv
    BY <1>2
    DEF GenInv, SeenInv, CursorInv, EndpointInv, Endpoint, PassInv, LateInv, RestInv, Calm, Late
  <1>4. TurnInv
    BY <1>2 DEF TurnInv, Turn
  <1>5. QED
    BY <1>3, <1>4 DEF RInv

LEMMA NextRest ==
    ASSUME IInv, RInv, [Next]_vars
    PROVE  RInv'
  <1>1. CASE UNCHANGED vars
    BY <1>1, AroundRest DEF vars, env
  <1>2. CASE Reconcile
    BY <1>2, StartRest, SecretsRest, ImplementationRest, SecretsFailureRest, ReportSecretsRest,
       RecoveryRest, ClusterRest, DatabaseRest, ComponentRest, CoreFailureRest,
       CompleteServicesRest, PowersyncRest, CleanupRest, CompleteRest
    DEF Reconcile
  <1>3. CASE Faults
    <2>1. CASE FailApiCall
      BY <2>1, ReturnRest DEF FailApiCall
    <2>2. CASE Restart
      BY <2>2, ReturnRest DEF Restart
    <2>3. QED
      BY <1>3, <2>1, <2>2, SecretsRest, ImplementationFailureRest, ClusterRest, JWKSFailureRest,
         ComponentFailureRest
      DEF Faults
  <1>4. CASE Environment
    BY <1>4, DeliverRest, EditRest, DisturbanceRest DEF Environment
  <1>5. QED
    BY <1>1, <1>2, <1>3, <1>4 DEF Next

\* With no key queued, no pass running and the cache in step, the stored status
\* reports Running, Ready and every component ready for the stored generation,
\* and the bundle, the database and every core service are in order.
THEOREM ConvergedAtRest == Spec => []QuiescentMeansConverged
  <1>1. Init => IInv /\ RInv
    BY InitInv, InitRest
  <1>2. IInv /\ RInv /\ [Next]_vars => (IInv /\ RInv)'
    BY NextInv, NextRest
  <1>3. IInv /\ RInv => QuiescentMeansConverged
    <2>1. SUFFICES ASSUME IInv, RInv, Quiescent
                   PROVE  /\ Finished(api)
                          /\ credentials = TRUE /\ dbUp = TRUE /\ \A i \in Services : up[i] = TRUE
      BY DEF QuiescentMeansConverged, Finished
    <2>2. pc = "idle" /\ queued = FALSE /\ cached = api
      BY <2>1 DEF Quiescent, IInv, TypeOK, cached, api
    <2>3. Seen(proj, "idle", svc)
      BY <2>1, <2>2 DEF RInv, SeenInv
    <2>4. Finished(api)
      BY <2>1, <2>2 DEF RInv, RestInv, Calm
    <2>5. QED
      BY <2>3, <2>4 DEF Seen
  <1>4. QED
    BY <1>1, <1>2, <1>3, PTL DEF Spec
=============================================================================
