------------------------------- MODULE Publisher -------------------------------
(***************************************************************************)
(* The secrets publishers of pkg/inject/publisher and the template         *)
(* resolver they use.  Every caller publishes for a deployment of its own, *)
(* and after an error may try again with the same object; the callers      *)
(* share the cluster's Kubernetes secrets, where every API call may fail,  *)
(* be carried out although its answer is lost, and race with other clients.*)
(***************************************************************************)
EXTENDS Naturals, Sequences, FiniteSets

CONSTANTS
  Callers,               \* goroutines that publish
  DeploymentOf,          \* caller -> deployment as it is before publishing:
                         \*   [ns, name, containers, volumes]
  VaultMaps,             \* [type, namePattern, pathPattern, filePattern]
  SecretMaps,            \* what Vault may hold: functions from key to value
  OtherSecrets,          \* secrets that may exist before: [ns, name, file, data]
  MaxAttempts            \* bound on the attempts of one caller

SameObject(s, t) == s.ns = t.ns /\ s.name = t.name

IsDeployment(d) ==
  d = [ns |-> d.ns, name |-> d.name, containers |-> d.containers, volumes |-> d.volumes]

ASSUME PublisherAssumption ==
  /\ MaxAttempts \in Nat
  /\ DeploymentOf = [c \in Callers |-> DeploymentOf[c]]
  /\ \A c \in Callers :
       LET d == DeploymentOf[c]
       IN  /\ IsDeployment(d)
           /\ d.containers \in Seq([name : STRING,
                env : Seq([name : STRING, value : STRING]), mounts : {<<>>}])
           /\ d.volumes \in Seq({d.volumes[i] : i \in DOMAIN d.volumes})
  /\ \A m \in SecretMaps : IsFiniteSet(DOMAIN m)
  /\ \A s, t \in OtherSecrets : SameObject(s, t) => s = t

VARIABLES
  pc,                    \* per caller: "idle", a point inside, or how it ended
  deployment,            \* per caller: the object the publisher changes
  vaultmap, secrets,     \* per caller: the arguments
  todo,                  \* per caller: keys the range over secrets has to visit
  attempts,              \* per caller: attempts so far
  exists,                \* per caller: what secretExists answered
  cluster                \* the Kubernetes secrets: set of [ns, name, file, data]

localVars == <<pc, deployment, vaultmap, secrets, todo, attempts, exists>>
vars == <<localVars, cluster>>

Ends == {"ok", "failed", "panic"}
-----------------------------------------------------------------------------
(* ResolveTemplate.  A pattern is the set of fields its template names, and *)
(* resolves to the values of those fields: patterns differ in the fields    *)
(* they name, and separate them by a character no Kubernetes name contains. *)

\* PathConfig; Containers[0].Name panics when there is no container.
PathConfig(d) ==
  [Namespace |-> d.ns, DeploymentName |-> d.name, ContainerName |-> d.containers[1].name]

\* A template that does not parse or names another field is an error.
Executes(pattern) == pattern \subseteq {"Namespace", "DeploymentName", "ContainerName"}

ResolveTemplate(d, pattern) == [field \in pattern |-> PathConfig(d)[field]]
-----------------------------------------------------------------------------
\* What the volume publisher resolves for the deployment of c.
SecretName(c) == ResolveTemplate(deployment[c], vaultmap[c].namePattern)
FileName(c) == ResolveTemplate(deployment[c], vaultmap[c].filePattern)

SecretForNameless(c) ==
  [ns |-> deployment[c].ns, file |-> FileName(c), data |-> secrets[c]]
SecretFor(c) ==
  [ns |-> deployment[c].ns, name |-> SecretName(c), file |-> FileName(c),
   data |-> secrets[c]]

Volume(c) == [name |-> "secrets", secretName |-> SecretName(c)]
Mount(c) ==
  [name |-> "secrets", subPath |-> FileName(c),
   dir |-> ResolveTemplate(deployment[c], vaultmap[c].pathPattern)]

AppendVolume(d, v) == [d EXCEPT !.volumes = Append(@, v)]
AppendMount(d, m) == [d EXCEPT !.containers[1].mounts = Append(@, m)]
PrependEnv(d, e) == [d EXCEPT !.containers[1].env = <<e>> \o @]
AppendEnv(d, e) == [d EXCEPT !.containers[1].env = Append(@, e)]

Found(c) == \E s \in cluster : s.ns = deployment[c].ns /\ s.name = SecretName(c)

\* Secrets a run can meet.
Secrets ==
  OtherSecrets \cup
    {[ns |-> d.ns, name |-> ResolveTemplate(d, vm.namePattern),
      file |-> ResolveTemplate(d, vm.filePattern), data |-> m] :
       d \in {DeploymentOf[c] : c \in {x \in Callers : DeploymentOf[x].containers # <<>>}},
       vm \in {v \in VaultMaps : Executes(v.namePattern) /\ Executes(v.filePattern)},
       m \in SecretMaps}

TypeOK ==
  /\ pc \in [Callers -> {"idle", "create", "env", "resolve", "list", "createSecret",
                         "mount"} \cup Ends]
  /\ DOMAIN deployment = Callers
  /\ \A c \in Callers : pc[c] # "idle" => vaultmap[c] \in VaultMaps /\ secrets[c] \in SecretMaps
  /\ \A c \in Callers : todo[c] \subseteq UNION {DOMAIN m : m \in SecretMaps}
  /\ attempts \in [Callers -> 0..MaxAttempts]
  /\ exists \in [Callers -> BOOLEAN]
  /\ cluster \subseteq Secrets
  /\ \A s, t \in cluster : SameObject(s, t) => s = t

Init ==
  /\ pc = [c \in Callers |-> "idle"]
  /\ deployment = DeploymentOf
  /\ vaultmap = [c \in Callers |-> CHOOSE vm \in VaultMaps : TRUE]
  /\ secrets = [c \in Callers |-> CHOOSE m \in SecretMaps : TRUE]
  /\ todo = [c \in Callers |-> {}]
  /\ attempts = [c \in Callers |-> 0]
  /\ exists = [c \in Callers |-> FALSE]
  /\ cluster \in SUBSET OtherSecrets

Goto(c, l) == pc' = [pc EXCEPT ![c] = l]
-----------------------------------------------------------------------------
\* A caller looks up a VaultMap, reads Vault and asks for a publisher; a caller
\* whose last attempt failed may try again with the same deployment object.
Publish(c, vm, m) ==
  /\ pc[c] \in {"idle", "failed"}
  /\ attempts[c] < MaxAttempts
  /\ attempts' = [attempts EXCEPT ![c] = @ + 1]
  /\ vaultmap' = [vaultmap EXCEPT ![c] = vm]
  /\ secrets' = [secrets EXCEPT ![c] = m]
  /\ exists' = [exists EXCEPT ![c] = FALSE]
  /\ Goto(c, "create")
  /\ UNCHANGED <<deployment, todo, cluster>>

\* CreatePublisher: the type selects the publisher; any other is an error.
CreatePublisher(c) ==
  /\ pc[c] = "create"
  /\ \/ vaultmap[c].type = "env" /\ Goto(c, "env")
     \/ vaultmap[c].type = "volume" /\ Goto(c, "resolve")
     \/ vaultmap[c].type \notin {"env", "volume"} /\ Goto(c, "failed")
  /\ todo' = [todo EXCEPT ![c] = DOMAIN secrets[c]]
  /\ UNCHANGED <<deployment, vaultmap, secrets, attempts, exists, cluster>>

(* EnvironmentPublisher.PublishSecrets: one step per iteration, in the     *)
(* order Go's map range happens to pick.                                   *)
PublishEnv(c, key) ==
  /\ pc[c] = "env"
  /\ key \in todo[c]
  /\ IF deployment[c].containers = <<>>
     THEN Goto(c, "panic") /\ UNCHANGED <<deployment, todo>>
     ELSE /\ deployment' =
               [deployment EXCEPT ![c] = AppendEnv(@, [name |-> key, value |-> secrets[c][key]])]
          /\ todo' = [todo EXCEPT ![c] = @ \ {key}]
          /\ UNCHANGED pc
  /\ UNCHANGED <<vaultmap, secrets, attempts, exists, cluster>>

ReturnEnv(c) ==
  /\ pc[c] = "env"
  /\ todo[c] = {}
  /\ Goto(c, "ok")
  /\ UNCHANGED <<deployment, vaultmap, secrets, todo, attempts, exists, cluster>>

(* VolumePublisher.PublishSecrets, up to the first API call.               *)
ResolveTemplates(c) ==
  LET vm == vaultmap[c]
  IN  /\ pc[c] = "resolve"
      /\ IF deployment[c].containers = <<>>
         THEN Goto(c, "panic")
         ELSE IF \A p \in {vm.namePattern, vm.pathPattern, vm.filePattern} : Executes(p)
              THEN Goto(c, "list")
              ELSE Goto(c, "failed")
      /\ UNCHANGED <<deployment, vaultmap, secrets, todo, attempts, exists, cluster>>

\* secretExists: List either answers with the secrets of that moment or fails.
ListIgnoringError(c) ==
  /\ pc[c] = "list"
  /\ \/ exists' = [exists EXCEPT ![c] = Found(c)]
     \/ exists' = [exists EXCEPT ![c] = TRUE]
  /\ Goto(c, IF exists'[c] THEN "mount" ELSE "createSecret")
  /\ UNCHANGED <<deployment, vaultmap, secrets, todo, attempts, cluster>>
ListAfterVolume(c) ==
  /\ pc[c] = "list"
  /\ \/ /\ exists' = [exists EXCEPT ![c] = Found(c)]
        /\ Goto(c, IF Found(c) THEN "mount" ELSE "createSecret")
     \/ Goto(c, "failed") /\ UNCHANGED exists
  /\ deployment' = [deployment EXCEPT ![c] = AppendVolume(@, Volume(c))]
  /\ UNCHANGED <<vaultmap, secrets, todo, attempts, cluster>>
SecretExists(c) ==
  /\ pc[c] = "list"
  /\ \/ /\ exists' = [exists EXCEPT ![c] = Found(c)]
        /\ Goto(c, IF Found(c) THEN "mount" ELSE "createSecret")
     \/ Goto(c, "failed") /\ UNCHANGED exists
  /\ UNCHANGED <<deployment, vaultmap, secrets, todo, attempts, cluster>>

\* Create: the API server refuses a name that is taken; it may fail, and its
\* answer may be lost when the secret has been created.
ApplySecret(c) ==
  /\ pc[c] = "createSecret"
  /\ cluster' = {s \in cluster : ~SameObject(s, SecretFor(c))} \cup {SecretFor(c)}
  /\ Goto(c, "mount") \/ Goto(c, "failed")
  /\ UNCHANGED <<deployment, vaultmap, secrets, todo, attempts, exists>>
CreateUntilDone(c) ==
  /\ pc[c] = "createSecret"
  /\ \/ ~Found(c) /\ cluster' = cluster \cup {SecretFor(c)} /\ Goto(c, "mount")
     \/ Goto(c, "list") /\ UNCHANGED cluster
  /\ UNCHANGED <<deployment, vaultmap, secrets, todo, attempts, exists>>
CreateSecret(c) ==
  /\ pc[c] = "createSecret"
  /\ \/ /\ ~Found(c)
        /\ cluster' = cluster \cup {SecretFor(c)}
        /\ Goto(c, "mount") \/ Goto(c, "failed")
     \/ Goto(c, "failed") /\ UNCHANGED cluster
  /\ UNCHANGED <<deployment, vaultmap, secrets, todo, attempts, exists>>

\* The volume and its mount; nothing after the API calls can fail.
PublishVolume(c) ==
  /\ pc[c] = "mount"
  /\ deployment' =
       [deployment EXCEPT ![c] = AppendMount(AppendVolume(@, Volume(c)), Mount(c))]
  /\ Goto(c, "ok")
  /\ UNCHANGED <<vaultmap, secrets, todo, attempts, exists, cluster>>

\* Another client of the API server deletes a secret.
DeleteSecret(s) ==
  /\ s \in cluster
  /\ cluster' = cluster \ {s}
  /\ UNCHANGED localVars

Step(c) ==
  \/ CreatePublisher(c)
  \/ ReturnEnv(c) \/ \E key \in todo[c] : PublishEnv(c, key)
  \/ ResolveTemplates(c) \/ SecretExists(c) \/ CreateSecret(c) \/ PublishVolume(c)

Next ==
  \/ \E c \in Callers : Step(c) \/ \E vm \in VaultMaps, m \in SecretMaps : Publish(c, vm, m)
  \/ \E s \in cluster : DeleteSecret(s)

Spec == Init /\ [][Next]_vars
\* The scheduler runs every goroutine and an API call returns, with an answer
\* or with an error.
FairSpec == Spec /\ \A c \in Callers : WF_vars(Step(c))
-----------------------------------------------------------------------------
(* Properties.                                                             *)
Original(c) == DeploymentOf[c]

\* However many attempts fail, and wherever, the deployment is as it was.  The
\* attempt for a volume that succeeds has added exactly one volume and one mount,
\* to the first container, and never succeeds where there is no container; so
\* retrying is safe (volume/publisher.go:39-81).  An attempt panics only for a
\* deployment without containers (templateresolver.go:11, environment/
\* publisher.go:17), and leaves nothing behind either.
RetrySafe ==
  \A c \in Callers :
    /\ pc[c] \notin {"env", "ok"} => deployment[c] = Original(c)
    /\ (pc[c] = "ok" /\ vaultmap[c].type # "env") =>
         /\ Original(c).containers # <<>>
         /\ deployment[c] =
              [Original(c) EXCEPT !.volumes = Append(@, Volume(c)),
                                  !.containers[1].mounts = Append(@, Mount(c))]
    /\ pc[c] = "panic" => Original(c).containers = <<>>

\* The value a container sees: the last definition of a variable counts.
Effective(env, name) ==
  LET defs == {i \in DOMAIN env : env[i].name = name}
  IN  IF defs = {} THEN "unset"
      ELSE env[CHOOSE i \in defs : \A j \in defs : j <= i].value

\* In whatever order the range visits the map, the first container ends up
\* with every secret, one that hides a variable it had included; its other
\* variables and the other containers keep what they had (environment/
\* publisher.go:15-18).  Where there is no container the attempt succeeds only if
\* there is no secret either.
EnvironmentComplete ==
  \A c \in Callers :
    (pc[c] = "ok" /\ vaultmap[c].type = "env") =>
      IF Original(c).containers = <<>>
      THEN DOMAIN secrets[c] = {} /\ deployment[c] = Original(c)
      ELSE
      LET env == deployment[c].containers[1].env
          old == Original(c).containers[1].env
          names == DOMAIN secrets[c] \cup {old[i].name : i \in DOMAIN old}
      IN  /\ \A n \in names :
               Effective(env, n) = IF n \in DOMAIN secrets[c] THEN secrets[c][n]
                                   ELSE Effective(old, n)
          /\ Len(env) = Len(old) + Cardinality(DOMAIN secrets[c])
          /\ [deployment[c] EXCEPT !.containers[1].env = old] = Original(c)

\* Publishing never changes a secret that exists, neither another caller's nor
\* one found under the same name: all it does is add (volume/publisher.go:56-64).
NoOverwrite ==
  [][(\E c \in Callers : pc'[c] # pc[c]) =>
       /\ cluster \subseteq cluster'
       /\ \A s \in cluster' \ cluster : \A t \in cluster : ~SameObject(s, t)]_vars

\* Every attempt ends, whatever the API server answers.
AttemptsEnd == \A c \in Callers : (pc[c] = "create") ~> (pc[c] \in Ends)

\* Publisher implements SecretPublication.  An attempt has ensured its secret
\* once it is about to mount it, and its deployment refers to what it mounted.
Key(c) == [ns |-> deployment[c].ns, name |-> SecretName(c)]
Outcome ==
  [c \in Callers |-> IF pc[c] = "idle" THEN "none"
                     ELSE IF pc[c] \in Ends THEN pc[c] ELSE "running"]
EnsuredBy(c) ==
  IF vaultmap[c].type = "volume" /\ pc[c] \in {"mount", "ok"} THEN {Key(c)} ELSE {}
MountedBy(c) ==
  {[ns |-> deployment[c].ns, name |-> deployment[c].volumes[i].secretName] :
     i \in DOMAIN deployment[c].volumes \ DOMAIN DeploymentOf[c].volumes}
KeyOf(s) == [ns |-> s.ns, name |-> s.name]
ContentOf(s) == [file |-> s.file, data |-> s.data]
Stored == {<<KeyOf(s), ContentOf(s)>> : s \in cluster}

Publication == INSTANCE SecretPublication WITH
  Keys <- {KeyOf(s) : s \in Secrets}, Contents <- {ContentOf(s) : s \in Secrets},
  outcome <- Outcome, stored <- Stored,
  ensured <- [c \in Callers |-> EnsuredBy(c)], mounted <- [c \in Callers |-> MountedBy(c)]
PublicationSpec == Publication!Spec

\* What README.md:58 says of a published deployment: the file that is mounted
\* has, for all the secrets in Vault, an entry with their values.
MountedFileHasSecrets ==
  \A c \in Callers :
    (pc[c] = "ok" /\ vaultmap[c].type = "volume") =>
      \A s \in cluster : (s.ns = deployment[c].ns /\ s.name = SecretName(c)) =>
        s.file = FileName(c) /\ s.data = secrets[c]
=============================================================================
