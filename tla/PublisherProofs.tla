---------------------------- MODULE PublisherProofs ----------------------------
(***************************************************************************)
(* Proofs about Publisher, for any callers, deployments and VaultMaps: the *)
(* volume publisher leaves the deployment alone until its last step, so    *)
(* that the names it resolved stay what they were and an attempt that      *)
(* fails leaves no trace; what it mounts is what it found or created.      *)
(***************************************************************************)
EXTENDS Publisher, FiniteSetTheorems, SequenceTheorems, WellFoundedInduction, TLAPS

\* Before its last step an attempt to publish a volume is at one of these.
Before == {"idle", "create", "resolve", "list", "createSecret", "mount", "failed", "panic"}

Added(d, v, m) == [d EXCEPT !.volumes = Append(@, v), !.containers[1].mounts = Append(@, m)]
Published(c) == Added(Original(c), Volume(c), Mount(c))

\* What the environment publisher leaves of a deployment.
EnvInv(c) ==
  /\ vaultmap[c].type = "env"
  /\ IsDeployment(deployment[c])
  /\ deployment[c].volumes = Original(c).volumes
  /\ deployment[c] = Original(c) \/ DOMAIN deployment[c].containers # {}

\* What a caller's program counter stands for.
CallerInv(c) ==
  /\ pc[c] \in Before => deployment[c] = Original(c)
  /\ pc[c] = "env" => EnvInv(c)
  /\ pc[c] \in {"resolve", "list", "createSecret", "mount"} => vaultmap[c].type = "volume"
  /\ pc[c] \in {"list", "createSecret", "mount"} =>
       /\ Original(c).containers # <<>>
       /\ Executes(vaultmap[c].namePattern) /\ Executes(vaultmap[c].filePattern)
  /\ pc[c] = "ok" =>
       \/ EnvInv(c)
       \/ /\ vaultmap[c].type = "volume" /\ deployment[c] = Published(c)
          /\ Original(c).containers # <<>>
  /\ pc[c] = "panic" => Original(c).containers = <<>>

Functions ==
  /\ deployment = [c \in Callers |-> deployment[c]]
  /\ vaultmap = [c \in Callers |-> vaultmap[c]] /\ secrets = [c \in Callers |-> secrets[c]]
  /\ todo = [c \in Callers |-> todo[c]]

IInv == TypeOK /\ Functions /\ \A c \in Callers : CallerInv(c)

\* Only c did something to its own variables.
OnlyCaller(c) ==
  \A d \in Callers \ {c} :
    /\ pc'[d] = pc[d] /\ deployment'[d] = deployment[d]
    /\ vaultmap'[d] = vaultmap[d] /\ secrets'[d] = secrets[d]
-----------------------------------------------------------------------------
(* Deployments and names.                                                  *)

\* The parts of a deployment that has containers.
LEMMA OriginalParts ==
  ASSUME NEW c \in Callers, Original(c).containers # <<>>
  PROVE  /\ 1 \in DOMAIN Original(c).containers
         /\ Original(c).containers = [i \in DOMAIN Original(c).containers |-> Original(c).containers[i]]
         /\ Original(c).containers[1] \in
              [name : STRING, env : Seq([name : STRING, value : STRING]), mounts : {<<>>}]
<1> DEFINE Container == [name : STRING, env : Seq([name : STRING, value : STRING]), mounts : {<<>>}]
           cs == Original(c).containers
<1>1. cs \in Seq(Container)
  BY PublisherAssumption DEF Original
<1> HIDE DEF Container, cs
<1>2. cs # <<>>
  BY DEF cs
<1>3. 1 \in DOMAIN cs /\ cs = [i \in DOMAIN cs |-> cs[i]] /\ cs[1] \in Container
  BY <1>1, <1>2
<1> QED
  BY <1>3 DEF cs, Container

\* AppendMount by the parts of a deployment.
LEMMA AppendMountParts ==
  ASSUME NEW ns, NEW name, NEW cs, NEW vs, NEW m
  PROVE  AppendMount([ns |-> ns, name |-> name, containers |-> cs, volumes |-> vs], m) =
           [ns |-> ns, name |-> name,
            containers |-> [cs EXCEPT ![1] = [cs[1] EXCEPT !.mounts = Append(cs[1].mounts, m)]],
            volumes |-> vs]
BY DEF AppendMount

\* Appending a volume and a mount changes these two, and no name.
LEMMA AppendParts ==
  ASSUME NEW c \in Callers, Original(c).containers # <<>>, NEW v, NEW m, NEW d,
         d = AppendMount(AppendVolume(Original(c), v), m)
  PROVE  /\ d.volumes = Append(Original(c).volumes, v)
         /\ d.ns = Original(c).ns /\ d.name = Original(c).name
         /\ d.containers[1].name = Original(c).containers[1].name
         /\ d = Added(Original(c), v, m)
<1> DEFINE o == Original(c)
           e == AppendVolume(o, v)
<1>1. o = [ns |-> o.ns, name |-> o.name, containers |-> o.containers, volumes |-> o.volumes]
  BY PublisherAssumption DEF Original, IsDeployment
<1>2. e = [ns |-> o.ns, name |-> o.name, containers |-> o.containers, volumes |-> Append(o.volumes, v)]
  BY <1>1 DEF AppendVolume
<1> DEFINE one == o.containers[1]
           cs == [o.containers EXCEPT ![1] = [one EXCEPT !.mounts = Append(one.mounts, m)]]
<1>3. d = [ns |-> o.ns, name |-> o.name, containers |-> cs, volumes |-> Append(o.volumes, v)]
  <2>1. d = AppendMount([ns |-> o.ns, name |-> o.name, containers |-> o.containers,
                         volumes |-> Append(o.volumes, v)], m)
    BY <1>2
  <2> HIDE DEF o
  <2> QED
    BY <2>1, AppendMountParts, SMTT(30)
<1>4. cs[1].name = o.containers[1].name
  BY OriginalParts
<1>5. d = [o EXCEPT !.volumes = Append(@, v), !.containers[1].mounts = Append(@, m)]
  <2>1. d = AppendMount([o EXCEPT !.volumes = Append(@, v)], m)
    BY DEF AppendVolume
  <2> QED
    BY <2>1 DEF AppendMount
<1> HIDE DEF cs
<1>6. /\ d.volumes = Append(o.volumes, v) /\ d.ns = o.ns /\ d.name = o.name
      /\ d.containers[1].name = o.containers[1].name
  BY <1>3, <1>4
<1> QED
  BY <1>5, <1>6 DEF Added

\* Adding a variable keeps the volumes and the containers' number.
LEMMA EnvParts ==
  ASSUME NEW d, IsDeployment(d), NEW e
  PROVE  LET f == AppendEnv(d, e)
         IN  /\ IsDeployment(f) /\ f.volumes = d.volumes
             /\ DOMAIN f.containers = DOMAIN d.containers
BY DEF IsDeployment, AppendEnv
-----------------------------------------------------------------------------
(* The invariant.                                                          *)

\* At first every deployment is the original one.
LEMMA InitInv == Init => IInv
<1> SUFFICES ASSUME Init PROVE IInv
  OBVIOUS
<1>1. TypeOK
  BY PublisherAssumption DEF Init, TypeOK, Secrets
<1>2. Functions
  BY PublisherAssumption DEF Init, Functions
<1>3. ASSUME NEW c \in Callers
      PROVE  pc[c] = "idle" /\ deployment[c] = Original(c)
  BY DEF Init, Original
<1>4. \A c \in Callers : CallerInv(c)
  BY <1>3 DEF CallerInv
<1> QED
  BY <1>1, <1>2, <1>4 DEF IInv

\* The other callers see nothing of a step of c.
LEMMA OthersInv ==
  ASSUME NEW c \in Callers, OnlyCaller(c), NEW d \in Callers \ {c}, CallerInv(d)
  PROVE  CallerInv(d)'
<1>1. /\ pc'[d] = pc[d] /\ deployment'[d] = deployment[d]
      /\ vaultmap'[d] = vaultmap[d] /\ secrets'[d] = secrets[d]
  BY DEF OnlyCaller
<1>2. EnvInv(d)' = EnvInv(d) /\ Original(d)' = Original(d)
  BY <1>1 DEF EnvInv, Original
<1>3. Volume(d)' = Volume(d) /\ Mount(d)' = Mount(d)
  BY <1>1 DEF Volume, Mount, SecretName, FileName
<1>4. Published(d)' = Published(d)
  BY <1>2, <1>3 DEF Published
<1> QED
  BY <1>1, <1>2, <1>4 DEF CallerInv

\* A step that only moves a started caller on, and knows that much of the rest.
LEMMA OnlyPc ==
  ASSUME IInv, NEW c \in Callers, pc[c] # "idle",
         UNCHANGED <<deployment, vaultmap, secrets, todo, attempts, cluster>>,
         exists' \in [Callers -> BOOLEAN],
         \E l \in {"list", "createSecret", "mount"} \cup Ends : pc' = [pc EXCEPT ![c] = l]
  PROVE  TypeOK' /\ Functions' /\ OnlyCaller(c)
<1> USE DEF IInv
<1>1. /\ pc' \in [Callers -> {"idle", "create", "env", "resolve", "list", "createSecret",
                             "mount"} \cup Ends]
      /\ \A d \in Callers \ {c} : pc'[d] = pc[d]
  BY DEF TypeOK
<1>2. Functions' /\ OnlyCaller(c)
  BY <1>1 DEF Functions, OnlyCaller
<1>3. \A d \in Callers : pc'[d] # "idle" => vaultmap'[d] \in VaultMaps /\ secrets'[d] \in SecretMaps
  BY <1>1 DEF TypeOK
<1> QED
  BY <1>1, <1>2, <1>3 DEF TypeOK

\* A new attempt keeps the invariant.
LEMMA PublishInv ==
  ASSUME IInv, NEW c \in Callers, NEW vm \in VaultMaps, NEW m \in SecretMaps, Publish(c, vm, m)
  PROVE  TypeOK' /\ Functions' /\ OnlyCaller(c) /\ CallerInv(c)'
<1> USE DEF IInv, Goto
<1>1. TypeOK' /\ Functions' /\ OnlyCaller(c)
  <2>1. vaultmap'[c] = vm /\ secrets'[c] = m
    BY DEF Publish, Functions
  <2>2. Functions' /\ OnlyCaller(c)
    BY ZenonT(40) DEF Publish, Functions, OnlyCaller, TypeOK
  <2>3. attempts' \in [Callers -> 0..MaxAttempts]
    BY PublisherAssumption DEF Publish, TypeOK
  <2>4. /\ \A d \in Callers : pc'[d] # "idle" => vaultmap'[d] \in VaultMaps /\ secrets'[d] \in SecretMaps
        /\ pc' \in [Callers -> {"idle", "create", "env", "resolve", "list", "createSecret",
                               "mount"} \cup Ends]
    BY <2>1, <2>2 DEF Publish, TypeOK, OnlyCaller
  <2> QED
    BY <2>2, <2>3, <2>4 DEF Publish, TypeOK
<1>2. pc'[c] = "create" /\ deployment'[c] = Original(c)
  BY DEF Publish, TypeOK, CallerInv, Before
<1> QED
  BY <1>1, <1>2 DEF CallerInv, Original

\* Choosing the publisher keeps the invariant.
LEMMA CreatePublisherInv ==
  ASSUME IInv, NEW c \in Callers, CreatePublisher(c)
  PROVE  TypeOK' /\ Functions' /\ OnlyCaller(c) /\ CallerInv(c)'
<1> USE DEF IInv, Goto
<1>1. pc[c] = "create" /\ secrets[c] \in SecretMaps /\ deployment[c] = Original(c)
  BY DEF CreatePublisher, TypeOK, CallerInv, Before
<1>2. TypeOK' /\ Functions' /\ OnlyCaller(c)
  BY <1>1, SMTT(30) DEF CreatePublisher, TypeOK, Functions, OnlyCaller, Ends
<1>3. /\ \/ pc'[c] = "env" /\ vaultmap[c].type = "env"
         \/ pc'[c] = "resolve" /\ vaultmap[c].type = "volume"
         \/ pc'[c] = "failed"
      /\ UNCHANGED <<deployment, vaultmap, secrets>>
  BY DEF CreatePublisher, TypeOK
<1>4. pc'[c] = "env" => EnvInv(c)'
  BY <1>1, <1>3, PublisherAssumption DEF EnvInv, Original
<1> QED
  BY <1>1, <1>2, <1>3, <1>4 DEF CallerInv, Original

\* Adding a variable keeps the invariant.
LEMMA PublishEnvInv ==
  ASSUME IInv, NEW c \in Callers, NEW key \in todo[c], PublishEnv(c, key)
  PROVE  TypeOK' /\ Functions' /\ OnlyCaller(c) /\ CallerInv(c)'
<1> USE DEF IInv
<1>1. pc[c] = "env" /\ EnvInv(c) /\ UNCHANGED <<vaultmap, secrets>>
  BY DEF PublishEnv, CallerInv
<1>2. CASE deployment[c].containers = <<>>
  <2>1. pc' = [pc EXCEPT ![c] = "panic"] /\ UNCHANGED <<deployment, todo, vaultmap, secrets, attempts, exists, cluster>>
    BY <1>2 DEF PublishEnv, Goto
  <2>2. TypeOK' /\ Functions' /\ OnlyCaller(c)
    BY <1>1, <2>1 DEF TypeOK, Functions, OnlyCaller, Ends
  <2>3. deployment[c] = Original(c) /\ Original(c).containers = <<>>
    BY <1>1, <1>2 DEF EnvInv
  <2>4. pc'[c] = "panic"
    BY <2>1 DEF TypeOK
  <2> QED
    BY <2>1, <2>2, <2>3, <2>4 DEF CallerInv, Original
<1>3. CASE deployment[c].containers # <<>>
  <2> DEFINE f == AppendEnv(deployment[c], [name |-> key, value |-> secrets[c][key]])
  <2>1. /\ deployment' = [deployment EXCEPT ![c] = f]
        /\ todo' = [todo EXCEPT ![c] = @ \ {key}]
        /\ UNCHANGED <<pc, vaultmap, secrets, attempts, exists, cluster>>
    BY <1>3 DEF PublishEnv
  <2>2. /\ IsDeployment(f) /\ f.volumes = deployment[c].volumes
        /\ DOMAIN f.containers = DOMAIN deployment[c].containers
    BY <1>1, EnvParts DEF EnvInv
  <2>3. DOMAIN deployment[c].containers # {}
    <3>1. Original(c).containers # <<>> => DOMAIN Original(c).containers # {}
      BY OriginalParts
    <3> QED
      BY <1>1, <1>3, <3>1 DEF EnvInv
  <2> HIDE DEF f
  <2>4. TypeOK' /\ Functions' /\ OnlyCaller(c)
    <3>1. TypeOK'
      BY <1>1, <2>1 DEF TypeOK, Functions
    <3>2. Functions'
      BY <1>1, <2>1 DEF Functions
    <3>3. OnlyCaller(c)
      BY <1>1, <2>1 DEF OnlyCaller, Functions
    <3> QED
      BY <3>1, <3>2, <3>3
  <2>5. deployment'[c] = f
    BY <2>1 DEF Functions
  <2>6. EnvInv(c)'
    BY <1>1, <2>1, <2>2, <2>3, <2>5 DEF EnvInv, Original
  <2> QED
    BY <1>1, <2>1, <2>4, <2>6 DEF CallerInv, Before
<1> QED
  BY <1>2, <1>3

\* The end of the environment's loop keeps the invariant.
LEMMA ReturnEnvInv ==
  ASSUME IInv, NEW c \in Callers, ReturnEnv(c)
  PROVE  TypeOK' /\ Functions' /\ OnlyCaller(c) /\ CallerInv(c)'
<1> USE DEF IInv, Goto
<1>1. TypeOK' /\ Functions' /\ OnlyCaller(c)
  BY DEF ReturnEnv, TypeOK, Functions, OnlyCaller, Ends
<1>2. pc'[c] = "ok" /\ EnvInv(c) /\ UNCHANGED <<deployment, vaultmap>>
  BY DEF ReturnEnv, TypeOK, CallerInv
<1>3. EnvInv(c)'
  BY <1>2 DEF EnvInv, Original
<1> QED
  BY <1>1, <1>2, <1>3 DEF CallerInv, Before

\* Resolving the names keeps the invariant.
LEMMA ResolveTemplatesInv ==
  ASSUME IInv, NEW c \in Callers, ResolveTemplates(c)
  PROVE  TypeOK' /\ Functions' /\ OnlyCaller(c) /\ CallerInv(c)'
<1> USE DEF IInv, Goto
<1>1. /\ pc[c] = "resolve" /\ UNCHANGED <<deployment, vaultmap, secrets, todo, attempts, exists, cluster>>
      /\ exists' \in [Callers -> BOOLEAN]
      /\ \E l \in {"list", "createSecret", "mount"} \cup Ends : pc' = [pc EXCEPT ![c] = l]
      /\ \/ pc' = [pc EXCEPT ![c] = "panic"] /\ deployment[c].containers = <<>>
         \/ pc' = [pc EXCEPT ![c] = "failed"]
         \/ /\ pc' = [pc EXCEPT ![c] = "list"] /\ deployment[c].containers # <<>>
            /\ Executes(vaultmap[c].namePattern) /\ Executes(vaultmap[c].filePattern)
  BY DEF ResolveTemplates, Ends, TypeOK
<1>2. TypeOK' /\ Functions' /\ OnlyCaller(c)
  BY <1>1, OnlyPc
<1>3. deployment[c] = Original(c) /\ vaultmap[c].type = "volume"
  BY <1>1 DEF CallerInv, Before
<1>4. \/ pc'[c] = "panic" /\ Original(c).containers = <<>>
      \/ pc'[c] = "failed"
      \/ /\ pc'[c] = "list" /\ Original(c).containers # <<>>
         /\ Executes(vaultmap[c].namePattern) /\ Executes(vaultmap[c].filePattern)
  BY <1>1, <1>3 DEF TypeOK
<1> QED
  BY <1>1, <1>2, <1>3, <1>4 DEF CallerInv, Original

\* The List call keeps the invariant.
LEMMA SecretExistsInv ==
  ASSUME IInv, NEW c \in Callers, SecretExists(c)
  PROVE  TypeOK' /\ Functions' /\ OnlyCaller(c) /\ CallerInv(c)'
<1> USE DEF IInv, Goto
<1>1. /\ pc[c] = "list" /\ UNCHANGED <<deployment, vaultmap, secrets, todo, attempts, cluster>>
      /\ \E l \in {"mount", "createSecret", "failed"} : pc' = [pc EXCEPT ![c] = l]
      /\ \E l \in {"list", "createSecret", "mount"} \cup Ends : pc' = [pc EXCEPT ![c] = l]
  BY DEF SecretExists, Ends
<1>2. exists' \in [Callers -> BOOLEAN]
  <2>1. Found(c) \in BOOLEAN
    BY DEF Found
  <2>2. exists' = exists \/ \E b \in BOOLEAN : exists' = [exists EXCEPT ![c] = b]
    BY <2>1 DEF SecretExists
  <2> QED
    BY <2>2 DEF TypeOK
<1>3. TypeOK' /\ Functions' /\ OnlyCaller(c)
  BY <1>1, <1>2, OnlyPc
<1>4. pc'[c] \in {"mount", "createSecret", "failed"}
  BY <1>1 DEF TypeOK
<1> QED
  BY <1>1, <1>3, <1>4 DEF CallerInv, Before, Original

\* The secret to be created is one of those the model knows of.
LEMMA SecretForType ==
  ASSUME IInv, NEW c \in Callers, pc[c] = "createSecret"
  PROVE  SecretFor(c) \in Secrets
<1>1. /\ deployment[c] = Original(c) /\ Original(c).containers # <<>>
      /\ Executes(vaultmap[c].namePattern) /\ Executes(vaultmap[c].filePattern)
  BY DEF IInv, CallerInv, Before
<1>2. vaultmap[c] \in VaultMaps /\ secrets[c] \in SecretMaps
  BY DEF IInv, TypeOK
<1> QED
  BY <1>1, <1>2 DEF SecretFor, SecretName, FileName, Secrets, Original

\* The Create call, answered or not, keeps the invariant.
LEMMA CreateSecretInv ==
  ASSUME IInv, NEW c \in Callers, CreateSecret(c)
  PROVE  TypeOK' /\ Functions' /\ OnlyCaller(c) /\ CallerInv(c)'
<1> USE DEF IInv, Goto
<1>1. /\ pc[c] = "createSecret" /\ UNCHANGED <<deployment, vaultmap, secrets, todo, attempts, exists>>
      /\ \E l \in {"mount", "failed"} : pc' = [pc EXCEPT ![c] = l]
      /\ \/ cluster' = cluster
         \/ ~Found(c) /\ cluster' = cluster \cup {SecretFor(c)}
  BY DEF CreateSecret
<1>2. /\ cluster' \subseteq Secrets
      /\ \A s, t \in cluster' : SameObject(s, t) => s = t
  <2>1. ~Found(c) => \A s \in cluster : ~SameObject(s, SecretFor(c)) /\ ~SameObject(SecretFor(c), s)
    BY DEF Found, SameObject, SecretFor
  <2> QED
    BY <1>1, <2>1, SecretForType DEF TypeOK
<1>3. TypeOK' /\ Functions' /\ OnlyCaller(c)
  BY <1>1, <1>2 DEF TypeOK, Functions, OnlyCaller, Ends
<1>4. pc'[c] \in {"mount", "failed"}
  BY <1>1 DEF TypeOK
<1> QED
  BY <1>1, <1>3, <1>4 DEF CallerInv, Before, Original

\* The last step of the volume publisher leaves every name as it was.
LEMMA PublishVolumeNames ==
  ASSUME IInv, NEW c \in Callers, PublishVolume(c)
  PROVE  /\ SecretName(c)' = SecretName(c)
         /\ Volume(c)' = Volume(c) /\ Mount(c)' = Mount(c)
         /\ deployment'[c] = Published(c)' /\ deployment'[c].ns = deployment[c].ns
         /\ deployment'[c].volumes = Append(Original(c).volumes, Volume(c))
<1>1. deployment[c] = Original(c) /\ Original(c).containers # <<>> /\ pc[c] = "mount"
  BY DEF IInv, CallerInv, PublishVolume, Before
<1>2. deployment'[c] = AppendMount(AppendVolume(Original(c), Volume(c)), Mount(c))
      /\ vaultmap' = vaultmap
  BY <1>1 DEF PublishVolume, IInv, Functions
<1>3. /\ deployment'[c].ns = deployment[c].ns /\ deployment'[c].name = deployment[c].name
      /\ deployment'[c].containers[1].name = deployment[c].containers[1].name
      /\ deployment'[c].volumes = Append(Original(c).volumes, Volume(c))
      /\ deployment'[c] = Published(c)
  <2> DEFINE d == deployment'[c]
             v == Volume(c)
             m == Mount(c)
  <2>1. d = AppendMount(AppendVolume(Original(c), v), m)
    BY <1>2
  <2> HIDE DEF d, v, m
  <2>2. /\ d.volumes = Append(Original(c).volumes, v)
        /\ d.ns = Original(c).ns /\ d.name = Original(c).name
        /\ d.containers[1].name = Original(c).containers[1].name
        /\ d = Added(Original(c), v, m)
    BY <1>1, <2>1, AppendParts
  <2> QED
    BY <1>1, <2>2 DEF d, v, m, Published
<1>4. ASSUME NEW pattern
      PROVE  ResolveTemplate(deployment'[c], pattern) = ResolveTemplate(deployment[c], pattern)
  BY <1>3 DEF ResolveTemplate, PathConfig
<1>5. /\ SecretName(c)' = SecretName(c)
      /\ Volume(c)' = Volume(c) /\ Mount(c)' = Mount(c)
  BY <1>2, <1>4 DEF SecretName, FileName, Volume, Mount
<1>6. Published(c)' = Published(c)
  BY <1>5 DEF Published, Original
<1> QED
  BY <1>3, <1>5, <1>6

\* Adding volume and mount keeps the invariant.
LEMMA PublishVolumeInv ==
  ASSUME IInv, NEW c \in Callers, PublishVolume(c)
  PROVE  TypeOK' /\ Functions' /\ OnlyCaller(c) /\ CallerInv(c)'
<1> USE DEF IInv, Goto
<1>1. TypeOK' /\ Functions' /\ OnlyCaller(c)
  <2> DEFINE f == AppendMount(AppendVolume(deployment[c], Volume(c)), Mount(c))
  <2>1. /\ pc[c] = "mount" /\ pc' = [pc EXCEPT ![c] = "ok"]
        /\ deployment' = [deployment EXCEPT ![c] = f]
        /\ UNCHANGED <<vaultmap, secrets, todo, attempts, exists, cluster>>
    BY DEF PublishVolume
  <2> HIDE DEF f
  <2> QED
    BY <2>1, ZenonT(40) DEF TypeOK, Functions, OnlyCaller, Ends
<1>2. pc'[c] = "ok" /\ vaultmap'[c].type = "volume" /\ Original(c).containers # <<>>
  BY DEF PublishVolume, TypeOK, CallerInv
<1>3. deployment'[c] = Published(c)'
  BY PublishVolumeNames
<1> QED
  BY <1>1, <1>2, <1>3 DEF CallerInv, Before, Original

\* Every step keeps the invariant.
LEMMA StepInv == IInv /\ [Next]_vars => IInv'
<1> SUFFICES ASSUME IInv, [Next]_vars PROVE IInv'
  OBVIOUS
<1>1. ASSUME NEW c \in Callers, TypeOK' /\ Functions' /\ OnlyCaller(c) /\ CallerInv(c)'
      PROVE  IInv'
  BY <1>1, OthersInv DEF IInv
<1>2. ASSUME NEW c \in Callers, Step(c)
      PROVE  IInv'
  BY <1>1, <1>2, CreatePublisherInv, ReturnEnvInv, PublishEnvInv, ResolveTemplatesInv,
     SecretExistsInv, CreateSecretInv, PublishVolumeInv DEF Step
<1>3. ASSUME NEW c \in Callers, NEW vm \in VaultMaps, NEW m \in SecretMaps, Publish(c, vm, m)
      PROVE  IInv'
  BY <1>1, <1>3, PublishInv
<1>4. ASSUME NEW s \in cluster, DeleteSecret(s)
      PROVE  IInv'
  <2>1. TypeOK' /\ Functions'
    BY <1>4 DEF DeleteSecret, IInv, TypeOK, Functions, localVars
  <2>2. UNCHANGED <<pc, deployment, vaultmap, secrets>>
    BY <1>4 DEF DeleteSecret, localVars
  <2>3. ASSUME NEW c \in Callers
        PROVE  CallerInv(c)'
    BY <2>2 DEF IInv, CallerInv, EnvInv, Original, Published, Volume, Mount, SecretName, FileName
  <2> QED
    BY <2>1, <2>3 DEF IInv
<1>5. CASE UNCHANGED vars
  <2>1. TypeOK' /\ Functions'
    BY <1>5 DEF vars, localVars, IInv, TypeOK, Functions
  <2>2. ASSUME NEW c \in Callers
        PROVE  CallerInv(c)'
    BY <1>5 DEF vars, localVars, IInv, CallerInv, EnvInv, Original, Published, Volume, Mount,
       SecretName, FileName
  <2> QED
    BY <2>1, <2>2 DEF IInv
<1> QED
  BY <1>2, <1>3, <1>4, <1>5 DEF Next

\* The inductive invariant holds of every behaviour; the theorems below follow from it.
THEOREM InvAlways == Spec => []IInv
<1> QED
  BY InitInv, StepInv, PTL DEF Spec

\* Every variable keeps its type, and two secrets of one name never exist.
THEOREM TypeCorrect == Spec => []TypeOK
<1>1. IInv => TypeOK
  BY DEF IInv
<1> QED
  BY <1>1, InvAlways, PTL

\* An attempt that does not succeed leaves the deployment as it was; one for a
\* volume that does has added one volume and one mount, and one panics only
\* where there is no container.
THEOREM RetriesAreSafe == Spec => []RetrySafe
<1>1. ASSUME IInv, NEW c \in Callers
      PROVE  /\ pc[c] \notin {"env", "ok"} => deployment[c] = Original(c)
             /\ (pc[c] = "ok" /\ vaultmap[c].type # "env") =>
                  Original(c).containers # <<>> /\ deployment[c] = Published(c)
             /\ pc[c] = "panic" => Original(c).containers = <<>>
  <2>1. pc[c] \in Before \cup {"env", "ok"}
    BY <1>1 DEF IInv, TypeOK, Ends, Before
  <2> QED
    BY <1>1, <2>1 DEF IInv, CallerInv, EnvInv
<1>2. IInv => RetrySafe
  BY <1>1 DEF RetrySafe, Published, Added
<1> QED
  BY <1>2, InvAlways, PTL

\* No publisher changes a secret that exists.
THEOREM NothingOverwritten == Spec => NoOverwrite
<1>1. ASSUME Next, \E c \in Callers : pc'[c] # pc[c]
      PROVE  /\ cluster \subseteq cluster'
             /\ \A s \in cluster' \ cluster : \A t \in cluster : ~SameObject(s, t)
  <2>1. ASSUME NEW c \in Callers, CreateSecret(c)
        PROVE  /\ cluster \subseteq cluster'
               /\ \A s \in cluster' \ cluster : \A t \in cluster : ~SameObject(s, t)
    <3>1. \/ cluster' = cluster
          \/ ~Found(c) /\ cluster' = cluster \cup {SecretFor(c)}
      BY <2>1 DEF CreateSecret
    <3>2. ~Found(c) => \A t \in cluster : ~SameObject(SecretFor(c), t)
      BY DEF Found, SameObject, SecretFor
    <3> QED
      BY <3>1, <3>2
  <2>2. ASSUME NEW c \in Callers, Step(c), ~CreateSecret(c)
        PROVE  cluster' = cluster
    BY <2>2 DEF Step, CreatePublisher, ReturnEnv, PublishEnv, ResolveTemplates, SecretExists,
       PublishVolume
  <2>3. ASSUME NEW c \in Callers, NEW vm \in VaultMaps, NEW m \in SecretMaps, Publish(c, vm, m)
        PROVE  cluster' = cluster
    BY <2>3 DEF Publish
  <2>4. ASSUME NEW s \in cluster, DeleteSecret(s)
        PROVE  FALSE
    BY <1>1, <2>4 DEF DeleteSecret, localVars
  <2> QED
    BY <1>1, <2>1, <2>2, <2>3, <2>4 DEF Next
<1> QED
  BY <1>1, PTL DEF Spec, NoOverwrite
-----------------------------------------------------------------------------
(* What the environment publisher adds.                                    *)

WithEnv(d, env) == [d EXCEPT !.containers[1].env = env]
Old(c) == Original(c).containers[1].env
Env(c) == deployment[c].containers[1].env
Done(c) == DOMAIN secrets[c] \ todo[c]
Entries ==
  [name : STRING \cup UNION {DOMAIN m : m \in SecretMaps},
   value : STRING \cup UNION {{m[k] : k \in DOMAIN m} : m \in SecretMaps}]

\* Behind the old variables there is one for every key that is done.
Adds(old, env, m, done) ==
  /\ \A i \in 1..Len(old) : env[i] = old[i]
  /\ \A i \in Len(old) + 1..Len(env) : env[i].name \in done /\ env[i].value = m[env[i].name]
  /\ \A n \in done : \E i \in Len(old) + 1..Len(env) : env[i].name = n

EnvAdds(c) ==
  (pc[c] = "env" \/ (pc[c] = "ok" /\ vaultmap[c].type = "env")) =>
    /\ todo[c] \subseteq DOMAIN secrets[c]
    /\ pc[c] = "ok" => todo[c] = {}
    /\ deployment[c].containers = <<>> => todo[c] = DOMAIN secrets[c]
    /\ deployment[c].containers # <<>> =>
         /\ Original(c).containers # <<>>
         /\ Env(c) \in Seq(Entries)
         /\ deployment[c] = WithEnv(Original(c), Env(c))
         /\ Len(Env(c)) = Len(Old(c)) + Cardinality(Done(c))
         /\ Adds(Old(c), Env(c), secrets[c], Done(c))
EnvInvariant == \A c \in Callers : EnvAdds(c)

\* AppendEnv by the parts of a deployment.
LEMMA AppendEnvParts ==
  ASSUME NEW ns, NEW name, NEW cs, NEW vs, NEW e
  PROVE  AppendEnv([ns |-> ns, name |-> name, containers |-> cs, volumes |-> vs], e) =
           [ns |-> ns, name |-> name,
            containers |-> [cs EXCEPT ![1] = [cs[1] EXCEPT !.env = Append(cs[1].env, e)]],
            volumes |-> vs]
BY DEF AppendEnv

\* A deployment with another environment differs from the original in nothing else.
LEMMA WithEnvParts ==
  ASSUME NEW c \in Callers, Original(c).containers # <<>>, NEW env
  PROVE  LET d == WithEnv(Original(c), env)
         IN  /\ d.containers # <<>> /\ d.containers[1].env = env
             /\ \A x : AppendEnv(d, x) = WithEnv(Original(c), Append(env, x))
             /\ WithEnv(d, Old(c)) = Original(c)
             /\ WithEnv(Original(c), Old(c)) = Original(c)
<1> DEFINE o == Original(c)
           R(cs) == [ns |-> o.ns, name |-> o.name, containers |-> cs, volumes |-> o.volumes]
           One(e) == [name |-> o.containers[1].name, env |-> e, mounts |-> o.containers[1].mounts]
           CS(e) == [o.containers EXCEPT ![1] = One(e)]
<1>1. /\ o = R(o.containers) /\ 1 \in DOMAIN o.containers
      /\ o.containers = [i \in DOMAIN o.containers |-> o.containers[i]]
      /\ o.containers[1] = One(o.containers[1].env)
  BY OriginalParts, PublisherAssumption DEF Original, IsDeployment
<1>2. \A e : /\ CS(e) = [i \in DOMAIN o.containers |-> IF i = 1 THEN One(e) ELSE o.containers[i]]
             /\ CS(e)[1] = One(e) /\ DOMAIN CS(e) = DOMAIN o.containers
  BY <1>1
<1>3. CS(o.containers[1].env) = o.containers
  BY <1>1, <1>2
<1>4. \A e, x : [CS(e) EXCEPT ![1] = One(x)] = CS(x)
  BY <1>1, <1>2
<1>5. \A e, x : [CS(e) EXCEPT ![1] = [CS(e)[1] EXCEPT !.env = x]] = CS(x)
  <2>1. \A e, x : [One(e) EXCEPT !.env = x] = One(x)
    OBVIOUS
  <2> HIDE DEF CS, One
  <2> QED
    BY <1>2, <1>4, <2>1
<1> HIDE DEF CS
<1>6. \A e, x : WithEnv(R(CS(e)), x) = R(CS(x))
  <2>1. \A cs, x : WithEnv(R(cs), x) = R([cs EXCEPT ![1] = [cs[1] EXCEPT !.env = x]])
    BY DEF WithEnv
  <2> QED
    BY <1>5, <2>1
<1>7. ASSUME NEW e, NEW x
      PROVE  AppendEnv(R(CS(e)), x) = R(CS(Append(e, x)))
  <2>1. AppendEnv(R(CS(e)), x) =
          R([CS(e) EXCEPT ![1] = [CS(e)[1] EXCEPT !.env = Append(CS(e)[1].env, x)]])
    BY AppendEnvParts
  <2>2. CS(e)[1].env = e
    BY <1>2
  <2>3. [CS(e) EXCEPT ![1] = [CS(e)[1] EXCEPT !.env = Append(e, x)]] = CS(Append(e, x))
    BY <1>5
  <2> HIDE DEF R
  <2> QED
    BY <2>1, <2>2, <2>3
<1>8. o = R(CS(Old(c)))
  BY <1>1, <1>3 DEF Old
<1>9. \A x : WithEnv(o, x) = R(CS(x))
  BY <1>6, <1>8
<1>10. \A e : R(CS(e)).containers # <<>> /\ R(CS(e)).containers[1].env = e
  <2>1. \A e : R(CS(e)).containers = CS(e)
    OBVIOUS
  <2>2. \A e : CS(e)[1].env = e /\ 1 \in DOMAIN CS(e)
    BY <1>1, <1>2
  <2> QED
    BY <2>1, <2>2
<1> HIDE DEF o, R
<1> QED
  BY <1>6, <1>7, <1>8, <1>9, <1>10 DEF o

\* The original environment is a sequence of variables.
LEMMA OldEntries ==
  ASSUME NEW c \in Callers, Original(c).containers # <<>>
  PROVE  Old(c) \in Seq(Entries)
<1>1. Old(c) \in Seq([name : STRING, value : STRING])
  BY OriginalParts DEF Old
<1>2. [name : STRING, value : STRING] \subseteq Entries
  BY DEF Entries
<1> HIDE DEF Entries
<1> DEFINE S == [name : STRING, value : STRING]
<1> HIDE DEF S
<1>3. Old(c) \in Seq(S) /\ S \subseteq Entries
  BY <1>1, <1>2 DEF S
<1>4. /\ Len(Old(c)) \in Nat /\ Old(c) = [i \in 1..Len(Old(c)) |-> Old(c)[i]]
      /\ \A i \in 1..Len(Old(c)) : Old(c)[i] \in Entries
  BY <1>3
<1> QED
  BY <1>4

\* A variable behind the others adds its key to those that are done.
LEMMA AddsOne ==
  ASSUME NEW old \in Seq(Entries), NEW env \in Seq(Entries), NEW m, NEW done, NEW key,
         Len(env) >= Len(old), Adds(old, env, m, done),
         [name |-> key, value |-> m[key]] \in Entries
  PROVE  Adds(old, Append(env, [name |-> key, value |-> m[key]]), m, done \cup {key})
<1> DEFINE e == [name |-> key, value |-> m[key]]
           a == Append(env, e)
<1>1. e.name = key /\ e.value = m[key] /\ e \in Entries
  OBVIOUS
<1> HIDE DEF e
<1>2. /\ Len(a) = Len(env) + 1 /\ Len(env) \in Nat /\ Len(old) \in Nat
      /\ \A i \in 1..Len(env) : a[i] = env[i]
      /\ a[Len(env) + 1] = e
  BY <1>1, AppendProperties
<1> HIDE DEF a
<1>3. \A i \in 1..Len(old) : a[i] = old[i]
  BY <1>2 DEF Adds
<1>4. \A i \in Len(old) + 1..Len(a) : a[i].name \in done \cup {key} /\ a[i].value = m[a[i].name]
  <2>1. TAKE i \in Len(old) + 1..Len(a)
  <2>2. CASE i = Len(env) + 1
    BY <1>1, <1>2, <2>2
  <2>3. CASE i # Len(env) + 1
    <3>1. i \in Len(old) + 1..Len(env) /\ i \in 1..Len(env)
      BY <1>2, <2>3
    <3> QED
      BY <1>2, <3>1 DEF Adds
  <2> QED
    BY <2>2, <2>3
<1>5. ASSUME NEW n \in done \cup {key}
      PROVE  \E i \in Len(old) + 1..Len(a) : a[i].name = n
  <2>1. CASE n = key
    <3>1. Len(env) + 1 \in Len(old) + 1..Len(a)
      BY <1>2
    <3> QED
      BY <1>1, <1>2, <2>1, <3>1
  <2>2. CASE n \in done
    <3>1. PICK i \in Len(old) + 1..Len(env) : env[i].name = n
      BY <2>2 DEF Adds
    <3>2. i \in 1..Len(env) /\ i \in Len(old) + 1..Len(a)
      BY <1>2, <3>1
    <3> QED
      BY <1>2, <3>1, <3>2
  <2> QED
    BY <2>1, <2>2
<1> QED
  BY <1>3, <1>4, <1>5 DEF Adds, a, e

\* The parts of a step that the invariant is about.
LEMMA EnvSame ==
  ASSUME NEW c \in Callers, EnvAdds(c), pc'[c] = pc[c], deployment'[c] = deployment[c],
         vaultmap'[c] = vaultmap[c], secrets'[c] = secrets[c], todo'[c] = todo[c]
  PROVE  EnvAdds(c)'
<1>1. Env(c)' = Env(c) /\ Done(c)' = Done(c)
  BY DEF Env, Done
<1>2. Old(c)' = Old(c) /\ Original(c)' = Original(c)
  BY DEF Old, Original
<1>3. WithEnv(Original(c), Env(c))' = WithEnv(Original(c), Env(c))
  BY <1>1, <1>2 DEF WithEnv
<1>4. Adds(Old(c), Env(c), secrets[c], Done(c))' = Adds(Old(c), Env(c), secrets[c], Done(c))
  BY <1>1, <1>2 DEF Adds
<1>5. (Len(Env(c)) = Len(Old(c)) + Cardinality(Done(c)))' =
        (Len(Env(c)) = Len(Old(c)) + Cardinality(Done(c)))
  BY <1>1, <1>2
<1>6. (Env(c) \in Seq(Entries))' = (Env(c) \in Seq(Entries))
  BY <1>1 DEF Entries
<1> HIDE DEF Adds, WithEnv
<1> QED
  BY <1>1, <1>2, <1>3, <1>4, <1>5, <1>6 DEF EnvAdds

\* The environments of the other callers stay.
LEMMA EnvOthers ==
  ASSUME IInv, NEW c \in Callers, NEW d \in Callers \ {c}, EnvAdds(d), OnlyCaller(c),
         todo' = todo \/ \E S : todo' = [todo EXCEPT ![c] = S]
  PROVE  EnvAdds(d)'
<1>1. todo'[d] = todo[d]
  BY DEF IInv, Functions
<1> QED
  BY <1>1, EnvSame DEF OnlyCaller

\* When the loop begins nothing is added.
LEMMA CreatePublisherAdds ==
  ASSUME IInv, NEW c \in Callers, CreatePublisher(c)
  PROVE  EnvAdds(c)'
<1>1. /\ pc[c] = "create" /\ UNCHANGED <<deployment, vaultmap, secrets>>
      /\ todo'[c] = DOMAIN secrets[c] /\ pc'[c] # "ok" /\ deployment[c] = Original(c)
  BY DEF CreatePublisher, Goto, IInv, TypeOK, Functions, CallerInv, Before
<1>2. Done(c)' = {} /\ Cardinality({}) = 0
  BY <1>1, FS_EmptySet DEF Done
<1>3. ASSUME Original(c).containers # <<>>
      PROVE  /\ Env(c)' = Old(c) /\ Old(c) \in Seq(Entries)
             /\ Original(c) = WithEnv(Original(c), Old(c))
             /\ Len(Old(c)) = Len(Old(c)) + 0 /\ \A m : Adds(Old(c), Old(c), m, {})
  <2>1. Old(c) \in Seq(Entries) /\ Len(Old(c)) \in Nat
    BY <1>3, OldEntries
  <2> QED
    BY <1>1, <1>3, <2>1, WithEnvParts DEF Env, Old, Adds
<1>4. /\ Original(c)' = Original(c) /\ Old(c)' = Old(c)
  BY DEF Original, Old
<1> QED
  BY <1>1, <1>2, <1>3, <1>4 DEF EnvAdds

\* An iteration adds one variable.
LEMMA PublishEnvAdds ==
  ASSUME IInv, NEW c \in Callers, NEW key \in todo[c], PublishEnv(c, key), EnvAdds(c)
  PROVE  EnvAdds(c)'
<1> DEFINE e == [name |-> key, value |-> secrets[c][key]]
<1>1. pc[c] = "env" /\ UNCHANGED <<vaultmap, secrets>>
  BY DEF PublishEnv
<1>2. CASE deployment[c].containers = <<>>
  <2>1. pc'[c] = "panic"
    BY <1>1, <1>2 DEF PublishEnv, Goto, IInv, TypeOK
  <2> QED
    BY <2>1 DEF EnvAdds
<1>3. CASE deployment[c].containers # <<>>
  <2>1. /\ deployment'[c] = AppendEnv(deployment[c], e)
        /\ todo'[c] = todo[c] \ {key} /\ pc' = pc
    BY <1>3 DEF PublishEnv, IInv, Functions
  <2>2. /\ todo[c] \subseteq DOMAIN secrets[c] /\ Original(c).containers # <<>>
        /\ Env(c) \in Seq(Entries) /\ deployment[c] = WithEnv(Original(c), Env(c))
        /\ Len(Env(c)) = Len(Old(c)) + Cardinality(Done(c))
        /\ Adds(Old(c), Env(c), secrets[c], Done(c))
    BY <1>1, <1>3 DEF EnvAdds
  <2>3. secrets[c] \in SecretMaps /\ key \in DOMAIN secrets[c] /\ key \notin Done(c)
    BY <1>1, <2>2 DEF IInv, TypeOK, Done
  <2>4. e \in Entries
    BY <2>3 DEF Entries
  <2>5. /\ Done(c)' = Done(c) \cup {key}
        /\ Cardinality(Done(c) \cup {key}) = Cardinality(Done(c)) + 1 /\ Cardinality(Done(c)) \in Nat
    <3>1. IsFiniteSet(Done(c))
      BY <2>3, PublisherAssumption, FS_Subset DEF Done
    <3>2. Done(c)' = Done(c) \cup {key}
      BY <1>1, <2>1, <2>2, <2>3 DEF Done
    <3> QED
      BY <2>3, <3>1, <3>2, FS_AddElement, FS_CardinalityType
  <2> HIDE DEF e
  <2>6. deployment'[c] = WithEnv(Original(c), Append(Env(c), e))
    BY <2>1, <2>2, WithEnvParts
  <2>7. /\ Env(c)' = Append(Env(c), e) /\ deployment'[c].containers # <<>>
        /\ deployment'[c] = WithEnv(Original(c), Env(c)')
    <3>1. PICK env : env = Append(Env(c), e)
      OBVIOUS
    <3>2. /\ WithEnv(Original(c), env).containers # <<>>
          /\ WithEnv(Original(c), env).containers[1].env = env
      BY <2>2, WithEnvParts
    <3>3. Env(c)' = deployment'[c].containers[1].env
      BY DEF Env
    <3> QED
      BY <2>6, <3>1, <3>2, <3>3
  <2>8. Old(c) \in Seq(Entries)
    BY <2>2, OldEntries
  <2> HIDE DEF e
  <2>9. Adds(Old(c), Append(Env(c), e), secrets[c], Done(c) \cup {key})
    <3>1. Len(Env(c)) >= Len(Old(c))
      BY <2>2, <2>5, <2>8
    <3> QED
      BY <2>2, <2>4, <2>8, <3>1, AddsOne DEF e
  <2>10. Append(Env(c), e) \in Seq(Entries) /\ Len(Append(Env(c), e)) = Len(Env(c)) + 1
    BY <2>2, <2>4, AppendProperties
  <2>11. Len(Env(c)') = Len(Old(c)) + Cardinality(Done(c)')
    <3>1. Len(Old(c)) \in Nat
      BY <2>8
    <3> QED
      BY <2>2, <2>5, <2>7, <2>10, <3>1
  <2>12. Original(c)' = Original(c) /\ Old(c)' = Old(c)
    BY DEF Original, Old
  <2>13. Env(c)' \in Seq(Entries) /\ Adds(Old(c), Env(c)', secrets[c], Done(c)')
    BY <2>5, <2>7, <2>9, <2>10
  <2> QED
    BY <1>1, <2>1, <2>2, <2>7, <2>11, <2>12, <2>13 DEF EnvAdds, Adds, WithEnv, Entries
<1> QED
  BY <1>2, <1>3

\* An attempt that starts or publishes a volume is not about the environment.
LEMMA NotEnv ==
  ASSUME IInv, NEW c \in Callers,
         ResolveTemplates(c) \/ SecretExists(c) \/ CreateSecret(c) \/ PublishVolume(c)
  PROVE  EnvAdds(c)'
<1>1. pc[c] \in {"resolve", "list", "createSecret", "mount"} /\ vaultmap' = vaultmap
  BY DEF ResolveTemplates, SecretExists, CreateSecret, PublishVolume
<1>2. vaultmap'[c].type = "volume"
  BY <1>1 DEF IInv, CallerInv
<1>3. pc'[c] # "env"
  BY DEF ResolveTemplates, SecretExists, CreateSecret, PublishVolume, Goto, IInv, TypeOK
<1> QED
  BY <1>2, <1>3 DEF EnvAdds

\* When the loop ends every key is added.
LEMMA ReturnEnvAdds ==
  ASSUME IInv, NEW c \in Callers, ReturnEnv(c), EnvAdds(c)
  PROVE  EnvAdds(c)'
<1>1. /\ pc[c] = "env" /\ todo[c] = {} /\ pc'[c] = "ok"
      /\ UNCHANGED <<deployment, vaultmap, secrets, todo>>
  BY DEF ReturnEnv, Goto, IInv, TypeOK
<1>2. /\ Env(c)' = Env(c) /\ Old(c)' = Old(c) /\ Done(c)' = Done(c) /\ Original(c)' = Original(c)
  BY <1>1 DEF Env, Old, Done, Original
<1>3. WithEnv(Original(c), Env(c))' = WithEnv(Original(c), Env(c))
  BY <1>2 DEF WithEnv
<1>4. Adds(Old(c), Env(c), secrets[c], Done(c))' = Adds(Old(c), Env(c), secrets[c], Done(c))
  BY <1>1, <1>2 DEF Adds
<1>5. (Env(c) \in Seq(Entries))' = (Env(c) \in Seq(Entries))
  BY <1>2 DEF Entries
<1> HIDE DEF Adds, WithEnv
<1> QED
  BY <1>1, <1>2, <1>3, <1>4, <1>5 DEF EnvAdds

\* At first nothing is added.
LEMMA InitEnv == Init => EnvInvariant
BY DEF Init, EnvInvariant, EnvAdds

\* Every step keeps what is known of the environments.
LEMMA StepEnv == IInv /\ EnvInvariant /\ [Next]_vars => EnvInvariant'
<1> SUFFICES ASSUME IInv, EnvInvariant, [Next]_vars PROVE EnvInvariant'
  OBVIOUS
<1>1. ASSUME NEW c \in Callers, OnlyCaller(c), EnvAdds(c)',
             todo' = todo \/ \E S : todo' = [todo EXCEPT ![c] = S]
      PROVE  EnvInvariant'
  <2>1. ASSUME NEW d \in Callers \ {c}
        PROVE  EnvAdds(d)'
    BY <1>1, EnvOthers DEF EnvInvariant
  <2> QED
    BY <1>1, <2>1 DEF EnvInvariant
<1>2. ASSUME NEW c \in Callers, CreatePublisher(c)
      PROVE  EnvInvariant'
  <2>1. \E S : todo' = [todo EXCEPT ![c] = S]
    BY <1>2 DEF CreatePublisher
  <2> QED
    BY <1>1, <1>2, <2>1, CreatePublisherInv, CreatePublisherAdds
<1>3. ASSUME NEW c \in Callers, ReturnEnv(c)
      PROVE  EnvInvariant'
  <2>1. todo' = todo
    BY <1>3 DEF ReturnEnv
  <2>2. EnvAdds(c)'
    BY <1>3, ReturnEnvAdds DEF EnvInvariant
  <2> QED
    BY <1>1, <1>3, <2>1, <2>2, ReturnEnvInv
<1>4. ASSUME NEW c \in Callers, NEW key \in todo[c], PublishEnv(c, key)
      PROVE  EnvInvariant'
  <2>1. todo' = todo \/ \E S : todo' = [todo EXCEPT ![c] = S]
    BY <1>4 DEF PublishEnv
  <2>2. EnvAdds(c)'
    BY <1>4, PublishEnvAdds DEF EnvInvariant
  <2> QED
    BY <1>1, <1>4, <2>1, <2>2, PublishEnvInv
<1>5. ASSUME NEW c \in Callers,
             ResolveTemplates(c) \/ SecretExists(c) \/ CreateSecret(c) \/ PublishVolume(c)
      PROVE  EnvInvariant'
  <2>1. todo' = todo
    BY <1>5 DEF ResolveTemplates, SecretExists, CreateSecret, PublishVolume
  <2>2. OnlyCaller(c)
    BY <1>5, ResolveTemplatesInv, SecretExistsInv, CreateSecretInv, PublishVolumeInv
  <2> QED
    BY <1>1, <1>5, <2>1, <2>2, NotEnv
<1>6. ASSUME NEW c \in Callers, NEW vm \in VaultMaps, NEW m \in SecretMaps, Publish(c, vm, m)
      PROVE  EnvInvariant'
  <2>1. todo' = todo /\ pc'[c] = "create"
    BY <1>6 DEF Publish, Goto, IInv, TypeOK
  <2>2. EnvAdds(c)'
    BY <2>1 DEF EnvAdds
  <2> QED
    BY <1>1, <1>6, <2>1, <2>2, PublishInv
<1>7. ASSUME NEW c \in Callers, UNCHANGED localVars
      PROVE  EnvAdds(c)'
  BY <1>7, EnvSame DEF EnvInvariant, localVars
<1>8. (UNCHANGED vars \/ \E s \in cluster : DeleteSecret(s)) => EnvInvariant'
  BY <1>7 DEF EnvInvariant, vars, DeleteSecret
<1> QED
  BY <1>2, <1>3, <1>4, <1>5, <1>6, <1>8 DEF Next, Step

\* What is known of the environments holds of every behaviour.
LEMMA EnvAlways == Spec => []EnvInvariant
<1> QED
  BY InvAlways, InitEnv, StepEnv, PTL DEF Spec

\* A set of numbers has a smallest one, and a bounded one has a largest.
LEMMA SmallestExists ==
  ASSUME NEW S \in SUBSET Nat, S # {}
  PROVE  \E x \in S : \A y \in S : x <= y
<1>1. PICK x \in S : \A y \in S : ~(<<y, x>> \in OpToRel(<, Nat))
  BY NatLessThanWellFounded, WFMin
<1>2. \A y \in S : ~(y < x)
  BY <1>1, Zenon DEF OpToRel
<1> QED
  BY <1>2

\* A bounded set of numbers has a largest one.
LEMMA LargestExists ==
  ASSUME NEW n \in Nat, NEW S \in SUBSET (0..n), S # {}
  PROVE  \E x \in S : \A y \in S : y <= x
<1> DEFINE T == {m \in Nat : n - m \in S}
<1>1. T # {}
  <2>1. PICK y \in S : TRUE
    OBVIOUS
  <2>2. n - y \in Nat /\ n - (n - y) = y
    BY <2>1
  <2> QED
    BY <2>1, <2>2
<1>2. PICK m \in T : \A y \in T : m <= y
  BY <1>1, SmallestExists
<1>3. n - m \in S
  BY <1>2
<1>4. ASSUME NEW y \in S
      PROVE  y <= n - m
  <2>1. n - y \in Nat /\ n - (n - y) = y
    OBVIOUS
  <2>2. n - y \in T
    BY <2>1
  <2>3. m <= n - y /\ m \in Nat
    BY <1>2, <2>2
  <2> QED
    BY <2>1, <2>3
<1> QED
  BY <1>3, <1>4

\* The last definition of a variable that is done is the secret's.
LEMMA EffectiveNew ==
  ASSUME NEW old \in Seq(Entries), NEW env \in Seq(Entries), NEW m, NEW done, NEW n \in done,
         Adds(old, env, m, done)
  PROVE  Effective(env, n) = m[n]
<1> DEFINE defs == {i \in DOMAIN env : env[i].name = n}
<1>1. Len(env) \in Nat /\ Len(old) \in Nat /\ DOMAIN env = 1..Len(env)
  OBVIOUS
<1>2. PICK k \in Len(old) + 1..Len(env) : env[k].name = n
  BY DEF Adds
<1>3. k \in defs /\ defs \in SUBSET (0..Len(env))
  BY <1>1, <1>2
<1> HIDE DEF defs
<1>4. \E i \in defs : \A j \in defs : j <= i
  BY <1>1, <1>3, LargestExists
<1>5. PICK i \in defs : /\ \A j \in defs : j <= i
                        /\ i = CHOOSE x \in defs : \A j \in defs : j <= x
  BY <1>4
<1>6. i \in Len(old) + 1..Len(env) /\ env[i].name = n
  BY <1>1, <1>2, <1>3, <1>5 DEF defs
<1>7. env[i].value = m[n]
  BY <1>6 DEF Adds
<1> QED
  BY <1>3, <1>5, <1>7 DEF Effective, defs

\* The others are defined where they were.
LEMMA EffectiveOld ==
  ASSUME NEW old \in Seq(Entries), NEW env \in Seq(Entries), NEW m, NEW done, NEW n,
         n \notin done, Len(old) <= Len(env), Adds(old, env, m, done)
  PROVE  Effective(env, n) = Effective(old, n)
<1> DEFINE defs == {i \in DOMAIN env : env[i].name = n}
<1>1. /\ Len(env) \in Nat /\ Len(old) \in Nat
      /\ DOMAIN env = 1..Len(env) /\ DOMAIN old = 1..Len(old)
  OBVIOUS
<1>2. defs = {i \in DOMAIN old : old[i].name = n}
  <2>1. ASSUME NEW i \in DOMAIN env, env[i].name = n
        PROVE  i \in DOMAIN old
    BY <1>1, <2>1 DEF Adds
  <2>2. ASSUME NEW i \in DOMAIN old
        PROVE  i \in DOMAIN env /\ env[i] = old[i]
    BY <1>1 DEF Adds
  <2> QED
    BY <2>1, <2>2
<1>3. defs \in SUBSET (0..Len(old))
  BY <1>1, <1>2
<1>4. \A i \in defs : env[i] = old[i]
  BY <1>1, <1>2 DEF Adds
<1>5. CASE defs = {}
  BY <1>2, <1>5 DEF Effective
<1>6. CASE defs # {}
  <2> HIDE DEF defs
  <2>1. \E i \in defs : \A j \in defs : j <= i
    BY <1>1, <1>3, <1>6, LargestExists
  <2>2. (CHOOSE i \in defs : \A j \in defs : j <= i) \in defs
    BY <2>1
  <2> DEFINE last == CHOOSE i \in defs : \A j \in defs : j <= i
  <2>3. Effective(env, n) = env[last].value
    BY <1>6 DEF Effective, defs
  <2>4. Effective(old, n) = old[last].value
    BY <1>2, <1>6 DEF Effective
  <2> HIDE DEF last
  <2> QED
    BY <1>4, <2>2, <2>3, <2>4 DEF last
<1> QED
  BY <1>5, <1>6

\* The last definition of each name is the secret's or, if it has none, the old one.
LEMMA EnvComplete == IInv /\ EnvInvariant => EnvironmentComplete
<1>a. ASSUME IInv, EnvInvariant, NEW c \in Callers, pc[c] = "ok" /\ vaultmap[c].type = "env"
      PROVE  IF Original(c).containers = <<>>
             THEN DOMAIN secrets[c] = {} /\ deployment[c] = Original(c)
             ELSE deployment[c].containers # <<>>
  <2>1. EnvInv(c)
    BY <1>a DEF IInv, CallerInv
  <2>2. deployment[c].containers = <<>> =>
          deployment[c] = Original(c) /\ DOMAIN secrets[c] = {}
    BY <1>a, <2>1 DEF EnvInv, EnvInvariant, EnvAdds
  <2>3. deployment[c].containers # <<>> => Original(c).containers # <<>>
    BY <1>a DEF EnvInvariant, EnvAdds
  <2> QED
    BY <2>2, <2>3
<1> SUFFICES ASSUME IInv, EnvInvariant, NEW c \in Callers,
                    pc[c] = "ok" /\ vaultmap[c].type = "env" /\ deployment[c].containers # <<>>
             PROVE  LET env == deployment[c].containers[1].env
                        old == Original(c).containers[1].env
                        names == DOMAIN secrets[c] \cup {old[i].name : i \in DOMAIN old}
                    IN  /\ \A n \in names :
                             Effective(env, n) = IF n \in DOMAIN secrets[c] THEN secrets[c][n]
                                                 ELSE Effective(old, n)
                        /\ Len(env) = Len(old) + Cardinality(DOMAIN secrets[c])
                        /\ [deployment[c] EXCEPT !.containers[1].env = old] = Original(c)
  BY <1>a DEF EnvironmentComplete
<1>1. /\ Original(c).containers # <<>> /\ Env(c) \in Seq(Entries)
      /\ deployment[c] = WithEnv(Original(c), Env(c))
      /\ Len(Env(c)) = Len(Old(c)) + Cardinality(Done(c))
      /\ Adds(Old(c), Env(c), secrets[c], Done(c))
      /\ todo[c] = {}
  BY DEF EnvInvariant, EnvAdds
<1>2. Done(c) = DOMAIN secrets[c]
  BY <1>1 DEF Done
<1>3. Old(c) \in Seq(Entries)
  BY <1>1, OldEntries
<1>4. Len(Old(c)) <= Len(Env(c))
  <2>1. secrets[c] \in SecretMaps
    BY DEF IInv, TypeOK
  <2>2. Cardinality(Done(c)) \in Nat
    BY <1>2, <2>1, PublisherAssumption, FS_CardinalityType
  <2> QED
    BY <1>1, <1>3, <2>2
<1>5. \A n : Effective(Env(c), n) = IF n \in DOMAIN secrets[c] THEN secrets[c][n]
                                    ELSE Effective(Old(c), n)
  <2> TAKE n
  <2>1. n \in DOMAIN secrets[c] => Effective(Env(c), n) = secrets[c][n]
    BY <1>1, <1>2, <1>3, EffectiveNew
  <2>2. n \notin DOMAIN secrets[c] => Effective(Env(c), n) = Effective(Old(c), n)
    BY <1>1, <1>2, <1>3, <1>4, EffectiveOld
  <2> QED
    BY <2>1, <2>2
<1>6. WithEnv(deployment[c], Old(c)) = Original(c)
  BY <1>1, WithEnvParts
<1>7. Len(Env(c)) = Len(Old(c)) + Cardinality(DOMAIN secrets[c])
  BY <1>1, <1>2
<1>8. [deployment[c] EXCEPT !.containers[1].env = Old(c)] = Original(c)
  BY <1>6 DEF WithEnv
<1> QED
  BY <1>5, <1>7, <1>8 DEF Env, Old

\* Once the environment publisher succeeds, the first container sees every
\* secret, its other variables as before, and nothing else has changed.
THEOREM EnvironmentGetsAll == Spec => []EnvironmentComplete
<1> QED
  BY InvAlways, EnvAlways, EnvComplete, PTL
-----------------------------------------------------------------------------
(* Why attempts end: the part of AttemptsEnd that needs no fairness.  Only *)
(* a new attempt adds to the work that is before a caller, each step of    *)
(* its own takes from it, and whatever the API server answers and other    *)
(* clients do, the attempt has a next step.                                *)

\* The keys the environment publisher has still to add.
KeysLeft(c) ==
  IF pc[c] = "create" THEN DOMAIN secrets[c] ELSE IF pc[c] = "env" THEN todo[c] ELSE {}

\* The steps that are before a caller at most.
Ahead(l) ==
  CASE l = "create" -> 5 [] l = "resolve" -> 4 [] l = "list" -> 3 [] l = "createSecret" -> 2
    [] l \in {"mount", "env"} -> 1 [] OTHER -> 0
Work(c) == Ahead(pc[c]) + Cardinality(KeysLeft(c))

\* An attempt is a bounded number of steps, the number of secrets and five at
\* most; nothing but the next attempt adds to them.
AttemptsAreBounded ==
  [][\A c \in Callers :
       /\ Step(c) => Work(c)' < Work(c)
       /\ attempts'[c] = attempts[c] => Work(c)' <= Work(c)]_vars

\* Exactly the callers that are inside an attempt have work, and while the
\* environment publisher's loop goes on, it visits keys of the map it was given.
WorkIsLeft ==
  \A c \in Callers :
    /\ Work(c) \in Nat
    /\ Work(c) = 0 <=> pc[c] \in {"idle"} \cup Ends
    /\ pc[c] = "env" => todo[c] \subseteq DOMAIN secrets[c]

\* What a caller has before it is a number, as Go's maps are finite.
LEMMA WorkType ==
  ASSUME IInv, EnvInvariant, NEW c \in Callers
  PROVE  /\ IsFiniteSet(KeysLeft(c)) /\ Cardinality(KeysLeft(c)) \in Nat
         /\ pc[c] = "env" => todo[c] \subseteq DOMAIN secrets[c]
         /\ pc[c] \notin {"create", "env"} => Cardinality(KeysLeft(c)) = 0
<1>1. pc[c] = "env" => todo[c] \subseteq DOMAIN secrets[c]
  BY DEF EnvInvariant, EnvAdds
<1>2. pc[c] \in {"create", "env"} => IsFiniteSet(DOMAIN secrets[c])
  BY PublisherAssumption DEF IInv, TypeOK
<1>3. KeysLeft(c) = {} \/ (pc[c] \in {"create", "env"} /\ KeysLeft(c) \subseteq DOMAIN secrets[c])
  BY <1>1 DEF KeysLeft
<1>4. IsFiniteSet(KeysLeft(c))
  BY <1>2, <1>3, FS_EmptySet, FS_Subset
<1>5. pc[c] \notin {"create", "env"} => Cardinality(KeysLeft(c)) = 0
  BY FS_EmptySet DEF KeysLeft
<1> QED
  BY <1>1, <1>4, <1>5, FS_CardinalityType

\* Whatever a step of another caller or another client does, it is not here.
LEMMA SameWork ==
  ASSUME NEW c \in Callers, pc'[c] = pc[c], secrets'[c] = secrets[c], todo'[c] = todo[c]
  PROVE  Work(c)' = Work(c)
<1>1. KeysLeft(c)' = KeysLeft(c)
  BY DEF KeysLeft
<1> QED
  BY <1>1 DEF Work

\* Every step of a caller takes from its work and from nobody else's.
LEMMA StepTakesWork ==
  ASSUME IInv, EnvInvariant, NEW c \in Callers, Step(c)
  PROVE  /\ Work(c)' \in Int /\ Work(c)' < Work(c)
         /\ \A d \in Callers \ {c} : Work(d)' = Work(d)
<1> DEFINE left == Cardinality(KeysLeft(c))
<1> USE DEF Goto
<1>1. /\ left \in Nat
      /\ pc[c] \notin {"create", "env"} => left = 0
      /\ pc'[c] \notin {"create", "env"} => left' = 0
  <2>1. left \in Nat /\ (pc[c] \notin {"create", "env"} => left = 0)
    BY WorkType
  <2>2. pc'[c] \notin {"create", "env"} => KeysLeft(c)' = {}
    BY DEF KeysLeft
  <2> QED
    BY <2>1, <2>2, FS_EmptySet
<1>2. OnlyCaller(c)
  BY CreatePublisherInv, ReturnEnvInv, PublishEnvInv, ResolveTemplatesInv, SecretExistsInv,
     CreateSecretInv, PublishVolumeInv DEF Step
<1>3. \A d \in Callers \ {c} : todo'[d] = todo[d]
  BY DEF Step, CreatePublisher, ReturnEnv, PublishEnv, ResolveTemplates, SecretExists, CreateSecret,
     PublishVolume, IInv, Functions
<1>4. \A d \in Callers \ {c} : Work(d)' = Work(d)
  BY <1>2, <1>3, SameWork DEF OnlyCaller
<1>5. \/ /\ pc[c] = "create" /\ pc'[c] \in {"env", "resolve", "failed"}
         /\ pc'[c] = "env" => left' = left
      \/ pc[c] = "env" /\ pc'[c] \in {"ok", "panic"}
      \/ pc[c] = "env" /\ pc'[c] = "env" /\ left' = left - 1
      \/ pc[c] = "resolve" /\ pc'[c] \in {"panic", "list", "failed"}
      \/ pc[c] = "list" /\ pc'[c] \in {"mount", "createSecret", "failed"}
      \/ pc[c] = "createSecret" /\ pc'[c] \in {"mount", "failed"}
      \/ pc[c] = "mount" /\ pc'[c] = "ok"
  <2> HIDE DEF left
  <2>1. CASE CreatePublisher(c)
    <3>1. pc[c] = "create" /\ pc'[c] \in {"env", "resolve", "failed"}
      BY <2>1 DEF CreatePublisher, IInv, TypeOK
    <3>2. todo'[c] = DOMAIN secrets[c]
      BY <2>1 DEF CreatePublisher, IInv, Functions
    <3>3. pc'[c] = "env" => KeysLeft(c)' = KeysLeft(c)
      BY <3>1, <3>2 DEF KeysLeft
    <3> QED
      BY <3>1, <3>3 DEF left
  <2>2. CASE ReturnEnv(c)
    BY <2>2 DEF ReturnEnv, IInv, TypeOK
  <2>3. ASSUME NEW key \in todo[c], PublishEnv(c, key)
        PROVE  pc[c] = "env" /\ (pc'[c] = "panic" \/ (pc'[c] = "env" /\ left' = left - 1))
    <3>1. CASE deployment[c].containers = <<>>
      BY <2>3, <3>1 DEF PublishEnv, IInv, TypeOK
    <3>2. CASE deployment[c].containers # <<>>
      <4>1. pc[c] = "env" /\ pc' = pc /\ todo' = [todo EXCEPT ![c] = @ \ {key}]
        BY <2>3, <3>2 DEF PublishEnv
      <4>2. todo'[c] = todo[c] \ {key}
        BY <4>1 DEF IInv, Functions
      <4>3. KeysLeft(c) = todo[c] /\ KeysLeft(c)' = todo[c] \ {key}
        BY <4>1, <4>2 DEF KeysLeft
      <4>4. IsFiniteSet(todo[c])
        BY <4>3, WorkType
      <4> QED
        BY <4>1, <4>3, <4>4, <2>3, FS_RemoveElement DEF left
    <3> QED
      BY <3>1, <3>2
  <2>4. CASE ResolveTemplates(c)
    BY <2>4 DEF ResolveTemplates, IInv, TypeOK
  <2>5. CASE SecretExists(c)
    BY <2>5 DEF SecretExists, IInv, TypeOK
  <2>6. CASE CreateSecret(c)
    BY <2>6 DEF CreateSecret, IInv, TypeOK
  <2>7. CASE PublishVolume(c)
    BY <2>7 DEF PublishVolume, IInv, TypeOK
  <2> QED
    BY <2>1, <2>2, <2>3, <2>4, <2>5, <2>6, <2>7 DEF Step
<1>6. Work(c) = Ahead(pc[c]) + left /\ Work(c)' = Ahead(pc'[c]) + left'
  BY DEF Work
<1> HIDE DEF left
<1>7. Work(c)' \in Int /\ Work(c)' < Work(c)
  BY <1>1, <1>5, <1>6 DEF Ahead
<1> QED
  BY <1>4, <1>7

\* An attempt is a bounded number of steps, in whatever order the other
\* callers, the API server and its other clients take theirs.
THEOREM AttemptsTakeBoundedSteps == Spec => AttemptsAreBounded
<1>1. ASSUME IInv, EnvInvariant, [Next]_vars, NEW c \in Callers
      PROVE  /\ Step(c) => Work(c)' < Work(c)
             /\ attempts'[c] = attempts[c] => Work(c)' <= Work(c)
  <2>1. Work(c) \in Nat
    BY <1>1, WorkType DEF Work, Ahead
  <2>2. ASSUME NEW d \in Callers, Step(d)
        PROVE  d # c => Work(c)' = Work(c)
    BY <1>1, <2>2, StepTakesWork
  <2>3. ASSUME Step(c)
        PROVE  Work(c)' \in Int /\ Work(c)' < Work(c)
    BY <1>1, <2>3, StepTakesWork
  <2>4. ASSUME NEW d \in Callers, NEW vm \in VaultMaps, NEW m \in SecretMaps, Publish(d, vm, m)
        PROVE  attempts'[c] = attempts[c] => Work(c)' = Work(c)
    <3>1. d = c => attempts'[c] = attempts[c] + 1 /\ attempts[c] \in Nat
      BY <1>1, <2>4, PublisherAssumption DEF Publish, IInv, TypeOK
    <3>2. d # c => pc'[c] = pc[c] /\ secrets'[c] = secrets[c]
      BY <1>1, <2>4, PublishInv DEF OnlyCaller
    <3>3. todo' = todo
      BY <2>4 DEF Publish
    <3> QED
      BY <3>1, <3>2, <3>3, SameWork
  <2>5. (UNCHANGED vars \/ \E s \in cluster : DeleteSecret(s)) => Work(c)' = Work(c)
    <3>1. (UNCHANGED vars \/ \E s \in cluster : DeleteSecret(s)) => UNCHANGED <<pc, secrets, todo>>
      BY DEF vars, DeleteSecret, localVars
    <3> QED
      BY <3>1, SameWork
  <2>6. Step(c) => Work(c)' < Work(c) /\ Work(c)' <= Work(c)
    BY <2>1, <2>3
  <2> QED
    BY <1>1, <2>1, <2>2, <2>4, <2>5, <2>6 DEF Next
<1>2. IInv /\ EnvInvariant /\ [Next]_vars =>
        \A c \in Callers :
          /\ Step(c) => Work(c)' < Work(c)
          /\ attempts'[c] = attempts[c] => Work(c)' <= Work(c)
  BY <1>1
<1> QED
  BY <1>2, InvAlways, EnvAlways, PTL DEF Spec, AttemptsAreBounded

\* Inside an attempt a caller has work, before and after it has none.
THEOREM AttemptsHaveWork == Spec => []WorkIsLeft
<1>1. ASSUME IInv, EnvInvariant, NEW c \in Callers
      PROVE  /\ Work(c) \in Nat
             /\ Work(c) = 0 <=> pc[c] \in {"idle"} \cup Ends
             /\ pc[c] = "env" => todo[c] \subseteq DOMAIN secrets[c]
  BY <1>1, WorkType DEF Work, Ahead, IInv, TypeOK, Ends
<1>2. IInv /\ EnvInvariant => WorkIsLeft
  BY <1>1 DEF WorkIsLeft
<1> QED
  BY <1>2, InvAlways, EnvAlways, PTL
-----------------------------------------------------------------------------
(* Publisher implements SecretPublication.                                 *)

OutcomeOf(l) == IF l = "idle" THEN "none" ELSE IF l \in Ends THEN l ELSE "running"
Ensured == [c \in Callers |-> EnsuredBy(c)]
Mounted == [c \in Callers |-> MountedBy(c)]

\* What the abstract state is in the places a step of c can change.
LEMMA AbstractStep ==
  ASSUME IInv, NEW c \in Callers, OnlyCaller(c)
  PROVE  /\ Outcome' = [Outcome EXCEPT ![c] = OutcomeOf(pc'[c])]
         /\ Ensured' = [Ensured EXCEPT ![c] = EnsuredBy(c)']
         /\ Mounted' = [Mounted EXCEPT ![c] = MountedBy(c)']
         /\ Outcome[c] = OutcomeOf(pc[c]) /\ Ensured[c] = EnsuredBy(c) /\ Mounted[c] = MountedBy(c)
         /\ OutcomeOf(pc'[c]) = OutcomeOf(pc[c]) => Outcome' = Outcome
         /\ EnsuredBy(c)' = EnsuredBy(c) => Ensured' = Ensured
         /\ MountedBy(c)' = MountedBy(c) => Mounted' = Mounted
<1>1. ASSUME NEW d \in Callers, d # c
      PROVE  /\ pc'[d] = pc[d] /\ EnsuredBy(d)' = EnsuredBy(d) /\ MountedBy(d)' = MountedBy(d)
  <2>1. /\ pc'[d] = pc[d] /\ deployment'[d] = deployment[d] /\ vaultmap'[d] = vaultmap[d]
    BY <1>1 DEF OnlyCaller
  <2> QED
    BY <2>1 DEF EnsuredBy, MountedBy, Key, SecretName
<1>2. /\ Outcome = [d \in Callers |-> OutcomeOf(pc[d])]
      /\ Outcome' = [d \in Callers |-> OutcomeOf(pc'[d])]
  BY DEF Outcome, OutcomeOf
<1>3. Outcome' = [Outcome EXCEPT ![c] = OutcomeOf(pc'[c])] /\ Outcome[c] = OutcomeOf(pc[c])
  BY <1>1, <1>2
<1>4. Ensured' = [Ensured EXCEPT ![c] = EnsuredBy(c)'] /\ Ensured[c] = EnsuredBy(c)
  BY <1>1 DEF Ensured
<1>5. Mounted' = [Mounted EXCEPT ![c] = MountedBy(c)'] /\ Mounted[c] = MountedBy(c)
  BY <1>1 DEF Mounted
<1>6. OutcomeOf(pc'[c]) = OutcomeOf(pc[c]) => Outcome' = Outcome
  <2>1. SUFFICES ASSUME OutcomeOf(pc'[c]) = OutcomeOf(pc[c])
                 PROVE  \A d \in Callers : OutcomeOf(pc'[d]) = OutcomeOf(pc[d])
    BY <1>2
  <2> QED
    BY <1>1, <2>1
<1>7. EnsuredBy(c)' = EnsuredBy(c) => Ensured' = Ensured
  <2>1. SUFFICES ASSUME EnsuredBy(c)' = EnsuredBy(c)
                 PROVE  \A d \in Callers : EnsuredBy(d)' = EnsuredBy(d)
    BY DEF Ensured
  <2> QED
    BY <1>1, <2>1
<1>8. MountedBy(c)' = MountedBy(c) => Mounted' = Mounted
  <2>1. SUFFICES ASSUME MountedBy(c)' = MountedBy(c)
                 PROVE  \A d \in Callers : MountedBy(d)' = MountedBy(d)
    BY DEF Mounted
  <2> QED
    BY <1>1, <2>1
<1> QED
  BY <1>3, <1>4, <1>5, <1>6, <1>7, <1>8

\* A deployment mounts nothing of its own before the last step, and nothing
\* after it when it was published in the environment.
LEMMA NothingMounted ==
  ASSUME NEW c \in Callers, deployment[c].volumes = Original(c).volumes
  PROVE  MountedBy(c) = {}
BY DEF MountedBy, Original

\* Before the last step of an attempt the volumes are the original ones.
LEMMA VolumesBefore ==
  ASSUME NEW c \in Callers, CallerInv(c), pc[c] \in Before \cup {"env"}
  PROVE  deployment[c].volumes = Original(c).volumes
BY DEF CallerInv, EnvInv

\* The secrets by their keys.
LEMMA StoredKey ==
  ASSUME NEW k
  PROVE  Publication!Exists(k) <=> \E s \in cluster : KeyOf(s) = k
<1>1. Publication!Exists(k) <=> \E p \in Stored : p[1] = k
  BY DEF Publication!Exists
<1>2. ASSUME NEW s \in cluster, KeyOf(s) = k
      PROVE  \E p \in Stored : p[1] = k
  <2>1. <<KeyOf(s), ContentOf(s)>> \in Stored
    BY DEF Stored
  <2> QED
    BY <2>1, <1>2
<1>3. ASSUME NEW p \in Stored, p[1] = k
      PROVE  \E s \in cluster : KeyOf(s) = k
  <2>1. PICK s \in cluster : p = <<KeyOf(s), ContentOf(s)>>
    BY DEF Stored
  <2> QED
    BY <2>1, <1>3
<1> QED
  BY <1>1, <1>2, <1>3

\* The cluster's secrets and the abstract store agree on the names that exist.
LEMMA StoredKeys ==
  ASSUME TypeOK, NEW c \in Callers
  PROVE  /\ Publication!Exists(Key(c)) <=> Found(c)
         /\ Found(c) => Key(c) \in {KeyOf(s) : s \in Secrets}
<1>1. \A s : KeyOf(s) = Key(c) <=> (s.ns = deployment[c].ns /\ s.name = SecretName(c))
  BY DEF KeyOf, Key
<1>2. Publication!Exists(Key(c)) <=> \E s \in cluster : KeyOf(s) = Key(c)
  BY StoredKey
<1> QED
  BY <1>1, <1>2 DEF Found, TypeOK

\* A new secret is a new pair of the abstract store.
LEMMA StoredAdds ==
  ASSUME NEW s, cluster' = cluster \cup {s}
  PROVE  Stored' = Stored \cup {<<KeyOf(s), ContentOf(s)>>}
BY DEF Stored

\* The steps of c that end an attempt without success, or are none.
LEMMA FailImplements ==
  ASSUME IInv, NEW c \in Callers, OnlyCaller(c), cluster' = cluster,
         OutcomeOf(pc[c]) = "running", pc'[c] \in {"failed", "panic"},
         EnsuredBy(c)' = EnsuredBy(c), MountedBy(c)' = MountedBy(c)
  PROVE  Publication!Next
<1>1. /\ Outcome[c] = "running" /\ Outcome' = [Outcome EXCEPT ![c] = pc'[c]]
      /\ Ensured' = Ensured /\ Mounted' = Mounted
  BY AbstractStep DEF OutcomeOf, Ends
<1>2. Stored' = Stored
  BY DEF Stored
<1>3. Publication!Fail(c)
  BY <1>1, <1>2 DEF Publication!Fail, Ensured, Mounted
<1> QED
  BY <1>3 DEF Publication!Next

\* What shows neither in the cluster nor in an outcome is a stutter.
LEMMA StutterImplements ==
  ASSUME IInv, NEW c \in Callers, OnlyCaller(c), cluster' = cluster,
         OutcomeOf(pc'[c]) = OutcomeOf(pc[c]),
         EnsuredBy(c)' = EnsuredBy(c), MountedBy(c)' = MountedBy(c)
  PROVE  UNCHANGED Publication!publicationVars
<1>1. Outcome' = Outcome /\ Ensured' = Ensured /\ Mounted' = Mounted
  BY AbstractStep
<1>2. Stored' = Stored
  BY DEF Stored
<1> QED
  BY <1>1, <1>2 DEF Publication!publicationVars, Ensured, Mounted

\* Every step is one of SecretPublication, or none.
LEMMA StepImplements == IInv /\ IInv' /\ [Next]_vars => [Publication!Next]_(Publication!publicationVars)
<1> SUFFICES ASSUME IInv, IInv', [Next]_vars
             PROVE  Publication!Next \/ UNCHANGED Publication!publicationVars
  OBVIOUS
<1> DEFINE Goal == Publication!Next \/ UNCHANGED Publication!publicationVars
<1>a. ASSUME NEW c \in Callers, pc[c] \in Before \cup {"env"}
      PROVE  MountedBy(c) = {}
  BY <1>a, VolumesBefore, NothingMounted DEF IInv
<1>b. ASSUME NEW c \in Callers, pc'[c] \in Before \cup {"env"}
      PROVE  MountedBy(c)' = {}
  <2>1. CallerInv(c)'
    BY DEF IInv
  <2>2. deployment'[c].volumes = Original(c).volumes
    BY <2>1, <1>b DEF CallerInv, EnvInv, Original
  <2> QED
    BY <2>2 DEF MountedBy, Original
<1>1. ASSUME NEW c \in Callers, NEW vm \in VaultMaps, NEW m \in SecretMaps, Publish(c, vm, m)
      PROVE  Goal
  <2>1. OnlyCaller(c) /\ pc[c] \in {"idle", "failed"} /\ pc'[c] = "create" /\ cluster' = cluster
    BY <1>1, PublishInv DEF Publish, Goto, IInv, TypeOK
  <2>2. MountedBy(c) = {} /\ MountedBy(c)' = {}
    BY <2>1, <1>a, <1>b DEF Before
  <2>3. EnsuredBy(c)' = {}
    BY <2>1 DEF EnsuredBy
  <2>4. /\ Outcome[c] \in {"none", "failed"} /\ Outcome' = [Outcome EXCEPT ![c] = "running"]
        /\ Ensured' = [Ensured EXCEPT ![c] = {}] /\ Mounted' = Mounted
    BY <2>1, <2>2, <2>3, AbstractStep DEF OutcomeOf, Ends
  <2>5. Stored' = Stored
    BY <2>1 DEF Stored
  <2>6. Publication!Attempt(c)
    BY <2>4, <2>5 DEF Publication!Attempt, Ensured, Mounted
  <2> QED
    BY <2>6 DEF Publication!Next
<1>2. ASSUME NEW c \in Callers, CreatePublisher(c)
      PROVE  Goal
  <2>1. /\ OnlyCaller(c) /\ pc[c] = "create" /\ pc'[c] \in {"env", "resolve", "failed"}
        /\ cluster' = cluster
    BY <1>2, CreatePublisherInv DEF CreatePublisher, Goto, IInv, TypeOK
  <2>2. MountedBy(c) = {} /\ MountedBy(c)' = {} /\ EnsuredBy(c) = {} /\ EnsuredBy(c)' = {}
    BY <2>1, <1>a, <1>b DEF Before, EnsuredBy
  <2> QED
    BY <2>1, <2>2, FailImplements, StutterImplements DEF OutcomeOf, Ends
<1>3. ASSUME NEW c \in Callers, NEW key \in todo[c], PublishEnv(c, key)
      PROVE  Goal
  <2>1. /\ OnlyCaller(c) /\ pc[c] = "env" /\ pc'[c] \in {"env", "panic"}
        /\ cluster' = cluster
    BY <1>3, PublishEnvInv DEF PublishEnv, Goto, IInv, TypeOK
  <2>2. MountedBy(c) = {} /\ MountedBy(c)' = {} /\ EnsuredBy(c) = {} /\ EnsuredBy(c)' = {}
    BY <2>1, <1>a, <1>b DEF Before, EnsuredBy
  <2> QED
    BY <2>1, <2>2, FailImplements, StutterImplements DEF OutcomeOf, Ends
<1>4. ASSUME NEW c \in Callers, ReturnEnv(c)
      PROVE  Goal
  <2>1. /\ OnlyCaller(c) /\ pc[c] = "env" /\ pc'[c] = "ok"
        /\ UNCHANGED <<cluster, deployment, vaultmap>> /\ vaultmap[c].type = "env"
    BY <1>4, ReturnEnvInv DEF ReturnEnv, Goto, IInv, TypeOK, CallerInv, EnvInv
  <2>2. MountedBy(c) = {} /\ EnsuredBy(c) = {} /\ EnsuredBy(c)' = {}
    BY <2>1, <1>a DEF EnsuredBy
  <2>3. MountedBy(c)' = MountedBy(c)
    BY <2>1 DEF MountedBy
  <2>4. /\ Outcome[c] = "running" /\ Outcome' = [Outcome EXCEPT ![c] = "ok"]
        /\ Ensured' = Ensured /\ Ensured[c] = {} /\ Mounted' = [Mounted EXCEPT ![c] = {}]
    BY <2>1, <2>2, <2>3, AbstractStep DEF OutcomeOf, Ends
  <2>5. Stored' = Stored
    BY <2>1 DEF Stored
  <2>6. Publication!Publish(c)
    BY <2>4, <2>5 DEF Publication!Publish, Ensured, Mounted
  <2> QED
    BY <2>6 DEF Publication!Next
<1>5. ASSUME NEW c \in Callers, ResolveTemplates(c)
      PROVE  Goal
  <2>1. /\ OnlyCaller(c) /\ pc[c] = "resolve" /\ pc'[c] \in {"list", "failed", "panic"}
        /\ cluster' = cluster
    BY <1>5, ResolveTemplatesInv DEF ResolveTemplates, Goto, IInv, TypeOK
  <2>2. MountedBy(c) = {} /\ MountedBy(c)' = {} /\ EnsuredBy(c) = {} /\ EnsuredBy(c)' = {}
    BY <2>1, <1>a, <1>b DEF Before, EnsuredBy
  <2> QED
    BY <2>1, <2>2, FailImplements, StutterImplements DEF OutcomeOf, Ends
<1>6. ASSUME NEW c \in Callers, Publication!Ensure(c, Key(c)), Key(c) \in {KeyOf(s) : s \in Secrets}
      PROVE  Goal
  BY <1>6 DEF Publication!Next
<1>7. ASSUME NEW c \in Callers, OnlyCaller(c), UNCHANGED <<deployment, vaultmap>>,
             pc[c] \in {"list", "createSecret"}, pc'[c] = "mount"
      PROVE  /\ Outcome[c] = "running" /\ Outcome' = Outcome
             /\ Ensured' = [Ensured EXCEPT ![c] = {Key(c)}] /\ Mounted' = Mounted
  <2>1. vaultmap[c].type = "volume"
    BY <1>7 DEF IInv, CallerInv
  <2>2. EnsuredBy(c)' = {Key(c)}
    BY <1>7, <2>1 DEF EnsuredBy, Key, SecretName
  <2>3. MountedBy(c) = {} /\ MountedBy(c)' = {}
    BY <1>7, <1>a, <1>b DEF Before
  <2> QED
    BY <1>7, <2>2, <2>3, AbstractStep DEF OutcomeOf, Ends
<1>8. ASSUME NEW c \in Callers, SecretExists(c)
      PROVE  Goal
  <2>1. /\ OnlyCaller(c) /\ pc[c] = "list" /\ UNCHANGED <<cluster, deployment, vaultmap>>
        /\ \/ pc'[c] = "mount" /\ Found(c)
           \/ pc'[c] \in {"createSecret", "failed"}
    BY <1>8, SecretExistsInv DEF SecretExists, Goto, IInv, TypeOK
  <2>2. CASE pc'[c] = "mount" /\ Found(c)
    <3>1. Stored' = Stored
      BY <2>1 DEF Stored
    <3>2. Publication!Exists(Key(c)) /\ Key(c) \in {KeyOf(s) : s \in Secrets}
      BY <2>2, StoredKeys DEF IInv
    <3>3. Publication!Ensure(c, Key(c))
      BY <1>7, <2>1, <2>2, <3>1, <3>2 DEF Publication!Ensure, Ensured, Mounted
    <3> QED
      BY <3>2, <3>3, <1>6
  <2>3. CASE pc'[c] \in {"createSecret", "failed"}
    <3>1. MountedBy(c) = {} /\ MountedBy(c)' = {} /\ EnsuredBy(c) = {} /\ EnsuredBy(c)' = {}
      BY <2>1, <2>3, <1>a, <1>b DEF Before, EnsuredBy
    <3> QED
      BY <2>1, <2>3, <3>1, FailImplements, StutterImplements DEF OutcomeOf, Ends
  <2> QED
    BY <2>1, <2>2, <2>3
<1>9. ASSUME NEW c \in Callers, CreateSecret(c)
      PROVE  Goal
  <2> DEFINE k == KeyOf(SecretFor(c))
             content == ContentOf(SecretFor(c))
  <2>1. /\ OnlyCaller(c) /\ pc[c] = "createSecret" /\ UNCHANGED <<deployment, vaultmap>>
        /\ \/ pc'[c] \in {"mount", "failed"} /\ ~Found(c) /\ cluster' = cluster \cup {SecretFor(c)}
           \/ pc'[c] = "failed" /\ cluster' = cluster
    BY <1>9, CreateSecretInv DEF CreateSecret, Goto, IInv, TypeOK
  <2>2. /\ k = Key(c) /\ k \in {KeyOf(s) : s \in Secrets}
        /\ content \in {ContentOf(s) : s \in Secrets}
    <3>1. SecretFor(c) \in Secrets
      BY <2>1, SecretForType
    <3>2. k = Key(c)
      BY DEF KeyOf, SecretFor, Key
    <3> QED
      BY <3>1, <3>2
  <2> HIDE DEF k, content
  <2>3. CASE pc'[c] = "failed" /\ cluster' = cluster
    <3>1. MountedBy(c) = {} /\ MountedBy(c)' = {} /\ EnsuredBy(c) = {} /\ EnsuredBy(c)' = {}
      BY <2>1, <2>3, <1>a, <1>b DEF Before, EnsuredBy
    <3> QED
      BY <2>1, <2>3, <3>1, FailImplements DEF OutcomeOf, Ends
  <2>4. CASE ~Found(c) /\ cluster' = cluster \cup {SecretFor(c)}
    <3>1. Stored' = Stored \cup {<<k, content>>}
      BY <2>4, StoredAdds DEF k, content
    <3>2. ~Publication!Exists(k)
      BY <2>2, <2>4, StoredKeys DEF IInv
    <3>3. CASE pc'[c] = "mount"
      <4>1. Publication!Ensure(c, Key(c))
        BY <1>7, <2>1, <2>2, <3>1, <3>2, <3>3 DEF Publication!Ensure, Ensured, Mounted
      <4> QED
        BY <4>1, <2>2, <1>6
    <3>4. CASE pc'[c] = "failed"
      <4>1. MountedBy(c) = {} /\ MountedBy(c)' = {} /\ EnsuredBy(c) = {} /\ EnsuredBy(c)' = {}
        BY <2>1, <3>4, <1>a, <1>b DEF Before, EnsuredBy
      <4>2. /\ Outcome[c] = "running" /\ Outcome' = [Outcome EXCEPT ![c] = "failed"]
            /\ Ensured' = Ensured /\ Mounted' = Mounted
        BY <2>1, <3>4, <4>1, AbstractStep DEF OutcomeOf, Ends
      <4>3. Publication!Fail(c)
        BY <2>2, <3>1, <3>2, <4>2 DEF Publication!Fail, Ensured, Mounted
      <4> QED
        BY <4>3 DEF Publication!Next
    <3> QED
      BY <2>1, <2>4, <3>3, <3>4
  <2> QED
    BY <2>1, <2>3, <2>4
<1>10. ASSUME NEW c \in Callers, PublishVolume(c)
       PROVE  Goal
  <2>1. /\ OnlyCaller(c) /\ pc[c] = "mount" /\ pc'[c] = "ok" /\ UNCHANGED <<vaultmap, cluster>>
        /\ vaultmap[c].type = "volume" /\ deployment[c] = Original(c)
    BY <1>10, PublishVolumeInv DEF PublishVolume, Goto, IInv, TypeOK, CallerInv, Before
  <2>2. /\ SecretName(c)' = SecretName(c) /\ deployment'[c].ns = deployment[c].ns
        /\ deployment'[c].volumes = Append(Original(c).volumes, Volume(c))
    BY <1>10, PublishVolumeNames
  <2>3. EnsuredBy(c) = {Key(c)} /\ EnsuredBy(c)' = {Key(c)}
    BY <2>1, <2>2 DEF EnsuredBy, Key
  <2>4. MountedBy(c)' = {Key(c)}
    <3> DEFINE vs == Original(c).volumes
               n == Len(vs) + 1
    <3>1. vs \in Seq({vs[i] : i \in DOMAIN vs})
      BY PublisherAssumption DEF Original
    <3> HIDE DEF vs
    <3>2. /\ DOMAIN Append(vs, Volume(c)) = 1..n /\ DOMAIN vs = 1..Len(vs) /\ Len(vs) \in Nat
          /\ Append(vs, Volume(c))[n] = Volume(c)
      BY <3>1
    <3>3. DOMAIN deployment'[c].volumes \ DOMAIN DeploymentOf[c].volumes = {n}
          /\ deployment'[c].volumes[n] = Volume(c)
      BY <2>2, <3>2 DEF vs, Original
    <3>4. [ns |-> deployment'[c].ns, name |-> deployment'[c].volumes[n].secretName] = Key(c)
      BY <2>2, <3>3 DEF Key, Volume
    <3> HIDE DEF n
    <3> QED
      BY <3>3, <3>4 DEF MountedBy
  <2>5. /\ Outcome[c] = "running" /\ Outcome' = [Outcome EXCEPT ![c] = "ok"]
        /\ Ensured' = Ensured /\ Mounted' = [Mounted EXCEPT ![c] = Ensured[c]]
    BY <2>1, <2>3, <2>4, AbstractStep DEF OutcomeOf, Ends
  <2>6. Stored' = Stored
    BY <2>1 DEF Stored
  <2>7. Publication!Publish(c)
    BY <2>5, <2>6 DEF Publication!Publish, Ensured, Mounted
  <2> QED
    BY <2>7 DEF Publication!Next
<1>11. ASSUME NEW s \in cluster, DeleteSecret(s)
       PROVE  Goal
  <2>1. cluster' = cluster \ {s} /\ UNCHANGED <<pc, deployment, vaultmap>>
    BY <1>11 DEF DeleteSecret, localVars
  <2>2. Outcome' = Outcome /\ Ensured' = Ensured /\ Mounted' = Mounted
    BY <2>1 DEF Outcome, Ensured, Mounted, EnsuredBy, MountedBy, Key, SecretName
  <2>3. \A t \in cluster : KeyOf(t) = KeyOf(s) <=> t = s
    BY DEF IInv, TypeOK, SameObject, KeyOf
  <2>4. Stored' = {p \in Stored : p[1] # KeyOf(s)}
    BY <2>1, <2>3 DEF Stored
  <2>5. Publication!Exists(KeyOf(s)) /\ KeyOf(s) \in {KeyOf(t) : t \in Secrets}
    BY StoredKey DEF IInv, TypeOK
  <2>6. Publication!Delete(KeyOf(s))
    BY <2>2, <2>4, <2>5 DEF Publication!Delete, Ensured, Mounted
  <2> QED
    BY <2>5, <2>6 DEF Publication!Next
<1>12. CASE UNCHANGED vars
  <2>1. UNCHANGED <<pc, deployment, vaultmap, cluster>>
    BY <1>12 DEF vars, localVars
  <2> QED
    BY <2>1 DEF Publication!publicationVars, Outcome, EnsuredBy, MountedBy, Key, SecretName, Stored
<1>13. ASSUME NEW c \in Callers, Step(c)
       PROVE  Goal
  BY <1>13, <1>2, <1>3, <1>4, <1>5, <1>8, <1>9, <1>10 DEF Step
<1> QED
  BY <1>1, <1>11, <1>12, <1>13 DEF Next

\* The initial states are its initial states.
LEMMA InitImplements == Init => Publication!Init
<1> SUFFICES ASSUME Init PROVE Publication!Init
  OBVIOUS
<1>1. /\ Outcome = [c \in Callers |-> "none"]
      /\ [c \in Callers |-> EnsuredBy(c)] = [c \in Callers |-> {}]
  BY DEF Init, Outcome, EnsuredBy
<1>2. \A c \in Callers : MountedBy(c) = {}
  BY NothingMounted DEF Init, Original
<1>3. Stored \subseteq {KeyOf(s) : s \in Secrets} \X {ContentOf(s) : s \in Secrets}
  BY DEF Init, Stored, Secrets
<1> QED
  BY <1>1, <1>2, <1>3 DEF Publication!Init

\* The publishers, with their API calls, lost answers and retries, implement
\* what SecretPublication promises the callers.
THEOREM PublisherImplementsPublication == Spec => PublicationSpec
<1> QED
  BY InvAlways, InitImplements, StepImplements, PTL DEF Spec, PublicationSpec, Publication!Spec
=============================================================================
