----------------------------- MODULE MCPublisher -----------------------------
(* Bounded instances of Publisher for TLC.                                 *)
EXTENDS Publisher, TLC

CONSTANTS c1, c2, c3

\* Two deployments of one namespace whose containers have the same name, so
\* that the default name pattern gives them the same secret; the first has a
\* sidecar, a volume and a variable of its own.
Web == [ns |-> "default", name |-> "web",
        containers |-> <<[name |-> "app", mounts |-> <<>>,
                          env |-> <<[name |-> "user", value |-> "mine"],
                                    [name |-> "mode", value |-> "test"]>>],
                         [name |-> "sidecar", mounts |-> <<>>, env |-> <<>>]>>,
        volumes |-> <<[name |-> "data", secretName |-> [x \in {"none"} |-> "none"]]>>]
Job == [ns |-> "default", name |-> "job",
        containers |-> <<[name |-> "app", mounts |-> <<>>, env |-> <<>>]>>,
        volumes |-> <<>>]
Empty == [Job EXCEPT !.name = "empty", !.containers = <<>>]

MCPair == c1 :> Web @@ c2 :> Job
MCEmpty == c1 :> Web @@ c3 :> Empty

DefaultName == {"Namespace", "ContainerName"}
VolumeMap == [type |-> "volume", namePattern |-> DefaultName, pathPattern |-> {},
              filePattern |-> {}]
FileMap == [VolumeMap EXCEPT !.filePattern = {"DeploymentName"}]
EnvMap == [VolumeMap EXCEPT !.type = "env"]
MCVolumeMaps == {VolumeMap, FileMap}
MCAllMaps == {VolumeMap, EnvMap, [VolumeMap EXCEPT !.type = "file"],
              [VolumeMap EXCEPT !.pathPattern = {"MissingToken"}]}

Vault1 == "user" :> "admin" @@ "password" :> "one"
Vault2 == "password" :> "two"
MCSecretMaps == {Vault1, Vault2}
\* Vault may hold nothing under the path.
MCMaybeEmpty == {Vault1, [k \in {} |-> "none"]}

\* A secret of that name left behind by an earlier deployment.
Left == [ns |-> "default", name |-> ResolveTemplate(Web, DefaultName),
         file |-> ResolveTemplate(Web, {}), data |-> "password" :> "zero"]
Foreign == [Left EXCEPT !.ns = "kube-system"]
MCOther == {Left, Foreign}
=============================================================================
