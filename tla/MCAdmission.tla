------------------------------ MODULE MCAdmission ------------------------------
(* Bounded instances of Admission for TLC: a pod that is tried twice, one   *)
(* that no webhook is asked about, and a handful of other requests.        *)
EXTENDS Admission, TLC

CONSTANTS first, retry, system, web, etcd

MCPodOf == first :> web @@ retry :> web @@ system :> etcd
MCPosts ==
  [body : {"malformed", "noRequest", "badPod"}, contentType : {"application/json"}]
    \cup [body : {"pod"}, contentType : {"other"}]
=============================================================================
