--------------------------- MODULE SecretPublication ---------------------------
(***************************************************************************)
(* What publishing promises a caller, whatever the API server answers and  *)
(* whoever else publishes at the same time: an attempt ends once; the      *)
(* deployment refers to a Kubernetes secret only if this attempt found the *)
(* secret or created it; and no attempt changes a secret that exists.      *)
(*                                                                         *)
(* Publisher implements this module.                                       *)
(***************************************************************************)
CONSTANTS
  Callers,               \* goroutines that publish, each for its deployment
  Keys,                  \* namespace and name of a Kubernetes secret
  Contents               \* what a Kubernetes secret may hold

VARIABLES
  outcome,               \* "running", or how the last attempt ended
  ensured,               \* the secrets this attempt found or created
  mounted,               \* the secrets the deployment's own volumes refer to
  stored                 \* the secrets in the cluster: <<key, content>>

publicationVars == <<outcome, ensured, mounted, stored>>

Exists(k) == \E s \in stored : s[1] = k

Init ==
  /\ outcome = [c \in Callers |-> "none"]
  /\ ensured = [c \in Callers |-> {}]
  /\ mounted = [c \in Callers |-> {}]
  /\ stored \subseteq Keys \X Contents

\* A new attempt; only after a failed one is there a second.
Attempt(c) ==
  /\ outcome[c] \in {"none", "failed"}
  /\ outcome' = [outcome EXCEPT ![c] = "running"]
  /\ ensured' = [ensured EXCEPT ![c] = {}]
  /\ UNCHANGED <<mounted, stored>>

\* The attempt learns that the secret exists, or creates it.
Ensure(c, k) ==
  /\ outcome[c] = "running"
  /\ \/ Exists(k) /\ UNCHANGED stored
     \/ ~Exists(k) /\ \E content \in Contents : stored' = stored \cup {<<k, content>>}
  /\ ensured' = [ensured EXCEPT ![c] = {k}]
  /\ UNCHANGED <<outcome, mounted>>

Publish(c) ==
  /\ outcome[c] = "running"
  /\ outcome' = [outcome EXCEPT ![c] = "ok"]
  /\ mounted' = [mounted EXCEPT ![c] = ensured[c]]
  /\ UNCHANGED <<ensured, stored>>

\* A failed attempt may leave a secret behind: its Create was carried out, but
\* the answer was lost.
Fail(c) ==
  /\ outcome[c] = "running"
  /\ outcome' \in {[outcome EXCEPT ![c] = how] : how \in {"failed", "panic"}}
  /\ \/ UNCHANGED stored
     \/ \E k \in Keys, content \in Contents :
          ~Exists(k) /\ stored' = stored \cup {<<k, content>>}
  /\ UNCHANGED <<ensured, mounted>>

\* Someone else deletes a secret.
Delete(k) ==
  /\ Exists(k)
  /\ stored' = {s \in stored : s[1] # k}
  /\ UNCHANGED <<outcome, ensured, mounted>>

Next ==
  \/ \E c \in Callers : Attempt(c) \/ Publish(c) \/ Fail(c) \/ \E k \in Keys : Ensure(c, k)
  \/ \E k \in Keys : Delete(k)

Spec == Init /\ [][Next]_publicationVars
=============================================================================
